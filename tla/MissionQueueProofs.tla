-------------------------- MODULE MissionQueueProofs --------------------------
(****************************************************************************)
(* What MissionQueue keeps for any missions, sessions, workspaces and       *)
(* bounds: locks exclude each other in the memory and in the file, what was *)
(* typed does not wait again, and a dispatch is durable, alone, and leaves  *)
(* nothing behind.                                                          *)
(*                                                                          *)
(* A dispatch or an adoption spans several steps, and what it checked at    *)
(* its first step it relies on at its last.  The inductive invariant says   *)
(* why it may: every request of an operator waits while one is in progress  *)
(* (op = Idle), so the store is as it was checked.  What a failed write     *)
(* leaves in the file is no exception: it is what the memory would have     *)
(* been, hence sound by itself.                                             *)
(*                                                                          *)
(* And what the supervisor of a mission keeps for any number of attempts    *)
(* and panes: the report that it takes to be verified is the mission's own. *)
(****************************************************************************)
EXTENDS MCMissions, FiniteSetTheorems, TLAPS

\* A store whose missions can be loaded again and exclude each other.
Sound(st) == st \in [Jobs -> Job] /\ Valid(st) /\ Exclusive(st)

\* What was typed and not released neither waits in a store nor is gone from it.
Held(st, done) == \A j \in done : st[j].status \notin QueueStatuses \cup {"absent"}

\* The mission of a dispatch, or adoption, that has not written yet is as it was
\* when its locks were compared.
Free(st, j, s) ==
  /\ \A o \in Active(st) \ {j} : st[o].pane.worker # s /\ st[o].workspace # st[j].workspace
  /\ st[j].status = "ready" => Cardinality(Active(st) \ {j}) < MaxActive

BeforeWrite == {"chosen", "adopting", "writing"}

\* What the operation in progress may rely on.
OpHasStore ==
  /\ op.at = "idle" => op = Idle
  /\ op.at # "idle" => op.job \in Jobs /\ op.pane.worker \in Sessions
  /\ op.at \in BeforeWrite =>
       /\ attempts < MaxAttempts
       /\ mem[op.job].status \in IF op.at = "chosen" THEN {"ready"} ELSE {"ready", "needs_you"}
       /\ Free(mem, op.job, op.pane.worker)
  /\ op.at \in Delivering =>
       /\ mem[op.job].status = "dispatching" /\ mem[op.job].pane = op.pane
       /\ \A j \in Queued(mem) : mem[j].position # mem[op.job].position
  /\ op.at = "claimed" => op.job \notin typed
  /\ op.at \in {"record", "retry"} =>
       /\ op.to \in {"ready", "running", "reconcile_required"}
       /\ op.to = "ready" => op.job \notin typed

\* A mission is dispatching in the hands of its dispatch, or two writes failed.
DispatchingIsHeld ==
  /\ \A j \in Jobs : mem[j].status = "dispatching" =>
       (op.at \in Delivering /\ op.job = j) \/ spent.faults >= 2
  /\ op.at = "retry" => spent.faults >= 1

\* The inductive invariant.
MissionInv ==
  /\ TypeOK
  /\ Sound(mem) /\ Sound(disk)
  /\ Held(mem, typed) /\ Held(disk, typed)
  /\ OpHasStore
  /\ ClaimIsDurable /\ DispatchIsAlone /\ DispatchingIsHeld

---------------------------------------------------------------------------
(* The order of the line.                                                  *)

LEMMA Constants ==
  /\ IsFiniteSet(Jobs) /\ Cardinality(Jobs) \in Nat
  /\ MaxActive \in Nat /\ MaxAttempts \in Nat /\ MaxGen \in Nat \ {0}
  /\ MaxCrashes \in Nat /\ MaxFaults \in Nat
  /\ Weight \in [Jobs -> Nat] /\ NoOne \notin Sessions /\ NoOne \notin Jobs
BY MissionBounds, NoOneAssumption, FS_CardinalityType

\* No two of the missions js have the same position.
Distinct(st, js) == \A j, k \in js : j # k => st[j].position # st[k].position

\* A mission's rank in the line: fewer than all come before it, fewer before one
\* that comes before another.
LEMMA Rank ==
  ASSUME NEW st \in [Jobs -> Job], NEW js \in SUBSET Jobs, NEW j \in js
  PROVE  /\ IsFiniteSet(Before(st, js, j))
         /\ Cardinality(Before(st, js, j)) \in Nat
         /\ Cardinality(Before(st, js, j)) < Cardinality(js)
         /\ Cardinality(js) \in Nat /\ Cardinality(js) <= Cardinality(Jobs)
<1> \A k \in Jobs : st[k].position \in Nat
  BY Constants DEF Job
<1>1. IsFiniteSet(js) /\ Cardinality(js) <= Cardinality(Jobs)
  BY Constants, FS_Subset
<1>2. Cardinality(js) \in Nat
  BY <1>1, FS_CardinalityType
<1>3. IsFiniteSet(js \ {j}) /\ Cardinality(js \ {j}) = Cardinality(js) - 1
  BY <1>1, FS_RemoveElement
<1>4. Before(st, js, j) \in SUBSET (js \ {j})
  BY DEF Before
<1>5. IsFiniteSet(Before(st, js, j)) /\ Cardinality(Before(st, js, j)) <= Cardinality(js \ {j})
  BY <1>3, <1>4, FS_Subset
<1>6. Cardinality(Before(st, js, j)) \in Nat
  BY <1>5, FS_CardinalityType
<1> QED BY <1>1, <1>2, <1>3, <1>5, <1>6

LEMMA RankGrows ==
  ASSUME NEW st \in [Jobs -> Job], NEW js \in SUBSET Jobs, NEW j \in js, NEW k \in js,
         st[j].position < st[k].position
  PROVE  Cardinality(Before(st, js, j)) < Cardinality(Before(st, js, k))
<1> \A i \in Jobs : st[i].position \in Nat
  BY Constants DEF Job
<1>1. Before(st, js, j) \in SUBSET Before(st, js, k)
  BY DEF Before
<1>2. j \in Before(st, js, k) /\ j \notin Before(st, js, j)
  BY DEF Before
<1>3. IsFiniteSet(Before(st, js, k)) /\ Cardinality(Before(st, js, k)) \in Nat
      /\ Cardinality(Before(st, js, j)) \in Nat
  BY Rank
<1>4. /\ Cardinality(Before(st, js, j)) <= Cardinality(Before(st, js, k))
      /\ Cardinality(Before(st, js, k)) = Cardinality(Before(st, js, j))
         => Before(st, js, k) = Before(st, js, j)
  BY <1>1, <1>3, FS_Subset
<1> QED BY <1>2, <1>3, <1>4

LEMMA RanksDiffer ==
  ASSUME NEW st \in [Jobs -> Job], NEW js \in SUBSET Jobs, Distinct(st, js),
         NEW j \in js, NEW k \in js, j # k
  PROVE  Cardinality(Before(st, js, j)) # Cardinality(Before(st, js, k))
<1> st[j].position \in Nat /\ st[k].position \in Nat /\ st[j].position # st[k].position
  BY Constants DEF Job, Distinct
<1> Cardinality(Before(st, js, j)) \in Nat /\ Cardinality(Before(st, js, k)) \in Nat
  BY Rank
<1>1. CASE st[j].position < st[k].position
  BY <1>1, RankGrows
<1>2. CASE st[k].position < st[j].position
  BY <1>2, RankGrows
<1> QED BY <1>1, <1>2

\* Two stores that differ in nothing but positions, and those of the second are in range.
Reordered(st, new) ==
  /\ new \in [Jobs -> Job]
  /\ \A j \in Jobs :
       /\ new[j].status = st[j].status /\ new[j].workspace = st[j].workspace
       /\ new[j].pane = st[j].pane /\ new[j].attempt = st[j].attempt
       /\ new[j].ended = st[j].ended /\ new[j].passed = st[j].passed

LEMMA Positions ==
  ASSUME NEW st \in [Jobs -> Job], NEW f, \A j \in Jobs : f[j] \in 0 .. Cardinality(Jobs),
         NEW new, new = [j \in Jobs |-> [st[j] EXCEPT !.position = f[j]]]
  PROVE  Reordered(st, new)
BY DEF Reordered, Job

\* normalizeMissionPositions keeps the order of the line.
LEMMA NormalizedIsOrdered ==
  ASSUME NEW st \in [Jobs -> Job], Distinct(st, Queued(st))
  PROVE  Reordered(st, Normalized(st)) /\ Distinct(Normalized(st), Queued(Normalized(st)))
<1> DEFINE Q == Queued(st)
           f == [j \in Jobs |-> IF j \in Q THEN Cardinality(Before(st, Q, j)) + 1 ELSE 0]
<1>1. Q \in SUBSET Jobs
  BY DEF Queued
<1>2. \A j \in Q : /\ Cardinality(Before(st, Q, j)) \in Nat
                   /\ Cardinality(Before(st, Q, j)) < Cardinality(Jobs)
  <2> TAKE j \in Q
  <2> HIDE DEF Q
  <2> QED BY <1>1, Rank, Constants
<1>3. \A j \in Jobs : f[j] \in 0 .. Cardinality(Jobs)
  <2> HIDE DEF Q
  <2> QED BY <1>2, Constants
<1>4. Normalized(st) = [j \in Jobs |-> [st[j] EXCEPT !.position = f[j]]]
  BY DEF Normalized
<1>0. \A j \in Q : f[j] = Cardinality(Before(st, Q, j)) + 1
  BY <1>1
<1> HIDE DEF Q, f
<1>5. Reordered(st, Normalized(st))
  BY <1>3, <1>4, Positions
<1>6. Queued(Normalized(st)) = Q
  BY <1>5 DEF Queued, Reordered, Q
<1>7. \A j \in Q : Normalized(st)[j].position = f[j]
  BY <1>1, <1>4 DEF Job
<1>8. \A j, k \in Q : j # k => f[j] # f[k]
  BY <1>0, <1>1, <1>2, RanksDiffer DEF Q
<1> QED BY <1>5, <1>6, <1>7, <1>8 DEF Distinct


\* placeMissionByPriority keeps the order of the others and gives j a place of its own.
LEMMA PlacedIsOrdered ==
  ASSUME NEW st \in [Jobs -> Job], NEW j \in Jobs, Distinct(st, Queued(st) \ {j})
  PROVE  Reordered(st, Placed(st, j)) /\ Distinct(Placed(st, j), Queued(Placed(st, j)))
<1> DEFINE O == Queued(st) \ {j}
           A == Ahead(st, O, j)
           n(k) == Cardinality(Before(st, O, k))
           f == [k \in Jobs |-> Place(st, j, k)]
<1>0. \A i \in Jobs : st[i].position \in Nat /\ Weight[i] \in Nat
  BY Constants DEF Job
<1>1. O \in SUBSET Jobs /\ A \in SUBSET O /\ A \in SUBSET Jobs /\ j \notin O
  BY DEF Queued, Ahead
<1>2. \A k \in Jobs : f[k] = IF k = j THEN Cardinality(A) + 1
                             ELSE IF k \in O THEN n(k) + (IF k \in A THEN 1 ELSE 2) ELSE 0
  BY DEF Place
<1>3. Placed(st, j) = [k \in Jobs |-> [st[k] EXCEPT !.position = f[k]]]
  BY DEF Placed
<1>4. \A k \in A : Before(st, O, k) = Before(st, A, k)
  BY <1>0, <1>1 DEF Before, Ahead
<1>5. \A k \in O \ A : A \in SUBSET Before(st, O, k)
  BY <1>0, <1>1 DEF Before, Ahead
<1> HIDE DEF O, A, f
<1>6. /\ IsFiniteSet(A) /\ Cardinality(A) \in Nat /\ Cardinality(A) <= Cardinality(O)
      /\ Cardinality(O) \in Nat /\ Cardinality(O) < Cardinality(Jobs)
  <2>1. IsFiniteSet(Jobs \ {j}) /\ Cardinality(Jobs \ {j}) = Cardinality(Jobs) - 1
    BY Constants, FS_RemoveElement
  <2>2. O \in SUBSET (Jobs \ {j})
    BY <1>1
  <2>3. IsFiniteSet(O) /\ Cardinality(O) <= Cardinality(Jobs \ {j})
    BY <2>1, <2>2, FS_Subset
  <2>4. IsFiniteSet(A) /\ Cardinality(A) <= Cardinality(O)
    BY <1>1, <2>3, FS_Subset
  <2>5. Cardinality(O) \in Nat /\ Cardinality(A) \in Nat
    BY <2>3, <2>4, FS_CardinalityType
  <2> QED BY <2>1, <2>3, <2>4, <2>5, Constants
<1>7. \A k \in O : n(k) \in Nat /\ n(k) < Cardinality(O)
  <2> TAKE k \in O
  <2> QED BY <1>1, Rank
<1>8. \A k \in A : n(k) < Cardinality(A)
  <2> TAKE k \in A
  <2>1. Cardinality(Before(st, A, k)) < Cardinality(A)
    BY <1>1, Rank
  <2> QED BY <2>1, <1>4
<1>9. \A k \in O \ A : Cardinality(A) <= n(k)
  <2> TAKE k \in O \ A
  <2>1. IsFiniteSet(Before(st, O, k))
    BY <1>1, Rank
  <2> QED BY <2>1, <1>5, FS_Subset
<1>10. \A k, i \in O : k # i => n(k) # n(i)
  <2> TAKE k, i \in O
  <2>1. Distinct(st, O)
    BY DEF O
  <2> QED BY <2>1, <1>1, RanksDiffer
<1> HIDE DEF n
<1>11. \A k \in Jobs : f[k] \in 0 .. Cardinality(Jobs)
  BY <1>1, <1>2, <1>6, <1>7, Constants
<1>12. \A k, i \in O \cup {j} : k # i => f[k] # f[i]
  <2> SUFFICES ASSUME NEW k \in O \cup {j}, NEW i \in O \cup {j}, k # i PROVE f[k] # f[i]
    OBVIOUS
  <2> \A x \in O : x # j /\ x \in Jobs
    BY <1>1
  <2>1. CASE k = j
    BY <2>1, <1>1, <1>2, <1>6, <1>7, <1>8, <1>9
  <2>2. CASE i = j
    BY <2>2, <1>1, <1>2, <1>6, <1>7, <1>8, <1>9
  <2>3. CASE k # j /\ i # j
    <3>1. k \in O /\ i \in O /\ n(k) # n(i) /\ n(k) \in Nat /\ n(i) \in Nat
      BY <2>3, <1>10, <1>7
    <3>2. CASE k \in A <=> i \in A
      BY <3>1, <3>2, <1>2
    <3>3. CASE k \in A /\ i \notin A
      BY <3>1, <3>3, <1>2, <1>8, <1>9, <1>6
    <3>4. CASE k \notin A /\ i \in A
      BY <3>1, <3>4, <1>2, <1>8, <1>9, <1>6
    <3> QED BY <3>2, <3>3, <3>4
  <2> QED BY <2>1, <2>2, <2>3
<1>13. Reordered(st, Placed(st, j))
  BY <1>3, <1>11, Positions
<1>14. Queued(Placed(st, j)) \in SUBSET (O \cup {j})
  BY <1>13 DEF Queued, Reordered, O
<1>15. \A k \in Jobs : Placed(st, j)[k].position = f[k]
  BY <1>3 DEF Job
<1>16. Queued(Placed(st, j)) \in SUBSET Jobs
  BY DEF Queued
<1> QED BY <1>12, <1>13, <1>14, <1>15, <1>16 DEF Distinct

---------------------------------------------------------------------------
(* A store stays sound when one mission changes and the line is ordered.   *)

\* What validateMissionQueueStore asks of one mission.
JobValid(job) ==
  /\ job.status \in LockStatuses => job.pane # Unbound
  /\ job.ended = (IF job.status \in TerminalStatuses THEN job.status ELSE "no")
  /\ job.passed <=> job.status = "done"

\* Sound but for the order of the line.
WellFormed(st) ==
  /\ st \in [Jobs -> Job]
  /\ \A j \in Jobs : JobValid(st[j])
  /\ Exclusive(st)

LEMMA SoundParts ==
  ASSUME NEW st
  PROVE  Sound(st) <=> WellFormed(st) /\ Distinct(st, Queued(st))
BY DEF Sound, Valid, WellFormed, Distinct, JobValid

LEMMA ReorderedIsSound ==
  ASSUME NEW st, WellFormed(st), NEW new, Reordered(st, new), Distinct(new, Queued(new))
  PROVE  /\ Sound(new) /\ Active(new) = Active(st)
         /\ \A done \in SUBSET Jobs : Held(st, done) => Held(new, done)
<1>1. Active(new) = Active(st)
  BY DEF Active, Reordered
<1>2. Exclusive(new)
  <2>1. Active(st) \in SUBSET Jobs
    BY DEF Active
  <2> QED BY <1>1, <2>1 DEF WellFormed, Exclusive, Reordered
<1>3. WellFormed(new)
  BY <1>2 DEF WellFormed, Reordered, JobValid
<1>4. \A done \in SUBSET Jobs : Held(st, done) => Held(new, done)
  BY DEF Held, Reordered
<1> QED BY <1>1, <1>3, <1>4, SoundParts

\* The condition under which a mission may be made into job: it holds its locks
\* alone, and there is room for it if it had none.
MayLock(st, j, job) ==
  job.status \in LockStatuses =>
    /\ \A o \in Active(st) \ {j} :
         st[o].pane.worker # job.pane.worker /\ st[o].workspace # job.workspace
    /\ j \in Active(st) \/ Cardinality(Active(st) \ {j}) < MaxActive

LEMMA ActiveIsFinite ==
  ASSUME NEW st, NEW j
  PROVE  /\ IsFiniteSet(Active(st)) /\ Cardinality(Active(st)) \in Nat
         /\ IsFiniteSet(Active(st) \ {j}) /\ Cardinality(Active(st) \ {j}) \in Nat
         /\ Cardinality(Active(st) \ {j}) = IF j \in Active(st) THEN Cardinality(Active(st)) - 1
                                            ELSE Cardinality(Active(st))
<1>1. Active(st) \in SUBSET Jobs
  BY DEF Active
<1>2. IsFiniteSet(Active(st))
  BY <1>1, Constants, FS_Subset
<1>3. IsFiniteSet(Active(st) \ {j})
      /\ Cardinality(Active(st) \ {j}) = IF j \in Active(st) THEN Cardinality(Active(st)) - 1
                                         ELSE Cardinality(Active(st))
  BY <1>2, FS_RemoveElement
<1> QED BY <1>2, <1>3, FS_CardinalityType

LEMMA ChangedIsWellFormed ==
  ASSUME NEW st, WellFormed(st), NEW j \in Jobs, NEW job \in Job,
         JobValid(job), MayLock(st, j, job)
  PROVE  WellFormed([st EXCEPT ![j] = job])
<1> DEFINE new == [st EXCEPT ![j] = job]
<1>1. /\ new \in [Jobs -> Job] /\ new[j] = job
      /\ \A o \in Jobs : o # j => new[o] = st[o]
  BY DEF WellFormed
<1> HIDE DEF new
<1>2. Active(new) = (Active(st) \ {j}) \cup (IF job.status \in LockStatuses THEN {j} ELSE {})
  BY <1>1 DEF Active
<1>3. Cardinality(Active(new)) <= MaxActive
  <2>1. Cardinality(Active(st)) <= MaxActive
    BY DEF WellFormed, Exclusive
  <2>2. Cardinality((Active(st) \ {j}) \cup {j}) = Cardinality(Active(st) \ {j}) + 1
    BY ActiveIsFinite, FS_AddElement
  <2>3. /\ Cardinality(Active(st)) \in Nat /\ Cardinality(Active(st) \ {j}) \in Nat
        /\ j \in Active(st) => Cardinality(Active(st) \ {j}) = Cardinality(Active(st)) - 1
        /\ Cardinality(Active(st) \ {j}) <= Cardinality(Active(st))
    BY ActiveIsFinite
  <2>4. CASE job.status \in LockStatuses
    <3>1. Active(new) = (Active(st) \ {j}) \cup {j}
      BY <2>4, <1>2
    <3>2. j \in Active(st) \/ Cardinality(Active(st) \ {j}) < MaxActive
      BY <2>4 DEF MayLock
    <3> HIDE DEF new
    <3> QED BY <3>1, <3>2, <2>1, <2>2, <2>3, Constants
  <2>5. CASE job.status \notin LockStatuses
    <3>1. Active(new) = Active(st) \ {j}
      BY <2>5, <1>2
    <3> QED BY <3>1, <2>1, <2>3, Constants
  <2> QED BY <2>4, <2>5
<1>4. \A i, k \in Active(new) :
        i # k => new[i].pane.worker # new[k].pane.worker /\ new[i].workspace # new[k].workspace
  <2> SUFFICES ASSUME NEW i \in Active(new), NEW k \in Active(new), i # k
               PROVE  new[i].pane.worker # new[k].pane.worker /\ new[i].workspace # new[k].workspace
    OBVIOUS
  <2> \A o \in Active(st) : o \in Jobs
    BY DEF Active
  <2>1. CASE i = j
    BY <2>1, <1>1, <1>2 DEF MayLock
  <2>2. CASE k = j
    BY <2>2, <1>1, <1>2 DEF MayLock
  <2>3. CASE i # j /\ k # j
    BY <2>3, <1>1, <1>2 DEF WellFormed, Exclusive
  <2> QED BY <2>1, <2>2, <2>3
<1>5. \A o \in Jobs : JobValid(new[o])
  BY <1>1 DEF WellFormed
<1>6. WellFormed(new)
  BY <1>1, <1>3, <1>4, <1>5 DEF WellFormed, Exclusive
<1> QED BY <1>6 DEF new

\* One that holds its locks may be changed while it keeps its worker and workspace.
LEMMA KeepsLocks ==
  ASSUME NEW st, WellFormed(st), NEW j \in Active(st), NEW job,
         job.pane = st[j].pane, job.workspace = st[j].workspace
  PROVE  MayLock(st, j, job)
BY DEF WellFormed, Exclusive, MayLock

\* The line keeps its order unless the change brings a mission into it.
LEMMA ChangedIsOrdered ==
  ASSUME NEW st \in [Jobs -> Job], Distinct(st, Queued(st)), NEW j \in Jobs, NEW job \in Job,
         job.status \in QueueStatuses => j \in Queued(st) /\ job.position = st[j].position
  PROVE  Distinct([st EXCEPT ![j] = job], Queued([st EXCEPT ![j] = job]))
<1> DEFINE new == [st EXCEPT ![j] = job]
<1>1. new[j] = job /\ \A o \in Jobs : o # j => new[o] = st[o]
  OBVIOUS
<1> HIDE DEF new
<1>2. Queued(new) \in SUBSET Jobs
  BY DEF Queued
<1>3. Queued(new) \in SUBSET Queued(st)
  BY <1>1, <1>2 DEF Queued
<1>4. \A o \in Queued(new) : new[o].position = st[o].position
  BY <1>1, <1>2, <1>3 DEF Queued
<1>5. Distinct(new, Queued(new))
  BY <1>3, <1>4 DEF Distinct
<1> QED BY <1>5 DEF new

---------------------------------------------------------------------------
(* Writes.                                                                 *)

Counts(sp) == sp \in [crashes : 0 .. MaxCrashes, faults : 0 .. MaxFaults]

LEMMA WriteKeeps ==
  ASSUME MissionInv, NEW next, Sound(next), Write(next)
  PROVE  /\ Sound(mem') /\ Sound(disk') /\ Counts(spent') /\ spent'.faults >= spent.faults
         /\ mem' \in {mem, next} /\ disk' \in {disk, next}
<1> Sound(mem) /\ Sound(disk) /\ Counts(spent)
  BY DEF MissionInv, TypeOK, Counts
<1>1. CASE Saved(next)
  BY <1>1 DEF Saved, Counts
<1>2. CASE NotSaved(next)
  <2>1. Counts(spent') /\ spent'.faults >= spent.faults
    BY <1>2, Constants DEF NotSaved, Spend, Counts
  <2> QED BY <1>2, <2>1 DEF NotSaved
<1> QED BY <1>1, <1>2 DEF Write

\* While nothing is in progress the invariant is about the store alone.
LEMMA AtRest ==
  ASSUME op' = Idle, \A j \in Jobs : mem'[j].status = "dispatching" => spent'.faults >= 2
  PROVE  OpHasStore' /\ ClaimIsDurable' /\ DispatchIsAlone' /\ DispatchingIsHeld'
BY DEF Idle, OpHasStore, ClaimIsDurable, DispatchIsAlone, DispatchingIsHeld, BeforeWrite, Delivering

\* A request that writes a sound store.
LEMMA RequestKeeps ==
  ASSUME MissionInv, NEW next, Sound(next), Write(next), Held(mem', typed'), Held(disk', typed'),
         \A j \in Jobs : next[j].status = "dispatching" => mem[j].status = "dispatching",
         op.at \notin Delivering, op' = Idle, attempts' \in 0 .. MaxAttempts,
         UNCHANGED <<queue, term>>, typed' \in SUBSET typed
  PROVE  MissionInv'
<1>1. /\ Sound(mem') /\ Sound(disk') /\ Counts(spent') /\ spent'.faults >= spent.faults
      /\ mem' \in {mem, next}
  BY WriteKeeps
<1>2. \A j \in Jobs : mem'[j].status = "dispatching" => spent'.faults >= 2
  <2>1. \A j \in Jobs : mem[j].status = "dispatching" => spent.faults >= 2
    BY DEF MissionInv, DispatchingIsHeld
  <2>2. spent.faults \in Nat /\ spent'.faults \in Nat
    BY <1>1, Constants DEF MissionInv, TypeOK, Counts
  <2> QED BY <1>1, <2>1, <2>2
<1>3. Idle \in [at : Phases, job : Jobs \cup {NoOne}, pane : Panes, to : Statuses]
  BY Constants DEF Idle, Phases, Panes, Unbound, Statuses
<1>4. TypeOK'
  BY <1>1, <1>3 DEF MissionInv, TypeOK, Sound, Counts
<1> QED BY <1>1, <1>2, <1>4, AtRest DEF MissionInv

LEMMA HeldLess ==
  ASSUME NEW st, NEW done, Held(st, done), NEW less \in SUBSET done
  PROVE  Held(st, less)
BY DEF Held

LEMMA ChangedIsHeld ==
  ASSUME NEW st \in [Jobs -> Job], NEW done \in SUBSET Jobs, Held(st, done), NEW j \in Jobs, NEW job,
         j \in done => job.status \notin QueueStatuses \cup {"absent"}
  PROVE  Held([st EXCEPT ![j] = job], done)
BY DEF Held

\* Without the mission that changes the line is in order before it is placed.
LEMMA OthersAreOrdered ==
  ASSUME NEW st \in [Jobs -> Job], Distinct(st, Queued(st)), NEW j \in Jobs, NEW job
  PROVE  Distinct([st EXCEPT ![j] = job], Queued([st EXCEPT ![j] = job]) \ {j})
BY DEF Distinct, Queued

---------------------------------------------------------------------------
(* Requests.                                                               *)

LEMMA CreateKeeps ==
  ASSUME MissionInv, NEW j \in Jobs, NEW to \in QueueStatuses, Create(j, to)
  PROVE  MissionInv'
<1>1. PICK w \in Workspaces :
        Write(Placed([mem EXCEPT ![j].status = to, ![j].workspace = w], j))
  BY DEF Create
<1> DEFINE job  == [mem[j] EXCEPT !.status = to, !.workspace = w]
           base == [mem EXCEPT ![j] = job]
           next == Placed(base, j)
<1>2. op = Idle /\ mem[j].status = "absent" /\ UNCHANGED <<attempts, op, queue, term, typed>>
  BY DEF Create
<1>3. WellFormed(mem) /\ Distinct(mem, Queued(mem)) /\ mem \in [Jobs -> Job]
  BY SoundParts DEF MissionInv, Sound
<1>4. [mem EXCEPT ![j].status = to, ![j].workspace = w] = base
  BY <1>3
<1>5. job \in Job /\ job.status = to /\ job.pane = mem[j].pane /\ job.ended = mem[j].ended
      /\ job.passed = mem[j].passed
  BY <1>3 DEF Job, QueueStatuses, Statuses
<1> HIDE DEF job
<1>6. JobValid(job) /\ MayLock(mem, j, job)
  BY <1>2, <1>3, <1>5 DEF WellFormed, JobValid, MayLock, QueueStatuses, LockStatuses, TerminalStatuses
<1>7. WellFormed(base)
  BY <1>3, <1>5, <1>6, ChangedIsWellFormed
<1>8. base \in [Jobs -> Job] /\ Distinct(base, Queued(base) \ {j})
  BY <1>3, <1>5, OthersAreOrdered
<1>9. typed \in SUBSET Jobs /\ Held(mem, typed) /\ Held(disk, typed)
  BY DEF MissionInv, TypeOK
<1>10. Held(base, typed)
  BY <1>2, <1>3, <1>9, ChangedIsHeld DEF Held
<1>11. \A i \in Jobs : base[i].status = "dispatching" => mem[i].status = "dispatching"
  BY <1>3, <1>5 DEF QueueStatuses
<1> HIDE DEF base
<1>12. Reordered(base, next) /\ Distinct(next, Queued(next))
  BY <1>8, PlacedIsOrdered
<1>13. Sound(next) /\ Held(next, typed)
  BY <1>7, <1>9, <1>10, <1>12, ReorderedIsSound
<1>14. \A i \in Jobs : next[i].status = "dispatching" => mem[i].status = "dispatching"
  BY <1>11, <1>12 DEF Reordered
<1> HIDE DEF next
<1>15. Write(next)
  BY <1>1, <1>4 DEF next
<1>16. mem' \in {mem, next} /\ disk' \in {disk, next}
  BY <1>13, <1>15, WriteKeeps
<1>17. Held(mem', typed') /\ Held(disk', typed')
  BY <1>2, <1>9, <1>13, <1>16
<1>18. op.at \notin Delivering /\ op' = Idle /\ attempts' \in 0 .. MaxAttempts
  BY <1>2 DEF Idle, Delivering, MissionInv, TypeOK
<1> QED BY <1>2, <1>13, <1>14, <1>15, <1>17, <1>18, RequestKeeps

\* What the table of transitions allows.
LEMMA TransitionFacts ==
  ASSUME NEW from \in Statuses, NEW to \in Transitions[from]
  PROVE  /\ to \in Statuses \ {"absent", "dispatching"}
         /\ to \in LockStatuses => from \in LockStatuses
         /\ to = "backlog" => from = "ready"
         /\ from \in TerminalStatuses => to \in TerminalStatuses \cup {"ready"}
         /\ from # "absent"
<1> USE DEF Transitions, Statuses, LockStatuses, QueueStatuses, TerminalStatuses
<1>1. CASE from \in {"backlog", "ready", "dispatching", "running"}
  BY <1>1
<1>2. CASE from \in {"needs_you", "verifying", "reconcile_required"}
  BY <1>2
<1>3. CASE from \in {"done", "failed", "canceled", "absent"}
  BY <1>3
<1> QED BY <1>1, <1>2, <1>3

LEMMA MovedFacts ==
  ASSUME NEW old \in Job, NEW to \in Statuses
  PROVE  /\ Moved(old, to) \in Job /\ Moved(old, to).status = to
         /\ Moved(old, to).position = old.position /\ Moved(old, to).workspace = old.workspace
         /\ Moved(old, to).ended = IF to \in TerminalStatuses THEN to
                                   ELSE IF to = "ready" THEN "no" ELSE old.ended
         /\ Moved(old, to).passed = (to = "done")
         /\ to \notin {"ready"} \cup TerminalStatuses => Moved(old, to).pane = old.pane
<1>1. Unbound \in Panes /\ 0 \in 0 .. MaxAttempts
  BY Constants DEF Unbound, Panes
<1> QED BY <1>1 DEF Moved, Job

LEMMA TransitionKeeps ==
  ASSUME MissionInv, NEW j \in Jobs, NEW to \in Statuses, Transition(j, to)
  PROVE  MissionInv'
<1> DEFINE job  == Moved(mem[j], to)
           base == [mem EXCEPT ![j] = job]
           next == Normalized(IF to = "ready" THEN Placed(base, j) ELSE base)
<1>1. /\ op = Idle /\ to \in Transitions[mem[j].status] /\ Write(next)
      /\ typed' = IF to = "ready" /\ disk'[j].status = "ready" THEN typed \ {j} ELSE typed
      /\ UNCHANGED <<attempts, op, queue, term>>
  BY DEF Transition
<1>2. WellFormed(mem) /\ Distinct(mem, Queued(mem)) /\ mem \in [Jobs -> Job] /\ mem[j] \in Job
  BY SoundParts DEF MissionInv, Sound
<1>3. mem[j].status \in Statuses
  BY <1>2 DEF Job
<1>4. /\ to \in Statuses \ {"absent", "dispatching"}
      /\ to \in LockStatuses => mem[j].status \in LockStatuses
      /\ to = "backlog" => mem[j].status = "ready"
      /\ mem[j].status \in TerminalStatuses => to \in TerminalStatuses \cup {"ready"}
  BY <1>1, <1>3, TransitionFacts
<1>5. /\ job \in Job /\ job.status = to
      /\ job.position = mem[j].position /\ job.workspace = mem[j].workspace
      /\ job.ended = IF to \in TerminalStatuses THEN to ELSE IF to = "ready" THEN "no" ELSE mem[j].ended
      /\ job.passed = (to = "done")
      /\ to \notin {"ready"} \cup TerminalStatuses => job.pane = mem[j].pane
  BY <1>2, MovedFacts
<1> HIDE DEF job
<1>6. JobValid(job)
  <2>1. JobValid(mem[j])
    BY <1>2 DEF WellFormed
  <2> QED BY <2>1, <1>4, <1>5 DEF JobValid, LockStatuses, TerminalStatuses
<1>7. MayLock(mem, j, job)
  <2>1. CASE to \in LockStatuses
    <3>1. j \in Active(mem) /\ job.pane = mem[j].pane
      BY <2>1, <1>4, <1>5 DEF Active, LockStatuses, TerminalStatuses
    <3> QED BY <3>1, <1>2, <1>5, KeepsLocks
  <2>2. CASE to \notin LockStatuses
    BY <2>2, <1>5 DEF MayLock
  <2> QED BY <2>1, <2>2
<1>8. WellFormed(base) /\ base \in [Jobs -> Job]
  BY <1>2, <1>5, <1>6, <1>7, ChangedIsWellFormed
<1>9. typed \in SUBSET Jobs /\ Held(mem, typed) /\ Held(disk, typed)
  BY DEF MissionInv, TypeOK
<1> DEFINE kept == IF to = "ready" THEN typed \ {j} ELSE typed
<1>10. kept \in SUBSET typed /\ kept \in SUBSET Jobs /\ Held(base, kept)
  <2>1. kept \in SUBSET typed /\ kept \in SUBSET Jobs
    BY <1>9
  <2>2. j \in kept => job.status \notin QueueStatuses \cup {"absent"}
    BY <1>4, <1>5, <1>9 DEF Held, QueueStatuses
  <2>3. Held(mem, kept)
    BY <1>9, <2>1, HeldLess
  <2> HIDE DEF kept
  <2> QED BY <2>1, <2>2, <2>3, <1>2, ChangedIsHeld
<1>11. \A i \in Jobs : base[i].status = "dispatching" => mem[i].status = "dispatching"
  BY <1>2, <1>4, <1>5
<1>12. /\ Sound(next) /\ Held(next, kept)
       /\ \A i \in Jobs : next[i].status = base[i].status
  <2> DEFINE line == IF to = "ready" THEN Placed(base, j) ELSE base
  <2>1. Reordered(base, line) /\ Distinct(line, Queued(line))
    <3>1. CASE to = "ready"
      <4>1. Distinct(base, Queued(base) \ {j})
        BY <1>2, <1>5, OthersAreOrdered
      <4> HIDE DEF base
      <4> QED BY <3>1, <4>1, <1>8, PlacedIsOrdered
    <3>2. CASE to # "ready"
      <4>1. job.status \in QueueStatuses => j \in Queued(mem) /\ job.position = mem[j].position
        BY <3>2, <1>4, <1>5 DEF QueueStatuses, Queued
      <4>2. Distinct(base, Queued(base))
        BY <4>1, <1>2, <1>5, ChangedIsOrdered
      <4> HIDE DEF base
      <4> QED BY <3>2, <4>2, <1>8 DEF Reordered
    <3> QED BY <3>1, <3>2
  <2> HIDE DEF base, line
  <2>2. WellFormed(line) /\ line \in [Jobs -> Job] /\ Held(line, kept)
    BY <2>1, <1>8, <1>10, ReorderedIsSound, SoundParts DEF Reordered
  <2>3. Reordered(line, Normalized(line)) /\ Distinct(Normalized(line), Queued(Normalized(line)))
    BY <2>1, <2>2, NormalizedIsOrdered
  <2>4. Sound(Normalized(line)) /\ Held(Normalized(line), kept)
    BY <2>2, <2>3, <1>10, ReorderedIsSound
  <2>5. \A i \in Jobs : Normalized(line)[i].status = base[i].status
    BY <2>1, <2>3 DEF Reordered
  <2> QED BY <2>4, <2>5 DEF line
<1>13. \A i \in Jobs : next[i].status = "dispatching" => mem[i].status = "dispatching"
  BY <1>11, <1>12
<1>14. next[j].status = to
  BY <1>12, <1>5, <1>2
<1> HIDE DEF next, base
<1>15. disk' \in {disk, next} /\ (mem' = mem \/ (mem' = next /\ disk' = next))
  <2>1. Saved(next) \/ NotSaved(next)
    BY <1>1 DEF Write
  <2> QED BY <2>1 DEF Saved, NotSaved
<1>16. typed' \in SUBSET typed /\ Held(disk', typed')
  <2>1. typed' \in SUBSET typed
    BY <1>1
  <2>2. CASE disk' = disk
    BY <2>1, <2>2, <1>9, HeldLess
  <2>3. CASE disk' = next
    BY <2>3, <1>1, <1>12, <1>14
  <2> QED BY <2>1, <2>2, <2>3, <1>15
<1>17. Held(mem', typed')
  <2>1. CASE mem' = mem
    BY <2>1, <1>9, <1>16, HeldLess
  <2>2. CASE mem' = next /\ disk' = next
    BY <2>2, <1>16
  <2> QED BY <2>1, <2>2, <1>15
<1>18. op.at \notin Delivering /\ op' = Idle /\ attempts' \in 0 .. MaxAttempts
  BY <1>1 DEF Idle, Delivering, MissionInv, TypeOK
<1> QED BY <1>1, <1>12, <1>13, <1>16, <1>17, <1>18, RequestKeeps

LEMMA MoveKeeps ==
  ASSUME MissionInv, NEW j \in Jobs, NEW k \in Jobs \ {j}, Move(j, k)
  PROVE  MissionInv'
<1> DEFINE p    == [i \in Jobs |-> IF i = j THEN mem[k].position
                                   ELSE IF i = k THEN mem[j].position ELSE mem[i].position]
           next == [i \in Jobs |-> [mem[i] EXCEPT !.position = p[i]]]
<1>1. WellFormed(mem) /\ Distinct(mem, Queued(mem)) /\ mem \in [Jobs -> Job]
  BY SoundParts DEF MissionInv, Sound
<1>2. [mem EXCEPT ![j].position = mem[k].position, ![k].position = mem[j].position] = next
  BY <1>1 DEF Job
<1>3. op = Idle /\ {j, k} \subseteq Queued(mem) /\ Write(next)
      /\ UNCHANGED <<attempts, op, queue, term, typed>>
  BY <1>2 DEF Move
<1>4. \A i \in Jobs : p[i] \in 0 .. Cardinality(Jobs)
  BY <1>1 DEF Job
<1>5. \A a, b \in Queued(mem) : a # b => p[a] # p[b]
  BY <1>1, <1>3 DEF Distinct, Queued
<1>6. \A i \in Jobs : next[i].position = p[i]
  BY <1>1 DEF Job
<1> HIDE DEF p
<1>7. Reordered(mem, next)
  BY <1>1, <1>4, Positions
<1> HIDE DEF next
<1>8. Queued(next) = Queued(mem) /\ Queued(mem) \in SUBSET Jobs
  BY <1>7 DEF Queued, Reordered
<1>9. Distinct(next, Queued(next))
  BY <1>5, <1>6, <1>8 DEF Distinct
<1>10. typed \in SUBSET Jobs /\ Held(mem, typed) /\ Held(disk, typed)
  BY DEF MissionInv, TypeOK
<1>11. Sound(next) /\ Held(next, typed)
  BY <1>1, <1>7, <1>9, <1>10, ReorderedIsSound
<1>12. \A i \in Jobs : next[i].status = "dispatching" => mem[i].status = "dispatching"
  BY <1>7 DEF Reordered
<1>13. mem' \in {mem, next} /\ disk' \in {disk, next}
  BY <1>3, <1>11, WriteKeeps
<1>14. Held(mem', typed') /\ Held(disk', typed')
  BY <1>3, <1>10, <1>11, <1>13
<1>15. op.at \notin Delivering /\ op' = Idle /\ attempts' \in 0 .. MaxAttempts
  BY <1>3 DEF Idle, Delivering, MissionInv, TypeOK
<1> QED BY <1>3, <1>11, <1>12, <1>14, <1>15, RequestKeeps

---------------------------------------------------------------------------
(* Dispatch.                                                               *)

OpType == op \in [at : Phases, job : Jobs \cup {NoOne}, pane : Panes, to : Statuses]

LEMMA DispatchBeginsKeeps ==
  ASSUME MissionInv, NEW j \in Jobs, NEW s \in Sessions, DispatchBegins(j, s)
  PROVE  MissionInv'
<1>1. /\ op = Idle /\ mem[j].status = "ready" /\ attempts < MaxAttempts
      /\ Room(j) /\ Unlocked(j, s)
      /\ op' = [Idle EXCEPT !.at = "chosen", !.job = j, !.pane = PaneOf(s)]
      /\ UNCHANGED <<mem, disk, spent, attempts, queue, term, typed>>
  BY DEF DispatchBegins, storeVars
<1>2. PaneOf(s) \in Panes /\ PaneOf(s).worker = s
  BY Constants DEF MissionInv, TypeOK, PaneOf, Panes, Terminals
<1>3. op' = [at |-> "chosen", job |-> j, pane |-> PaneOf(s), to |-> "absent"]
  BY <1>1 DEF Idle
<1>4. TypeOK'
  BY <1>1, <1>2, <1>3 DEF MissionInv, TypeOK, Phases, Statuses
<1>5. Free(mem, j, s)
  BY <1>1 DEF Free, Room, Unlocked
<1>6. OpHasStore'
  BY <1>1, <1>2, <1>3, <1>5 DEF OpHasStore, BeforeWrite, Delivering, Free, Active
<1>7. ClaimIsDurable' /\ DispatchIsAlone' /\ DispatchingIsHeld'
  BY <1>1, <1>3 DEF MissionInv, ClaimIsDurable, DispatchIsAlone, DispatchingIsHeld, Delivering, Idle
<1> QED BY <1>1, <1>4, <1>6, <1>7 DEF MissionInv

LEMMA DispatchClaimsKeeps ==
  ASSUME MissionInv, DispatchClaims
  PROVE  MissionInv'
<1> DEFINE j    == op.job
           job  == [mem[j] EXCEPT !.status = "dispatching", !.pane = op.pane, !.attempt = attempts']
           next == [mem EXCEPT ![j] = job]
<1>1. /\ op.at = "chosen" /\ queue = QueueIdle /\ attempts' = attempts + 1
      /\ UNCHANGED <<queue, term, typed>>
  BY DEF DispatchClaims, QueueAwaited
<1>2. /\ j \in Jobs /\ op.pane.worker \in Sessions /\ op.pane \in Panes /\ OpType
      /\ attempts < MaxAttempts /\ mem[j].status = "ready" /\ Free(mem, j, op.pane.worker)
  BY <1>1 DEF MissionInv, TypeOK, OpHasStore, BeforeWrite, OpType
<1>3. WellFormed(mem) /\ Distinct(mem, Queued(mem)) /\ mem \in [Jobs -> Job] /\ mem[j] \in Job
  BY <1>2, SoundParts DEF MissionInv, Sound
<1>4. [mem EXCEPT ![op.job].status = "dispatching", ![op.job].pane = op.pane,
                  ![op.job].attempt = attempts'] = next
  BY <1>2, <1>3
<1>5. \/ Saved(next) /\ op' = [op EXCEPT !.at = "claimed"]
      \/ NotSaved(next) /\ op' = Idle
  BY <1>4 DEF DispatchClaims, ClaimWrite
<1>6. attempts' \in 0 .. MaxAttempts
  BY <1>1, <1>2, Constants DEF MissionInv, TypeOK
<1>7. /\ job \in Job /\ job.status = "dispatching" /\ job.pane = op.pane /\ job.attempt = attempts'
      /\ job.workspace = mem[j].workspace /\ job.position = mem[j].position
      /\ job.ended = mem[j].ended /\ job.passed = mem[j].passed
  BY <1>2, <1>3, <1>6 DEF Job, Statuses, LockStatuses
<1> HIDE DEF job
<1>8. op.pane # Unbound
  BY <1>2, Constants DEF Unbound
<1>9. JobValid(job)
  <2>1. JobValid(mem[j])
    BY <1>2, <1>3 DEF WellFormed
  <2> QED BY <2>1, <1>2, <1>7, <1>8 DEF JobValid, LockStatuses, TerminalStatuses
<1>10. MayLock(mem, j, job)
  BY <1>2, <1>7 DEF MayLock, Free
<1>11. WellFormed(next)
  BY <1>2, <1>3, <1>7, <1>9, <1>10, ChangedIsWellFormed
<1>12. Distinct(next, Queued(next))
  BY <1>2, <1>3, <1>7, ChangedIsOrdered DEF QueueStatuses
<1>13. typed \in SUBSET Jobs /\ Held(mem, typed) /\ Held(disk, typed)
  BY DEF MissionInv, TypeOK
<1>14. Sound(next) /\ Held(next, typed)
  BY <1>2, <1>3, <1>7, <1>11, <1>12, <1>13, SoundParts, ChangedIsHeld DEF QueueStatuses
<1>15. next[j] = job /\ \A i \in Jobs : i # j => next[i] = mem[i]
  BY <1>3, <1>2
<1>16. \A i \in Queued(next) : i \in Queued(mem) /\ i # j /\ i \in Jobs
  BY <1>7, <1>15 DEF Queued, QueueStatuses
<1> HIDE DEF next
<1>17. Write(next)
  BY <1>5 DEF Write
<1>18. /\ Sound(mem') /\ Sound(disk') /\ Counts(spent') /\ spent'.faults >= spent.faults
       /\ mem' \in {mem, next} /\ disk' \in {disk, next}
  BY <1>14, <1>17, WriteKeeps
<1>19. Held(mem', typed') /\ Held(disk', typed')
  BY <1>1, <1>13, <1>14, <1>18
<1>20. spent.faults \in Nat /\ spent'.faults \in Nat
  BY <1>18, Constants DEF Counts, MissionInv, TypeOK
<1>21. \A i \in Jobs : mem[i].status = "dispatching" => spent.faults >= 2
  BY <1>1 DEF MissionInv, DispatchingIsHeld, Delivering
<1>22. CASE Saved(next) /\ op' = [op EXCEPT !.at = "claimed"]
  <2>1. /\ op'.at = "claimed" /\ op'.job = j /\ op'.pane = op.pane /\ OpType'
        /\ mem' = next /\ disk' = next /\ spent' = spent
    BY <1>2, <1>22 DEF OpType, Phases, Delivering, Saved
  <2>2. TypeOK'
    BY <2>1, <1>1, <1>6, <1>18 DEF MissionInv, TypeOK, OpType, Sound, Counts
  <2>3. j \notin typed
    BY <1>2, <1>13 DEF Held, QueueStatuses
  <2>4. \A i \in Queued(next) : next[i].position # next[j].position
    <3> TAKE i \in Queued(next)
    <3>1. j \in Queued(mem)
      BY <1>2 DEF Queued, QueueStatuses
    <3> QED BY <3>1, <1>3, <1>7, <1>15, <1>16 DEF Distinct
  <2>5. OpHasStore'
    BY <2>1, <2>3, <2>4, <1>1, <1>2, <1>7, <1>15 DEF OpHasStore, BeforeWrite, Delivering, Queued
  <2>6. ClaimIsDurable'
    BY <2>1, <1>7, <1>15 DEF ClaimIsDurable
  <2>7. DispatchIsAlone'
    BY <2>1, <1>1, <1>2, Constants DEF DispatchIsAlone, QueueIdle
  <2>8. DispatchingIsHeld'
    BY <2>1, <1>15, <1>21 DEF DispatchingIsHeld, Delivering
  <2> QED BY <2>2, <2>5, <2>6, <2>7, <2>8, <1>18, <1>19 DEF MissionInv
<1>23. CASE NotSaved(next) /\ op' = Idle
  <2>1. mem' = mem
    BY <1>23 DEF NotSaved
  <2>2. \A i \in Jobs : mem'[i].status = "dispatching" => spent'.faults >= 2
    BY <2>1, <1>18, <1>20, <1>21
  <2>3. OpType'
    BY <1>23, Constants DEF OpType, Idle, Phases, Panes, Unbound, Statuses
  <2>4. TypeOK'
    BY <2>3, <1>1, <1>6, <1>18 DEF MissionInv, TypeOK, OpType, Sound, Counts
  <2> QED BY <2>2, <2>4, <1>18, <1>19, <1>23, AtRest DEF MissionInv
<1> QED BY <1>5, <1>22, <1>23

\* A step of a delivery writes nothing; only the first may type.
LEMMA DeliveryKeeps ==
  ASSUME MissionInv, op.at \in {"claimed", "typed"}, op'.at \in {"typed", "record"},
         op' \in [at : Phases, job : Jobs \cup {NoOne}, pane : Panes, to : Statuses],
         op'.job = op.job, op'.pane = op.pane,
         typed' = typed \/ (op.at = "claimed" /\ typed' = typed \cup {op.job}),
         op'.at = "record" =>
           /\ op'.to \in {"ready", "running", "reconcile_required"}
           /\ op'.to = "ready" => op.at = "claimed" /\ typed' = typed,
         term' \in [Sessions -> Terminals],
         UNCHANGED <<mem, disk, spent, attempts, queue>>
  PROVE  MissionInv'
<1>1. /\ op.at \in Delivering /\ op.at # "idle" /\ op'.at \in Delivering
      /\ op'.at # "idle" /\ op'.at \notin BeforeWrite /\ op'.at # "claimed" /\ op'.at # "retry"
  BY DEF Delivering, BeforeWrite
<1>2. /\ op.job \in Jobs /\ op.pane.worker \in Sessions
      /\ mem[op.job].status = "dispatching" /\ mem[op.job].pane = op.pane
      /\ \A j \in Queued(mem) : mem[j].position # mem[op.job].position
      /\ op.at = "claimed" => op.job \notin typed
  BY <1>1 DEF MissionInv, OpHasStore
<1>3. disk[op.job].status = "dispatching" /\ disk[op.job].attempt = attempts
  BY DEF MissionInv, ClaimIsDurable
<1>4. TypeOK'
  BY <1>2 DEF MissionInv, TypeOK
<1>5. Held(mem', typed') /\ Held(disk', typed')
  BY <1>2, <1>3 DEF MissionInv, Held, QueueStatuses
<1>6. OpHasStore'
  BY <1>1, <1>2 DEF OpHasStore, Queued
<1>7. ClaimIsDurable' /\ DispatchIsAlone' /\ DispatchingIsHeld'
  BY <1>1, <1>3 DEF MissionInv, ClaimIsDurable, DispatchIsAlone, DispatchingIsHeld
<1> QED BY <1>4, <1>5, <1>6, <1>7 DEF MissionInv

LEMMA TypingKeeps ==
  ASSUME MissionInv, DeliveryRefused \/ TypeText \/ EnterWithheld \/ PressEnter
  PROVE  MissionInv'
<1>1. OpType /\ term \in [Sessions -> Terminals]
  BY DEF OpType, MissionInv, TypeOK
<1>2. ASSUME NEW to \in {"ready", "running", "reconcile_required"}, Result(to)
      PROVE  /\ op' \in [at : Phases, job : Jobs \cup {NoOne}, pane : Panes, to : Statuses]
             /\ op'.at = "record" /\ op'.job = op.job /\ op'.pane = op.pane /\ op'.to = to
  BY <1>1, <1>2 DEF Result, OpType, Phases, Delivering, Statuses, LockStatuses, QueueStatuses
<1>3. CASE DeliveryRefused
  BY <1>1, <1>2, <1>3, DeliveryKeeps DEF DeliveryRefused, storeVars
<1>4. CASE TypeText
  <2>1. /\ op.at = "claimed" /\ typed' = typed \cup {op.job}
        /\ UNCHANGED <<mem, disk, spent, attempts, queue, term>>
    BY <1>4 DEF TypeText, storeVars
  <2>2. CASE op' = [op EXCEPT !.at = "typed"]
    <3>1. /\ op' \in [at : Phases, job : Jobs \cup {NoOne}, pane : Panes, to : Statuses]
          /\ op'.at = "typed" /\ op'.job = op.job /\ op'.pane = op.pane
      BY <2>2, <1>1 DEF OpType, Phases, Delivering
    <3> QED BY <3>1, <2>1, <1>1, DeliveryKeeps
  <2>3. CASE Result("reconcile_required")
    <3>1. /\ op' \in [at : Phases, job : Jobs \cup {NoOne}, pane : Panes, to : Statuses]
          /\ op'.at = "record" /\ op'.job = op.job /\ op'.pane = op.pane
          /\ op'.to = "reconcile_required"
      BY <2>3, <1>2
    <3> QED BY <3>1, <2>1, <1>1, DeliveryKeeps
  <2> QED BY <1>4, <2>2, <2>3 DEF TypeText
<1>5. CASE EnterWithheld
  BY <1>1, <1>2, <1>5, DeliveryKeeps DEF EnterWithheld, storeVars
<1>6. CASE PressEnter
  <2>1. term' \in [Sessions -> Terminals]
    BY <1>1, <1>6 DEF PressEnter, Terminals
  <2> QED BY <1>1, <1>2, <1>6, <2>1, DeliveryKeeps DEF PressEnter, storeVars
<1> QED BY <1>3, <1>4, <1>5, <1>6

LEMMA RecordKeeps ==
  ASSUME MissionInv, Record
  PROVE  MissionInv'
<1> DEFINE j    == op.job
           job  == [mem[j] EXCEPT !.status = op.to]
           base == [mem EXCEPT ![op.job].status = op.to]
           next == IF op.to = "ready" THEN base ELSE Normalized(base)
<1>1. /\ op.at \in {"record", "retry"} /\ UNCHANGED <<attempts, queue, term, typed>>
      /\ op.at \in Delivering /\ op.at # "idle"
  BY DEF Record, Delivering
<1>2. /\ j \in Jobs /\ op.pane.worker \in Sessions /\ OpType
      /\ mem[j].status = "dispatching" /\ mem[j].pane = op.pane
      /\ \A i \in Queued(mem) : mem[i].position # mem[j].position
      /\ op.to \in {"ready", "running", "reconcile_required"}
      /\ op.to = "ready" => j \notin typed
  BY <1>1 DEF MissionInv, TypeOK, OpHasStore, OpType
<1>3. WellFormed(mem) /\ Distinct(mem, Queued(mem)) /\ mem \in [Jobs -> Job] /\ mem[j] \in Job
  BY <1>2, SoundParts DEF MissionInv, Sound
<1>4. base = [mem EXCEPT ![j] = job]
  BY <1>2, <1>3
<1>5. \/ Saved(next) /\ op' = Idle
      \/ NotSaved(next) /\ op' = RetryOrGiveUp
  BY DEF Record
<1>6. /\ job \in Job /\ job.status = op.to /\ job.pane = mem[j].pane
      /\ job.workspace = mem[j].workspace /\ job.position = mem[j].position
      /\ job.ended = mem[j].ended /\ job.passed = mem[j].passed
  BY <1>2, <1>3 DEF Job, Statuses, LockStatuses, QueueStatuses
<1> HIDE DEF job
<1>7. JobValid(job)
  <2>1. JobValid(mem[j])
    BY <1>2, <1>3 DEF WellFormed
  <2> QED BY <2>1, <1>2, <1>6 DEF JobValid, LockStatuses, TerminalStatuses
<1>8. MayLock(mem, j, job)
  <2>1. j \in Active(mem)
    BY <1>2 DEF Active, LockStatuses
  <2> QED BY <2>1, <1>3, <1>6, KeepsLocks
<1>9. WellFormed(base) /\ base \in [Jobs -> Job]
  BY <1>2, <1>3, <1>4, <1>6, <1>7, <1>8, ChangedIsWellFormed DEF WellFormed
<1>10. typed \in SUBSET Jobs /\ Held(mem, typed) /\ Held(disk, typed)
  BY DEF MissionInv, TypeOK
<1>11. Held(base, typed)
  BY <1>2, <1>3, <1>4, <1>6, <1>10, ChangedIsHeld DEF QueueStatuses
<1>12. base[j] = job /\ \A i \in Jobs : i # j => base[i] = mem[i]
  BY <1>2, <1>3, <1>4
<1> HIDE DEF base
<1>13. Distinct(base, Queued(base))
  <2>1. \A i \in Queued(base) : i \in Jobs /\ (i # j => i \in Queued(mem) /\ base[i] = mem[i])
    BY <1>12 DEF Queued
  <2> QED BY <2>1, <1>2, <1>3, <1>6, <1>12 DEF Distinct
<1>14. Sound(base) /\ Reordered(base, Normalized(base))
       /\ Distinct(Normalized(base), Queued(Normalized(base)))
  BY <1>9, <1>13, SoundParts, NormalizedIsOrdered
<1>15. Sound(next) /\ Held(next, typed) /\ \A i \in Jobs : next[i].status = base[i].status
  BY <1>9, <1>10, <1>11, <1>14, ReorderedIsSound DEF Reordered
<1> HIDE DEF next
<1>16. Write(next)
  BY <1>5 DEF Write
<1>17. /\ Sound(mem') /\ Sound(disk') /\ Counts(spent') /\ spent'.faults >= spent.faults
       /\ mem' \in {mem, next} /\ disk' \in {disk, next}
  BY <1>15, <1>16, WriteKeeps
<1>18. Held(mem', typed') /\ Held(disk', typed')
  BY <1>1, <1>10, <1>15, <1>17
<1>19. spent.faults \in Nat /\ spent'.faults \in Nat
  BY <1>17, Constants DEF Counts, MissionInv, TypeOK
<1>20. \A i \in Jobs : mem[i].status = "dispatching" /\ i # j => spent.faults >= 2
  BY DEF MissionInv, DispatchingIsHeld
<1>21. OpType' => TypeOK'
  BY <1>1, <1>17 DEF MissionInv, TypeOK, OpType, Sound, Counts
<1>22. Idle \in [at : Phases, job : Jobs \cup {NoOne}, pane : Panes, to : Statuses]
  BY Constants DEF Idle, Phases, Panes, Unbound, Statuses
<1>23. CASE Saved(next) /\ op' = Idle
  <2>1. \A i \in Jobs : mem'[i].status = "dispatching" => spent'.faults >= 2
    BY <1>2, <1>6, <1>12, <1>15, <1>17, <1>19, <1>20, <1>23 DEF Saved
  <2> QED BY <2>1, <1>17, <1>18, <1>21, <1>22, <1>23, AtRest DEF MissionInv, OpType
<1>24. CASE NotSaved(next) /\ op' = RetryOrGiveUp
  <2>1. mem' = mem /\ spent'.faults = spent.faults + 1
    BY <1>24 DEF NotSaved, Spend, MissionInv, TypeOK
  <2>2. CASE op.at = "record"
    <3>1. op' = [op EXCEPT !.at = "retry"]
      BY <2>2, <1>24 DEF RetryOrGiveUp
    <3>2. op'.at = "retry" /\ op'.job = j /\ op'.pane = op.pane /\ op'.to = op.to /\ OpType'
      BY <3>1, <1>2 DEF OpType, Phases, Delivering
    <3>3. OpHasStore'
      BY <3>2, <2>1, <1>1, <1>2 DEF OpHasStore, BeforeWrite, Delivering, Queued
    <3>4. ClaimIsDurable' /\ DispatchIsAlone'
      BY <3>2, <1>1 DEF MissionInv, ClaimIsDurable, DispatchIsAlone
    <3>5. DispatchingIsHeld'
      BY <3>2, <2>1, <1>19, <1>20 DEF DispatchingIsHeld, Delivering
    <3> QED BY <3>2, <3>3, <3>4, <3>5, <1>17, <1>18, <1>21 DEF MissionInv
  <2>3. CASE op.at = "retry"
    <3>1. op' = Idle
      BY <2>3, <1>24 DEF RetryOrGiveUp
    <3>2. spent.faults >= 1
      BY <2>3 DEF MissionInv, DispatchingIsHeld
    <3>3. \A i \in Jobs : mem'[i].status = "dispatching" => spent'.faults >= 2
      BY <3>2, <2>1, <1>19
    <3> QED BY <3>1, <3>3, <1>17, <1>18, <1>21, <1>22, AtRest DEF MissionInv, OpType
  <2> QED BY <1>1, <2>2, <2>3
<1> QED BY <1>5, <1>23, <1>24

---------------------------------------------------------------------------
(* Adoption.                                                               *)

LEMMA AdoptBeginsKeeps ==
  ASSUME MissionInv, NEW j \in Jobs, NEW s \in Sessions, AdoptBegins(j, s)
  PROVE  MissionInv'
<1>1. /\ op = Idle /\ mem[j].status \in {"ready", "needs_you"} /\ attempts < MaxAttempts
      /\ mem[j].status = "ready" => Room(j)
      /\ Unlocked(j, s)
      /\ op' = [Idle EXCEPT !.at = "adopting", !.job = j, !.pane = PaneOf(s)]
      /\ UNCHANGED <<mem, disk, spent, attempts, queue, term, typed>>
  BY DEF AdoptBegins, storeVars
<1>2. PaneOf(s) \in Panes /\ PaneOf(s).worker = s
  BY Constants DEF MissionInv, TypeOK, PaneOf, Panes, Terminals
<1>3. op' = [at |-> "adopting", job |-> j, pane |-> PaneOf(s), to |-> "absent"]
  BY <1>1 DEF Idle
<1>4. TypeOK'
  BY <1>1, <1>2, <1>3 DEF MissionInv, TypeOK, Phases, Statuses
<1>5. Free(mem, j, s)
  BY <1>1 DEF Free, Room, Unlocked
<1>6. OpHasStore'
  BY <1>1, <1>2, <1>3, <1>5 DEF OpHasStore, BeforeWrite, Delivering, Free, Active
<1>7. ClaimIsDurable' /\ DispatchIsAlone' /\ DispatchingIsHeld'
  BY <1>1, <1>3 DEF MissionInv, ClaimIsDurable, DispatchIsAlone, DispatchingIsHeld, Delivering, Idle
<1> QED BY <1>1, <1>4, <1>6, <1>7 DEF MissionInv

LEMMA AdoptConfirmsKeeps ==
  ASSUME MissionInv, AdoptConfirms
  PROVE  MissionInv'
<1>1. /\ op.at = "adopting" /\ UNCHANGED <<mem, disk, spent, attempts, queue, term, typed>>
      /\ op' = IF OnPane(op.pane) THEN [op EXCEPT !.at = "writing"] ELSE Idle
  BY DEF AdoptConfirms, storeVars
<1>2. OpType /\ \A i \in Jobs : mem[i].status = "dispatching" => spent.faults >= 2
  BY <1>1 DEF OpType, MissionInv, TypeOK, DispatchingIsHeld, Delivering
<1>3. CASE op' = [op EXCEPT !.at = "writing"]
  <2>1. op'.at = "writing" /\ op'.job = op.job /\ op'.pane = op.pane /\ OpType'
    BY <1>2, <1>3 DEF OpType, Phases
  <2>2. TypeOK'
    BY <2>1, <1>1 DEF MissionInv, TypeOK, OpType
  <2>3. OpHasStore'
    BY <2>1, <1>1 DEF MissionInv, OpHasStore, BeforeWrite, Delivering, Free, Active
  <2>4. ClaimIsDurable' /\ DispatchIsAlone' /\ DispatchingIsHeld'
    BY <2>1, <1>1, <1>2 DEF ClaimIsDurable, DispatchIsAlone, DispatchingIsHeld, Delivering
  <2> QED BY <2>2, <2>3, <2>4, <1>1 DEF MissionInv
<1>4. CASE op' = Idle
  <2>1. Idle \in [at : Phases, job : Jobs \cup {NoOne}, pane : Panes, to : Statuses]
    BY Constants DEF Idle, Phases, Panes, Unbound, Statuses
  <2>2. TypeOK'
    BY <2>1, <1>1, <1>4 DEF MissionInv, TypeOK
  <2> QED BY <2>2, <1>1, <1>2, <1>4, AtRest DEF MissionInv
<1> QED BY <1>1, <1>3, <1>4

LEMMA AdoptWritesKeeps ==
  ASSUME MissionInv, AdoptWrites
  PROVE  MissionInv'
<1> DEFINE j    == op.job
           job  == [mem[j] EXCEPT !.status = "running", !.pane = op.pane, !.attempt = attempts']
           base == [mem EXCEPT ![op.job].status = "running", ![op.job].pane = op.pane,
                               ![op.job].attempt = attempts']
           next == Normalized(base)
<1>1. /\ op.at = "writing" /\ attempts' = attempts + 1 /\ op' = Idle /\ Write(next)
      /\ UNCHANGED <<queue, term, typed>> /\ op.at \notin Delivering
  BY DEF AdoptWrites, Delivering
<1>2. /\ j \in Jobs /\ op.pane.worker \in Sessions /\ op.pane \in Panes
      /\ attempts < MaxAttempts /\ mem[j].status \in {"ready", "needs_you"}
      /\ Free(mem, j, op.pane.worker)
  BY <1>1 DEF MissionInv, TypeOK, OpHasStore, BeforeWrite
<1>3. WellFormed(mem) /\ Distinct(mem, Queued(mem)) /\ mem \in [Jobs -> Job] /\ mem[j] \in Job
  BY <1>2, SoundParts DEF MissionInv, Sound
<1>4. base = [mem EXCEPT ![j] = job]
  BY <1>2, <1>3
<1>5. attempts' \in 0 .. MaxAttempts
  BY <1>1, <1>2, Constants DEF MissionInv, TypeOK
<1>6. /\ job \in Job /\ job.status = "running" /\ job.pane = op.pane
      /\ job.workspace = mem[j].workspace /\ job.position = mem[j].position
      /\ job.ended = mem[j].ended /\ job.passed = mem[j].passed
  BY <1>2, <1>3, <1>5 DEF Job, Statuses, LockStatuses
<1> HIDE DEF job, base
<1>7. op.pane # Unbound
  BY <1>2, Constants DEF Unbound
<1>8. JobValid(job)
  <2>1. JobValid(mem[j])
    BY <1>2, <1>3 DEF WellFormed
  <2> QED BY <2>1, <1>2, <1>6, <1>7 DEF JobValid, LockStatuses, TerminalStatuses
<1>9. MayLock(mem, j, job)
  <2>1. mem[j].status = "needs_you" => j \in Active(mem)
    BY <1>2 DEF Active, LockStatuses
  <2> QED BY <2>1, <1>2, <1>6 DEF MayLock, Free
<1>10. WellFormed(base) /\ base \in [Jobs -> Job]
  BY <1>2, <1>3, <1>4, <1>6, <1>8, <1>9, ChangedIsWellFormed DEF WellFormed
<1>11. Distinct(base, Queued(base))
  BY <1>2, <1>3, <1>4, <1>6, ChangedIsOrdered DEF QueueStatuses
<1>12. typed \in SUBSET Jobs /\ Held(mem, typed) /\ Held(disk, typed)
  BY DEF MissionInv, TypeOK
<1>13. Held(base, typed)
  BY <1>2, <1>3, <1>4, <1>6, <1>12, ChangedIsHeld DEF QueueStatuses
<1>14. \A i \in Jobs : base[i].status = "dispatching" => mem[i].status = "dispatching"
  BY <1>2, <1>3, <1>4, <1>6
<1>15. Reordered(base, next) /\ Distinct(next, Queued(next))
  BY <1>10, <1>11, NormalizedIsOrdered
<1>16. Sound(next) /\ Held(next, typed)
  BY <1>10, <1>12, <1>13, <1>15, ReorderedIsSound
<1>17. \A i \in Jobs : next[i].status = "dispatching" => mem[i].status = "dispatching"
  BY <1>14, <1>15 DEF Reordered
<1> HIDE DEF next
<1>18. mem' \in {mem, next} /\ disk' \in {disk, next}
  BY <1>1, <1>16, WriteKeeps
<1>19. Held(mem', typed') /\ Held(disk', typed')
  BY <1>1, <1>12, <1>16, <1>18
<1> QED BY <1>1, <1>5, <1>16, <1>17, <1>19, RequestKeeps

---------------------------------------------------------------------------
(* The prompt queue, terminals and restarts.                               *)

LEMMA QueueKeeps ==
  ASSUME MissionInv, (\E s \in Sessions : QueueClaims(s)) \/ QueueClaimEnds \/ QueueDelivers
  PROVE  MissionInv'
<1>1. /\ UNCHANGED <<mem, disk, spent, attempts, op, typed>>
      /\ queue' \in [at : {"idle", "claiming", "delivering"}, session : Sessions \cup {NoOne}]
      /\ term' \in [Sessions -> Terminals]
      /\ queue'.session \notin {queue.session, NoOne} => ~MissionReserves(queue'.session)
  <2> queue \in [at : {"idle", "claiming", "delivering"}, session : Sessions \cup {NoOne}]
      /\ term \in [Sessions -> Terminals]
    BY DEF MissionInv, TypeOK
  <2>1. CASE \E s \in Sessions : QueueClaims(s)
    BY <2>1 DEF QueueClaims, storeVars
  <2>2. CASE QueueClaimEnds
    BY <2>2 DEF QueueClaimEnds, QueueIdle, storeVars
  <2>3. CASE QueueDelivers
    <3>1. term' \in [Sessions -> Terminals]
      BY ZenonT(40), <2>3 DEF QueueDelivers, Terminals
    <3> QED BY <3>1, <2>3 DEF QueueDelivers, QueueIdle, storeVars
  <2> QED BY <2>1, <2>2, <2>3
<1>2. TypeOK' /\ Held(mem', typed') /\ Held(disk', typed')
  BY <1>1 DEF MissionInv, TypeOK
<1>3. op.at \in Delivering => op.pane.worker # NoOne
  BY Constants DEF MissionInv, OpHasStore, Delivering
<1>4. DispatchIsAlone'
  BY <1>1, <1>3 DEF MissionInv, DispatchIsAlone, MissionReserves
<1>5. OpHasStore' /\ ClaimIsDurable' /\ DispatchingIsHeld'
  BY <1>1 DEF MissionInv, OpHasStore, ClaimIsDurable, DispatchingIsHeld, Queued, Free, Active
<1> QED BY <1>1, <1>2, <1>4, <1>5 DEF MissionInv

\* What happens in terminals alone is nothing to the missions.
LEMMA TerminalKeeps ==
  ASSUME MissionInv, term' \in [Sessions -> Terminals],
         UNCHANGED <<mem, disk, spent, attempts, op, queue, typed>>
  PROVE  MissionInv'
<1>1. TypeOK' /\ Held(mem', typed') /\ Held(disk', typed')
  BY DEF MissionInv, TypeOK
<1>2. OpHasStore' /\ ClaimIsDurable' /\ DispatchIsAlone' /\ DispatchingIsHeld'
  BY DEF MissionInv, OpHasStore, ClaimIsDurable, DispatchIsAlone, DispatchingIsHeld,
         Queued, Free, Active
<1> QED BY <1>1, <1>2 DEF MissionInv

LEMMA HostKeeps ==
  ASSUME MissionInv, NEW s \in Sessions, AgentFinishes(s) \/ PaneReplaced(s)
  PROVE  MissionInv'
<1>1. term \in [Sessions -> Terminals]
  BY DEF MissionInv, TypeOK
<1>2. CASE AgentFinishes(s)
  <2>1. term' \in [Sessions -> Terminals]
    BY <1>1, <1>2 DEF AgentFinishes, Terminals
  <2> QED BY <1>2, <2>1, TerminalKeeps DEF AgentFinishes, storeVars
<1>3. CASE PaneReplaced(s)
  <2>1. [gen |-> term[s].gen + 1, idle |-> TRUE] \in Terminals
    BY <1>1, <1>3, Constants DEF PaneReplaced, Terminals
  <2>2. term' \in [Sessions -> Terminals]
    BY <1>1, <1>3, <2>1 DEF PaneReplaced
  <2> QED BY <1>3, <2>2, TerminalKeeps DEF PaneReplaced, storeVars
<1> QED BY <1>2, <1>3

\* A dispatch that a restart interrupts keeps its locks, and is not offered again.
LEMMA ReconciledIsSound ==
  ASSUME NEW st, Sound(st), NEW done \in SUBSET Jobs, Held(st, done)
  PROVE  /\ Sound(Reconciled(st)) /\ Held(Reconciled(st), done)
         /\ \A j \in Jobs : Reconciled(st)[j].status # "dispatching"
<1> DEFINE new == Reconciled(st)
<1>1. st \in [Jobs -> Job] /\ Valid(st) /\ Exclusive(st)
  BY DEF Sound
<1>2. \A j \in Jobs :
        /\ new[j] \in Job /\ new[j].position = st[j].position /\ new[j].workspace = st[j].workspace
        /\ new[j].pane = st[j].pane /\ new[j].ended = st[j].ended /\ new[j].passed = st[j].passed
        /\ new[j].status = IF st[j].status = "dispatching" THEN "reconcile_required" ELSE st[j].status
  BY <1>1 DEF Reconciled, Job, Statuses, LockStatuses
<1>3. new \in [Jobs -> Job]
  BY <1>2 DEF Reconciled
<1> HIDE DEF new
<1>4. Active(new) = Active(st) /\ Queued(new) = Queued(st)
  BY <1>2 DEF Active, Queued, LockStatuses, QueueStatuses
<1>5. Active(st) \in SUBSET Jobs /\ Queued(st) \in SUBSET Jobs
  BY DEF Active, Queued
<1>6. Exclusive(new)
  BY <1>1, <1>2, <1>4, <1>5 DEF Exclusive
<1>7. Valid(new)
  BY <1>1, <1>2, <1>4, <1>5 DEF Valid, LockStatuses, TerminalStatuses
<1>8. Held(new, done) /\ \A j \in Jobs : new[j].status # "dispatching"
  BY <1>2 DEF Held, QueueStatuses
<1> QED BY <1>3, <1>6, <1>7, <1>8 DEF new, Sound

LEMMA RestartKeeps ==
  ASSUME MissionInv, Restart
  PROVE  MissionInv'
<1>1. /\ mem' = Reconciled(disk) /\ disk' = Reconciled(disk) /\ op' = Idle /\ queue' = QueueIdle
      /\ spent.crashes < MaxCrashes /\ spent' = [spent EXCEPT !.crashes = @ + 1]
      /\ UNCHANGED <<attempts, term, typed>>
  BY DEF Restart, Spend
<1>2. Sound(disk) /\ Held(disk, typed) /\ typed \in SUBSET Jobs
  BY DEF MissionInv, TypeOK
<1>3. /\ Sound(mem') /\ Sound(disk') /\ Held(mem', typed') /\ Held(disk', typed')
      /\ \A j \in Jobs : mem'[j].status # "dispatching"
  BY <1>1, <1>2, ReconciledIsSound
<1>4. Idle \in [at : Phases, job : Jobs \cup {NoOne}, pane : Panes, to : Statuses]
  BY Constants DEF Idle, Phases, Panes, Unbound, Statuses
<1>5. Counts(spent')
  BY <1>1, Constants DEF Counts, MissionInv, TypeOK
<1>6. TypeOK'
  BY <1>1, <1>3, <1>4, <1>5 DEF MissionInv, TypeOK, Sound, Counts, QueueIdle
<1> QED BY <1>1, <1>3, <1>6, AtRest DEF MissionInv

---------------------------------------------------------------------------
(* The theorems.                                                           *)

LEMMA MissionInit == Init => MissionInv
<1> SUFFICES ASSUME Init PROVE MissionInv
  OBVIOUS
<1>1. /\ mem = [j \in Jobs |-> Blank] /\ disk = mem
      /\ attempts = 0 /\ op = Idle /\ queue = QueueIdle
      /\ term = [s \in Sessions |-> [gen |-> 1, idle |-> TRUE]]
      /\ typed = {} /\ spent = [crashes |-> 0, faults |-> 0]
  BY DEF Init
<1>2. Blank \in Job /\ Blank.status = "absent" /\ Blank.ended = "no" /\ Blank.passed = FALSE
  <2>1. (CHOOSE w \in Workspaces : TRUE) \in Workspaces
    BY MissionBounds
  <2>2. Unbound \in Panes
    BY Constants DEF Unbound, Panes
  <2> QED BY <2>1, <2>2, Constants DEF Blank, Job, Statuses
<1> HIDE DEF Blank
<1>3. mem \in [Jobs -> Job] /\ Active(mem) = {} /\ Queued(mem) = {}
  BY <1>1, <1>2 DEF Active, Queued, LockStatuses, QueueStatuses
<1>4. Valid(mem)
  BY <1>1, <1>2, <1>3 DEF Valid, LockStatuses, TerminalStatuses
<1>5. Exclusive(mem)
  BY <1>3, FS_EmptySet, Constants DEF Exclusive
<1>6. Idle \in [at : Phases, job : Jobs \cup {NoOne}, pane : Panes, to : Statuses]
  BY Constants DEF Idle, Phases, Panes, Unbound, Statuses
<1>7. TypeOK
  BY <1>1, <1>3, <1>6, Constants DEF TypeOK, QueueIdle, Terminals
<1>8. Held(mem, typed) /\ Held(disk, typed)
  BY <1>1 DEF Held
<1>9. OpHasStore /\ ClaimIsDurable /\ DispatchIsAlone /\ DispatchingIsHeld
  BY <1>1, <1>2 DEF Idle, OpHasStore, ClaimIsDurable, DispatchIsAlone, DispatchingIsHeld,
     BeforeWrite, Delivering
<1> QED BY <1>1, <1>3, <1>4, <1>5, <1>7, <1>8, <1>9 DEF MissionInv, Sound

LEMMA MissionStep == MissionInv /\ [Next]_vars => MissionInv'
<1> SUFFICES ASSUME MissionInv, [Next]_vars PROVE MissionInv'
  OBVIOUS
<1>1. ASSUME NEW j \in Jobs, Request(j) PROVE MissionInv'
  BY <1>1, CreateKeeps, TransitionKeeps, MoveKeeps, DispatchBeginsKeeps, AdoptBeginsKeeps DEF Request
<1>2. CASE DispatchClaims
  BY <1>2, DispatchClaimsKeeps
<1>3. CASE Deliver
  BY <1>3, TypingKeeps, RecordKeeps DEF Deliver
<1>4. CASE AdoptConfirms \/ AdoptWrites
  BY <1>4, AdoptConfirmsKeeps, AdoptWritesKeeps
<1>5. CASE (\E s \in Sessions : QueueClaims(s)) \/ QueueClaimEnds \/ QueueDelivers
  BY <1>5, QueueKeeps
<1>6. ASSUME NEW s \in Sessions, AgentFinishes(s) \/ PaneReplaced(s) PROVE MissionInv'
  BY <1>6, HostKeeps
<1>7. CASE Restart
  BY <1>7, RestartKeeps
<1>8. CASE UNCHANGED vars
  BY <1>8, TerminalKeeps DEF vars, MissionInv, TypeOK
<1> QED BY <1>1, <1>2, <1>3, <1>4, <1>5, <1>6, <1>7, <1>8 DEF Next

\* Stores are sound in memory and file, typed missions are held, and what an
\* operation in progress checked still holds when it writes.
THEOREM MissionInvariant == Spec => []MissionInv
BY MissionInit, MissionStep, PTL DEF Spec

\* Whatever requests, dispatches, adoptions, failed writes and restarts follow each
\* other: both copies of the missions can be loaded, their line has an order, and
\* no two active missions share a worker or a workspace or exceed the limit.
THEOREM MissionsAreSoundHolds == Spec => []MissionsAreSound
<1>1. MissionInv => MissionsAreSound
  BY DEF MissionInv, Sound, MissionsAreSound, StoreIsValid, LocksAreExclusive
<1> QED BY <1>1, MissionInvariant, PTL

\* A mission whose text reached a terminal waits in no store until it is released.
THEOREM NeverResentHolds == Spec => []NeverResent
<1>1. MissionInv => NeverResent
  BY DEF MissionInv, NeverResent, Held
<1> QED BY <1>1, MissionInvariant, PTL

\* A dispatch types only what the file says that it may, where the prompt queue
\* does not deliver, and one failed write does not leave it behind.
THEOREM DispatchIsSafeHolds == Spec => []DispatchIsSafe
<1>1. MissionInv => NoOrphanedDispatch
  <2> SUFFICES ASSUME MissionInv, op = Idle, spent.faults <= 1, NEW j \in Jobs
               PROVE  mem[j].status # "dispatching"
    BY DEF NoOrphanedDispatch
  <2>1. op.at \notin Delivering /\ spent.faults \in Nat
    BY Constants DEF Idle, Delivering, MissionInv, TypeOK
  <2> QED BY <2>1 DEF MissionInv, DispatchingIsHeld
<1>2. MissionInv => DispatchIsSafe
  BY <1>1 DEF MissionInv, DispatchIsSafe
<1> QED BY <1>2, MissionInvariant, PTL

---------------------------------------------------------------------------
(* MissionSupervisor.                                                      *)

\* A marker is typed with its attempt, into the pane of the mission.
OfItsAttempt(m, x) ==
  /\ x.marker \in 0 .. m.attempt
  /\ x.marker = m.attempt /\ m.kind = "dispatch" /\ m.status \in Supervisor!LockStatuses => x.pane = m.pane

SupervisorTyped ==
  /\ DOMAIN mission = {"status", "pane", "attempt", "kind"} /\ mission.attempt \in Nat
  /\ DOMAIN worker = {"pane", "codex", "shows", "marker"}

SupervisorInv ==
  /\ SupervisorTyped
  /\ mission.kind = "dispatch" => mission.attempt > 0
  /\ \A x \in sampled : OfItsAttempt(mission, x)
  /\ OfItsAttempt(mission, worker)
  /\ \A x, y \in sampled : x = y

LEMMA SignalsReport ==
  ASSUME NEW agent, NEW overdue, "report" \in Supervisor!Signal(agent, overdue), mission.kind = "dispatch"
  PROVE  agent.marker = mission.attempt
<1>1. Supervisor!Reported(agent) = "report"
  <2> DEFINE r == Supervisor!Reported(agent)
  <2>1. CASE worker.pane # mission.pane
    BY <2>1 DEF Supervisor!Signal
  <2>2. CASE worker.pane = mission.pane /\ ~(worker.codex /\ agent.codex)
    BY <2>2 DEF Supervisor!Signal
  <2>3. CASE worker.pane = mission.pane /\ worker.codex /\ agent.codex
    <3>1. "report" \in CASE r = "failure" -> {"error"}
                         [] r = "question" -> {"waiting"}
                         [] r = "report" -> {"report"}
                         [] r = "idle" /\ overdue -> {"idle"}
                         [] OTHER -> {}
      BY <2>3 DEF Supervisor!Signal
    <3> HIDE DEF r
    <3> QED BY <3>1 DEF r
  <2> QED BY <2>1, <2>2, <2>3
<1> QED BY <1>1 DEF Supervisor!Reported

LEMMA SupervisorInit == Supervisor!Init => SupervisorInv
BY DEF Supervisor!Init, SupervisorInv, SupervisorTyped, OfItsAttempt, Supervisor!LockStatuses

\* The mission gets another status, or none of what the reports are compared with changes.
LEMMA StatusKeepsInv ==
  ASSUME SupervisorInv, DOMAIN mission' = DOMAIN mission, mission'.attempt = mission.attempt,
         mission'.kind = mission.kind, mission.status \in Supervisor!LockStatuses,
         mission'.status \in Supervisor!LockStatuses => mission'.pane = mission.pane,
         worker' = worker, sampled' \subseteq sampled
  PROVE  SupervisorInv'
BY DEF SupervisorInv, SupervisorTyped, OfItsAttempt

LEMMA WorkerKeepsInv ==
  ASSUME SupervisorInv, Supervisor!WorkerMoves \/ Supervisor!WorkerExits \/ Supervisor!WorkerReplaced
  PROVE  SupervisorInv'
<1>1. mission' = mission /\ sampled' = sampled
  BY DEF Supervisor!WorkerMoves, Supervisor!WorkerExits, Supervisor!WorkerReplaced, Supervisor!SameMission
<1>2. DOMAIN worker = {"pane", "codex", "shows", "marker"}
  BY DEF SupervisorInv, SupervisorTyped
<1>3. DOMAIN worker' = DOMAIN worker
  BY <1>2 DEF Supervisor!WorkerMoves, Supervisor!WorkerExits, Supervisor!WorkerReplaced
<1>4. (worker'.marker = worker.marker /\ worker'.pane = worker.pane) \/ worker'.marker = 0
  BY <1>2 DEF Supervisor!WorkerMoves, Supervisor!WorkerExits, Supervisor!WorkerReplaced
<1>5. OfItsAttempt(mission, worker')
  BY <1>4 DEF SupervisorInv, SupervisorTyped, OfItsAttempt
<1> QED BY <1>1, <1>3, <1>5 DEF SupervisorInv, SupervisorTyped, OfItsAttempt

LEMMA BindsKeepsInv ==
  ASSUME SupervisorInv, Supervisor!Dispatch \/ Supervisor!Adopt
  PROVE  SupervisorInv'
<1>1. /\ mission.attempt \in Nat /\ DOMAIN worker = {"pane", "codex", "shows", "marker"}
      /\ worker.marker \in 0 .. mission.attempt /\ \A x \in sampled : x.marker \in 0 .. mission.attempt
  BY DEF SupervisorInv, SupervisorTyped, OfItsAttempt
<1>2. ASSUME NEW kind, Supervisor!Binds(kind)
      PROVE  /\ DOMAIN mission' = {"status", "pane", "attempt", "kind"} /\ sampled' = sampled
             /\ mission'.attempt = mission.attempt + 1 /\ mission'.kind = kind /\ mission'.pane = worker.pane
  BY <1>2 DEF Supervisor!Binds
<1>3. CASE Supervisor!Dispatch
  <2>1. /\ DOMAIN worker' = DOMAIN worker /\ worker'.marker = mission.attempt + 1 /\ worker'.pane = worker.pane
    BY <1>1, <1>3 DEF Supervisor!Dispatch
  <2>2. Supervisor!Binds("dispatch")
    BY <1>3 DEF Supervisor!Dispatch
  <2> QED BY <1>1, <1>2, <2>1, <2>2 DEF SupervisorInv, SupervisorTyped, OfItsAttempt
<1>4. CASE Supervisor!Adopt
  <2>1. Supervisor!Binds("adoption") /\ worker' = worker
    BY <1>4 DEF Supervisor!Adopt
  <2> QED BY <1>1, <1>2, <2>1 DEF SupervisorInv, SupervisorTyped, OfItsAttempt
<1> QED BY <1>3, <1>4

LEMMA SuperviseKeepsInv ==
  ASSUME SupervisorInv, NEW elapsed, NEW overdue, Supervisor!Supervise(elapsed, overdue)
  PROVE  SupervisorInv'
<1>1. sampled' = {} /\ worker' = worker
  BY DEF Supervisor!Supervise
<1>2. CASE mission' = mission
  BY <1>1, <1>2 DEF SupervisorInv, SupervisorTyped, OfItsAttempt
<1>3. CASE mission' # mission
  <2>1. mission.status = "running" /\ \E to \in {"verifying", "needs_you"} : mission' = [mission EXCEPT !.status = to]
    BY <1>3 DEF Supervisor!Supervise
  <2>2. PICK to \in {"verifying", "needs_you"} : mission' = [mission EXCEPT !.status = to]
    BY <2>1
  <2>3. DOMAIN mission = {"status", "pane", "attempt", "kind"}
    BY DEF SupervisorInv, SupervisorTyped
  <2> QED BY <1>1, <2>1, <2>2, <2>3, StatusKeepsInv DEF Supervisor!LockStatuses
<1> QED BY <1>2, <1>3

LEMMA SupervisorStep == SupervisorInv /\ [Supervisor!Next]_supervisorVars => SupervisorInv'
<1> SUFFICES ASSUME SupervisorInv, [Supervisor!Next]_supervisorVars PROVE SupervisorInv'
  OBVIOUS
<1>1. CASE UNCHANGED supervisorVars
  BY <1>1 DEF supervisorVars, SupervisorInv, SupervisorTyped, OfItsAttempt
<1>2. CASE Supervisor!WorkerMoves \/ Supervisor!WorkerExits \/ Supervisor!WorkerReplaced
  BY <1>2, WorkerKeepsInv
<1>3. CASE Supervisor!Dispatch \/ Supervisor!Adopt
  BY <1>3, BindsKeepsInv
<1>4. CASE \E to \in Supervisor!LockStatuses \cup {"ready"} : Supervisor!Transition(to)
  <2>1. PICK to \in Supervisor!LockStatuses \cup {"ready"} : Supervisor!Transition(to)
    BY <1>4
  <2>2. DOMAIN mission = {"status", "pane", "attempt", "kind"}
    BY DEF SupervisorInv, SupervisorTyped
  <2>3. /\ mission' = [mission EXCEPT !.status = to, !.pane = IF to = "ready" THEN 0 ELSE mission.pane]
        /\ mission.status \in Supervisor!LockStatuses /\ worker' = worker /\ sampled' = sampled
    BY <2>1 DEF Supervisor!Transition
  <2>4. /\ DOMAIN mission' = DOMAIN mission /\ mission'.attempt = mission.attempt
        /\ mission'.kind = mission.kind /\ mission'.status = to
        /\ to # "ready" => mission'.pane = mission.pane
    BY <2>2, <2>3
  <2>5. "ready" \notin Supervisor!LockStatuses
    BY DEF Supervisor!LockStatuses
  <2> QED BY <2>3, <2>4, <2>5, StatusKeepsInv
<1>5. CASE Supervisor!Sample
  <2>1. sampled' = {worker} /\ mission' = mission /\ worker' = worker
    BY <1>5 DEF Supervisor!Sample
  <2> QED BY <2>1 DEF SupervisorInv, SupervisorTyped, OfItsAttempt
<1>6. CASE Supervisor!Restart
  BY <1>6 DEF Supervisor!Restart, SupervisorInv, SupervisorTyped, OfItsAttempt
<1>7. CASE \E elapsed, overdue \in BOOLEAN : Supervisor!Supervise(elapsed, overdue)
  BY <1>7, SuperviseKeepsInv
<1> QED BY <1>1, <1>2, <1>3, <1>4, <1>5, <1>6, <1>7 DEF Supervisor!Next

\* What makes the supervisor offer a dispatched mission for verification was given by the worker in the
\* pane of the mission, after the text of its present attempt.
THEOREM ReportIsOwnHolds == Supervisor!Spec => ReportIsOwn
<1>1. SupervisorInv /\ [Supervisor!Next]_Supervisor!vars => SupervisorInv'
  BY SupervisorStep DEF Supervisor!vars, supervisorVars
<1> DEFINE Own == sampled # {} /\ sampled' = {} /\ mission.kind = "dispatch"
                  /\ mission.status = "running" /\ mission'.status = "verifying" =>
                    \A agent \in sampled : agent.pane = mission.pane /\ agent.marker = mission.attempt
<1>2. SupervisorInv /\ [Supervisor!Next]_Supervisor!vars => [Own]_Supervisor!vars
  <2> SUFFICES ASSUME SupervisorInv, Supervisor!Next, sampled # {}, sampled' = {}, mission.kind = "dispatch",
                      mission.status = "running", mission'.status = "verifying", NEW x \in sampled
               PROVE  x.pane = mission.pane /\ x.marker = mission.attempt
    OBVIOUS
  <2>1. mission' # mission
    OBVIOUS
  <2>2. PICK elapsed \in BOOLEAN : \E overdue \in BOOLEAN : Supervisor!Supervise(elapsed, overdue)
    BY <2>1 DEF Supervisor!Next, Supervisor!WorkerMoves, Supervisor!WorkerExits, Supervisor!WorkerReplaced,
                Supervisor!SameMission, Supervisor!Dispatch, Supervisor!Adopt, Supervisor!Binds,
                Supervisor!Transition, Supervisor!Sample, Supervisor!Restart
  <2>3. PICK overdue \in BOOLEAN : Supervisor!Supervise(elapsed, overdue)
    BY <2>2
  <2>4. PICK agent \in sampled :
          \E o \in Supervisor!Observation(agent, overdue) : o.signal = "report"
    <3>1. DOMAIN mission = {"status", "pane", "attempt", "kind"}
      BY DEF SupervisorInv, SupervisorTyped
    <3> QED BY <2>1, <2>3, <3>1 DEF Supervisor!Supervise
  <2>5. "report" \in Supervisor!Signal(agent, overdue)
    BY <2>4 DEF Supervisor!Observation
  <2>6. agent.marker = mission.attempt
    BY <2>5, SignalsReport
  <2>7. OfItsAttempt(mission, agent) /\ x = agent
    BY DEF SupervisorInv
  <2> QED BY <2>6, <2>7 DEF OfItsAttempt, Supervisor!LockStatuses
<1> QED BY <1>1, <1>2, SupervisorInit, PTL DEF Supervisor!Spec, ReportIsOwn, Supervisor!ReportIsOwn
=============================================================================
