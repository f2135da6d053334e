------------------------ MODULE PromptQueueLineProofs ------------------------
(***************************************************************************)
(* Proofs about the lines of the prompt queue: both copies of the store    *)
(* are always ones that can be loaded, a line has one prompt at work, a    *)
(* dispatch and a reservation have an owner, reviews are resolved on their *)
(* own pane, nothing is typed over work, and the queue implements          *)
(* DispatchLine.                                                           *)
(***************************************************************************)
EXTENDS PromptQueueProofs, FiniteSetTheorems

---------------------------------------------------------------------------
(* The inductive invariant.  That a line never has two prompts at work is  *)
(* not inductive: a claim is decided from the heads that were collected    *)
(* when the cycle began, and a prompt may come back to work from a review. *)

\* At work, or in a review from which the operator or the cycle may take it
\* back to work.  The two reviews left out are only ever completed.
Engaged(it) ==
  \/ InFlight(it)
  \/ it.status = "needs_review" /\ it.stage \notin {"final_boundary_missing", "completion_marker_missing"}

\* What validatePromptQueueStore wants of an item, and what it does not look
\* at: the completion of a prompt is reviewed only after it was sent.
Sound(it) ==
  /\ ItemValid(it)
  /\ it.status = "needs_review" /\ it.stage \in CompletionReviews => it.sent

\* A store that can be loaded: positions tell the items apart, in each line
\* everything that was ever claimed stands before everything that waits, and
\* one prompt at most is engaged.
Orderly(store) ==
  /\ \A i \in Ids : Sound(store[i])
  /\ IsFiniteSet(Present(store))
  /\ \A i, j \in Present(store) : i # j => store[i].position # store[j].position
  /\ \A i, j \in Present(store) :
       /\ store[i].session = store[j].session
       /\ store[i].claimed /\ store[j].status = "queued"
       => store[i].position < store[j].position
  /\ \A i, j \in Ids :
       i # j /\ store[i].session = store[j].session => ~(Engaged(store[i]) /\ Engaged(store[j]))

Bounded(store) == Cardinality(Present(store)) <= MaxQueueItems

\* What one request or one step of a cycle makes of an item that is there.
Later(stage, next) ==
  \/ stage = "waiting" /\ next \in {"waiting", "settled"}
  \/ stage = "claimed" /\ next \in {"working", "review", "settled"}
  \/ stage \in {"working", "review"} /\ next \in {"working", "review", "settled"}
  \/ stage = "settled" /\ next = "settled"

Proceeds(it, next) ==
  /\ it.status # "absent"
  /\ next.session = it.session /\ next.position = it.position /\ next.claimed = it.claimed
  /\ Sound(it) => Sound(next)
  /\ Engaged(next) => Engaged(it)
  /\ Later(StageOf(it), StageOf(next))

\* Only a start takes a completion back, into a review that engages nobody.
Reopens(it, next) ==
  /\ StageOf(it) = "settled" /\ next.status = "needs_review"
  /\ next.session = it.session /\ next.position = it.position /\ next.claimed = it.claimed
  /\ Sound(it) => Sound(next)
  /\ ~Engaged(next)

\* What history drops leaves its id, and its session, behind.
Forgotten(it, next) == Final(it) /\ next.status = "absent" /\ next.session = it.session

IsClaimed(it, next) ==
  /\ it.status = "queued"
  /\ next = [it EXCEPT !.status = "dispatching", !.claimed = TRUE, !.stage = "dispatching"]

ItemStep(it, next) ==
  \/ next = it
  \/ it.status = "absent" /\ next.status = "queued"
  \/ IsClaimed(it, next)
  \/ Proceeds(it, next)
  \/ Forgotten(it, next)

\* The file is the memory, or one step ahead of it when a write failed late.
FileFollows == \A i \in Ids : ItemStep(mem[i], disk[i])

\* The heads of a cycle stay the heads of their lines until it has visited them.
HeadsInHand ==
  /\ proc.pc = "idle" => proc.todo = {}
  /\ proc.todo \cap proc.cur = {}
  /\ \A i \in proc.todo \cup proc.cur : IsHead(mem, i)

StoresAreOrderly ==
  /\ Orderly(mem) /\ Bounded(mem)
  /\ Orderly(disk) /\ Bounded(disk)
  /\ FileFollows

LineInv == /\ QueueInv
           /\ StoresAreOrderly
           /\ HeadsInHand
           /\ NoOrphanedDispatch
           /\ ReservationsHaveOwners

---------------------------------------------------------------------------
(* Items and stores.                                                       *)

\* What is engaged was claimed, and its line waits for it.
LEMMA EngagedIsClaimed ==
  ASSUME NEW it \in Item, Sound(it), Engaged(it)
  PROVE  it.claimed /\ Open(it)
BY DEF Sound, ItemValid, Engaged, InFlight, Awaiting, Open

\* An absent item is sound and not engaged.
LEMMA AbsentIsSound ==
  ASSUME NEW it, it.status = "absent"
  PROVE  Sound(it) /\ ~Engaged(it)
BY DEF Sound, ItemValid, Engaged, InFlight, Awaiting

\* Trimming forgets final items only, and not the one just updated.
LEMMA TrimmingsFinal ==
  ASSUME NEW store \in [Ids -> Item], NEW updated \in Ids, NEW next \in Trimmings(store, updated)
  PROVE  /\ next \in [Ids -> Item]
         /\ next[updated] = store[updated]
         /\ \A i \in Ids : next[i] = store[i] \/ Forgotten(store[i], next[i])
<1> DEFINE old == {i \in Ids : Final(store[i])}
<1>1. PICK kept \in SUBSET old :
         /\ next = [i \in Ids |-> IF i \in old \ kept THEN Gone(store[i]) ELSE store[i]]
         /\ updated \in old => updated \in kept
  BY DEF Trimmings
<1>2. \A i \in Ids : Gone(store[i]).status = "absent" /\ Gone(store[i]).session = store[i].session
  BY GoneType
<1>3. next[updated] = store[updated]
  BY <1>1
<1>4. \A i \in Ids : next[i] = store[i] \/ Forgotten(store[i], next[i])
  BY <1>1, <1>2 DEF Forgotten
<1>5. next \in [Ids -> Item]
  BY TrimmingsType
<1> QED BY <1>3, <1>4, <1>5

\* What proceeds does not wait unless it did, and is there.
LEMMA ProceedsFacts ==
  ASSUME NEW it \in Item, NEW next \in Item, Proceeds(it, next)
  PROVE  /\ next.session = it.session /\ next.position = it.position /\ next.claimed = it.claimed
         /\ it.status # "absent"
         /\ next.status = "queued" => it.status = "queued"
         /\ next.status # "absent" /\ next.status # "dispatching"
         /\ Engaged(next) => Engaged(it)
         /\ Sound(it) => Sound(next)
<1>1. Later(StageOf(it), StageOf(next))
  BY DEF Proceeds
<1>2. /\ next.status = "absent" => StageOf(next) = "unknown"
      /\ next.status = "dispatching" => StageOf(next) = "claimed"
  BY DEF StageOf
<1>3. next.status = "queued" => StageOf(next) = "waiting"
  BY DEF StageOf
<1>4. it.status \in Statuses
  BY DEF Item
<1>5. StageOf(it) = "waiting" => it.status = "queued"
  BY <1>4 DEF StageOf, Proceeds
<1> QED BY <1>1, <1>2, <1>3, <1>5 DEF Proceeds, Later

\* A store stays orderly when its items proceed, stay or are forgotten.
LEMMA OrderlyKept ==
  ASSUME NEW store \in [Ids -> Item], NEW next \in [Ids -> Item], Orderly(store),
         \A i \in Ids : \/ next[i] = store[i]
                        \/ next[i].status = "absent"
                        \/ Proceeds(store[i], next[i]) \/ Reopens(store[i], next[i])
  PROVE  Orderly(next) /\ (Bounded(store) => Bounded(next))
<1>0. \A i \in Ids :
        \/ next[i].status = "absent"
        \/ /\ next[i].session = store[i].session /\ next[i].position = store[i].position
           /\ next[i].claimed = store[i].claimed
           /\ store[i].status # "absent" \/ next[i] = store[i]
           /\ next[i].status = "queued" => store[i].status = "queued"
           /\ Engaged(next[i]) => Engaged(store[i])
           /\ Sound(store[i]) => Sound(next[i])
  BY ProceedsFacts DEF Reopens, StageOf
<1>1. \A i \in Ids : Sound(next[i])
  BY <1>0, AbsentIsSound DEF Orderly
<1>2. Present(next) \subseteq Present(store)
  BY <1>0 DEF Present
<1>3. IsFiniteSet(Present(next)) /\ Cardinality(Present(next)) <= Cardinality(Present(store))
  BY <1>2, FS_Subset DEF Orderly
<1>4. \A i, j \in Present(next) : i # j => next[i].position # next[j].position
  BY <1>0, <1>2 DEF Orderly, Present
<1>5. \A i, j \in Present(next) :
        /\ next[i].session = next[j].session
        /\ next[i].claimed /\ next[j].status = "queued"
        => next[i].position < next[j].position
  BY <1>0, <1>2 DEF Orderly, Present
<1>6. \A i, j \in Ids :
        i # j /\ next[i].session = next[j].session => ~(Engaged(next[i]) /\ Engaged(next[j]))
  BY <1>0, AbsentIsSound DEF Orderly
<1>7. Bounded(store) => Bounded(next)
  <2>1. Cardinality(Present(store)) \in Nat /\ Cardinality(Present(next)) \in Nat
    BY <1>3, FS_CardinalityType DEF Orderly
  <2> QED BY <1>3, <2>1, BoundsAssumption DEF Bounded
<1> QED BY <1>1, <1>3, <1>4, <1>5, <1>6, <1>7 DEF Orderly

\* The claim of a head that waits keeps a store orderly.
LEMMA OrderlyClaim ==
  ASSUME NEW store \in [Ids -> Item], Orderly(store), NEW i \in Ids, IsHead(store, i),
         NEW it \in Item, IsClaimed(store[i], it)
  PROVE  LET next == [store EXCEPT ![i] = it]
         IN Orderly(next) /\ (Bounded(store) => Bounded(next))
<1> DEFINE next == [store EXCEPT ![i] = it]
<1>0. /\ store[i].status = "queued" /\ it.status = "dispatching" /\ it.claimed
      /\ it.session = store[i].session /\ it.position = store[i].position
      /\ it.sent = store[i].sent /\ it.done = store[i].done /\ it.summary = store[i].summary
  BY DEF IsClaimed, Item
<1>1. next[i] = it /\ \A j \in Ids : j # i => next[j] = store[j]
  OBVIOUS
<1> HIDE DEF next
<1>2. Present(next) = Present(store) /\ i \in Present(store)
  BY <1>0, <1>1 DEF Present
<1>3. Sound(it)
  BY <1>0 DEF Orderly, Sound, ItemValid
<1>4. \A k \in Present(store) : k # i /\ store[k].session = store[i].session =>
        /\ ~Engaged(store[k])
        /\ store[k].status = "queued" => store[i].position < store[k].position
  <2> SUFFICES ASSUME NEW k \in Present(store), k # i, store[k].session = store[i].session
               PROVE  /\ ~Engaged(store[k])
                      /\ store[k].status = "queued" => store[i].position < store[k].position
    OBVIOUS
  <2>1. k \in Ids /\ store[k] \in Item /\ store[i] \in Item
    BY DEF Present
  <2>2. store[k].position \in Nat /\ store[i].position \in Nat
    BY <2>1 DEF Item
  <2>3. Open(store[k]) => store[i].position <= store[k].position
    BY <2>1 DEF IsHead, Line
  <2>4. store[i].position # store[k].position
    BY <1>2 DEF Orderly
  <2>5. ~Engaged(store[k])
    <3>1. Engaged(store[k]) => Open(store[k]) /\ store[k].claimed
      BY <2>1, EngagedIsClaimed DEF Orderly
    <3>2. store[k].claimed => store[k].position < store[i].position
      BY <1>0, <1>2 DEF Orderly
    <3> QED BY <2>2, <2>3, <3>1, <3>2
  <2>6. store[k].status = "queued" => Open(store[k])
    BY DEF Open
  <2> QED BY <2>2, <2>3, <2>4, <2>5, <2>6
<1>5. \A j, k \in Present(next) :
        /\ next[j].session = next[k].session
        /\ next[j].claimed /\ next[k].status = "queued"
        => next[j].position < next[k].position
  BY <1>0, <1>1, <1>2, <1>4 DEF Orderly, Present
<1>6. \A j, k \in Present(next) : j # k => next[j].position # next[k].position
  <2>1. \A j \in Ids : next[j].position = store[j].position
    BY <1>0, <1>1
  <2>2. \A j, k \in Present(store) : j # k => store[j].position # store[k].position
    BY DEF Orderly
  <2> QED BY <1>2, <2>1, <2>2 DEF Present
<1>7. \A j, k \in Ids :
        j # k /\ next[j].session = next[k].session => ~(Engaged(next[j]) /\ Engaged(next[k]))
  <2>1. \A k \in Ids : k # i /\ store[k].session = store[i].session => ~Engaged(store[k])
    BY <1>4, AbsentIsSound DEF Present
  <2> QED BY <1>0, <1>1, <2>1 DEF Orderly
<1>8. \A j \in Ids : Sound(next[j])
  BY <1>1, <1>3 DEF Orderly
<1>9. Orderly(next) /\ (Bounded(store) => Bounded(next))
  BY <1>2, <1>5, <1>6, <1>7, <1>8 DEF Orderly, Bounded
<1> QED BY <1>9 DEF next

\* A store stays orderly when items arrive at the end.
LEMMA OrderlyArrival ==
  ASSUME NEW store \in [Ids -> Item], NEW next \in [Ids -> Item], Orderly(store),
         NEW new \in SUBSET Ids, IsFiniteSet(new),
         \A i \in Ids \ new : next[i] = store[i],
         \A i \in new : /\ store[i].status = "absent"
                        /\ next[i].status = "queued" /\ Sound(next[i])
                        /\ \A j \in Present(store) : store[j].position < next[i].position,
         \A i, j \in new : i # j => next[i].position # next[j].position
  PROVE  Orderly(next) /\ Present(next) = Present(store) \cup new
<1>1. Present(next) = Present(store) \cup new /\ new \cap Present(store) = {}
  BY DEF Present
<1>2. IsFiniteSet(Present(next))
  <2>1. IsFiniteSet(Present(store))
    BY DEF Orderly
  <2>2. IsFiniteSet(Present(store) \cup new)
    BY <2>1, FS_Union
  <2> QED BY <1>1, <2>2
<1>3. \A i \in new : ~(next[i].claimed) /\ ~Engaged(next[i])
  BY DEF Sound, ItemValid, Engaged, InFlight, Awaiting
<1>4. \A i \in Ids : next[i].position \in Nat
  BY DEF Item
<1>5. \A i, j \in Present(next) : i # j => next[i].position # next[j].position
  <2>1. \A i \in new, j \in Present(store) : next[j].position < next[i].position
    BY <1>1 DEF Present
  <2>2. \A i, j \in Present(store) : i # j => next[i].position # next[j].position
    BY <1>1 DEF Orderly, Present
  <2> QED BY <1>1, <1>4, <2>1, <2>2
<1>6. \A i, j \in Present(next) :
        /\ next[i].session = next[j].session
        /\ next[i].claimed /\ next[j].status = "queued"
        => next[i].position < next[j].position
  BY <1>1, <1>3 DEF Orderly, Present
<1>7. \A i \in Ids : Sound(next[i])
  BY DEF Orderly
<1>8. \A i, j \in Ids :
        i # j /\ next[i].session = next[j].session => ~(Engaged(next[i]) /\ Engaged(next[j]))
  BY <1>3 DEF Orderly
<1> QED BY <1>1, <1>2, <1>5, <1>6, <1>7, <1>8 DEF Orderly

---------------------------------------------------------------------------
(* Writing the store.                                                      *)

\* What arrives has an id that was not given out before, and stands at the end.
ArrivesLast(next) ==
  \A i \in Ids : mem[i].status = "absent" /\ next[i].status # "absent" =>
    i \notin used /\ \A k \in Present(mem) : mem[k].position < next[i].position

\* A store that may be written over the memory.
Good(next) ==
  /\ next \in [Ids -> Item] /\ Orderly(next) /\ Bounded(next)
  /\ \A i \in Ids : ItemStep(mem[i], next[i])
  /\ ArrivesLast(next)

\* One that claims nothing.
Routine(next) ==
  /\ Good(next)
  /\ \A i \in Ids : next[i].status = "dispatching" => next[i] = mem[i]

\* Nothing arrives while items stay, proceed, are claimed or are forgotten.
LEMMA NothingArrives ==
  ASSUME NEW next,
         \A i \in Ids : \/ next[i] = mem[i]
                        \/ Forgotten(mem[i], next[i])
                        \/ Proceeds(mem[i], next[i])
                        \/ IsClaimed(mem[i], next[i])
  PROVE  ArrivesLast(next)
BY DEF ArrivesLast, Forgotten, Proceeds, IsClaimed

\* Written or not, it leaves both copies orderly and the file at most a step ahead.
LEMMA GoodWrite ==
  ASSUME TypeOK, StoresAreOrderly, NEW next, Good(next), NEW f, Write(next, f)
  PROVE  StoresAreOrderly' /\ \A i \in Ids : ItemStep(mem[i], mem'[i])
<1>1. \/ mem' = mem /\ disk' = disk
      \/ mem' = mem /\ disk' = next
      \/ mem' = next /\ disk' = next
  BY DEF Write
<1>2. \A i \in Ids : ItemStep(mem[i], mem[i]) /\ ItemStep(next[i], next[i])
  BY DEF ItemStep
<1>3. CASE mem' = mem /\ disk' = disk
  BY <1>2, <1>3 DEF StoresAreOrderly, FileFollows, Orderly, Bounded, Present
<1>4. CASE mem' = mem /\ disk' = next
  BY <1>2, <1>4 DEF StoresAreOrderly, FileFollows, Good, Orderly, Bounded, Present
<1>5. CASE mem' = next /\ disk' = next
  BY <1>2, <1>5 DEF StoresAreOrderly, FileFollows, Good, Orderly, Bounded, Present
<1> QED BY <1>1, <1>3, <1>4, <1>5

\* One item proceeds, and the history may be trimmed.
LEMMA GoodChange ==
  ASSUME TypeOK, StoresAreOrderly, NEW i \in Ids, NEW it \in Item, Proceeds(mem[i], it),
         NEW next,
         \/ next = [mem EXCEPT ![i] = it]
         \/ next \in Trimmings([mem EXCEPT ![i] = it], i)
  PROVE  Routine(next)
<1> DEFINE changed == [mem EXCEPT ![i] = it]
<1>1. changed \in [Ids -> Item] /\ mem \in [Ids -> Item]
  BY DEF TypeOK
<1>2. \A j \in Ids : changed[j] = IF j = i THEN it ELSE mem[j]
  BY <1>1
<1> HIDE DEF changed
<1>3. /\ next \in [Ids -> Item]
      /\ next[i] = changed[i]
      /\ \A j \in Ids : next[j] = changed[j] \/ Forgotten(changed[j], next[j])
  BY <1>1, TrimmingsFinal DEF changed
<1>4. ASSUME NEW j \in Ids
      PROVE  \/ next[j] = mem[j]
             \/ Forgotten(mem[j], next[j])
             \/ Proceeds(mem[j], next[j])
  <2>1. CASE j = i
    <3>1. next[j] = it
      BY <1>2, <1>3, <2>1
    <3> QED BY <2>1, <3>1
  <2>2. CASE j # i
    <3>1. changed[j] = mem[j]
      BY <1>2, <2>2
    <3> QED BY <1>3, <3>1
  <2> QED BY <2>1, <2>2
<1>5. Orderly(next) /\ Bounded(next)
  BY <1>1, <1>3, <1>4, OrderlyKept DEF StoresAreOrderly, Forgotten
<1>6. Good(next)
  BY <1>3, <1>4, <1>5, NothingArrives DEF Good, ItemStep
<1>7. ASSUME NEW j \in Ids, next[j].status = "dispatching"
      PROVE  next[j] = mem[j]
  <2>1. Proceeds(mem[j], next[j]) => next[j].status # "dispatching"
    BY <1>1, <1>3, ProceedsFacts
  <2> QED BY <1>4, <1>7, <2>1 DEF Forgotten
<1> QED BY <1>6, <1>7 DEF Routine

---------------------------------------------------------------------------
(* The requests of the operator.                                           *)

\* The fields of the items that requests write.
LEMMA ResolvedFields ==
  ASSUME NEW it \in Item, NEW st, NEW sm, NEW sg, NEW done, NEW footer
  PROVE  LET a == [it EXCEPT !.status = st, !.summary = sm]
             b == [it EXCEPT !.status = st, !.summary = sm, !.stage = sg]
             c == [it EXCEPT !.stage = sg]
             d == [it EXCEPT !.status = st, !.summary = sm, !.done = done, !.footer = footer,
                             !.stage = sg]
         IN /\ \A x \in {a, b, c, d} :
                 /\ x.session = it.session /\ x.position = it.position
                 /\ x.claimed = it.claimed /\ x.sent = it.sent
            /\ a.status = st /\ a.summary = sm /\ a.stage = it.stage /\ a.done = it.done
            /\ b.status = st /\ b.summary = sm /\ b.stage = sg /\ b.done = it.done
            /\ c.status = it.status /\ c.summary = it.summary /\ c.stage = sg /\ c.done = it.done
            /\ d.status = st /\ d.summary = sm /\ d.stage = sg /\ d.done = done
BY DEF Item

\* A request that resolves an item lets it proceed.
LEMMA ResolvedProceeds ==
  ASSUME NEW it \in Item, NEW sg \in Stages, NEW footer
  PROVE  /\ it.status = "queued" =>
              /\ Proceeds(it, [it EXCEPT !.status = "canceled", !.summary = "unavailable"])
              /\ Proceeds(it, [it EXCEPT !.status = "canceled", !.summary = "unavailable",
                                         !.stage = sg])
         /\ it.status = "needs_review" =>
              /\ Proceeds(it, [it EXCEPT !.status = "canceled", !.summary = "unavailable",
                                         !.stage = sg])
              /\ it.stage \in CompletionReviews \/ it.sent =>
                   \A sm \in {"captured", "returned", "operator_released"} :
                     Proceeds(it, [it EXCEPT !.status = "sent", !.summary = sm, !.done = TRUE,
                                             !.footer = footer, !.stage = sg])
         /\ Awaiting(it) =>
              /\ \A sm \in {"captured", "returned", "operator_released"} :
                   Proceeds(it, [it EXCEPT !.status = "sent", !.summary = sm, !.done = TRUE,
                                           !.footer = footer, !.stage = sg])
              /\ Proceeds(it, [it EXCEPT !.status = "needs_review", !.summary = "unavailable",
                                         !.done = FALSE, !.footer = footer, !.stage = sg])
         /\ Awaiting(it) \/ Review(it, {"completion_superseded"}) =>
              Proceeds(it, [it EXCEPT !.status = "sent", !.summary = "pending", !.done = FALSE,
                                      !.footer = footer, !.stage = sg])
<1> USE DEF Proceeds, Sound, ItemValid, Engaged, InFlight, Awaiting, Later, StageOf
<1>1. ASSUME it.status \in {"queued", "needs_review"}
      PROVE  Proceeds(it, [it EXCEPT !.status = "canceled", !.summary = "unavailable",
                                     !.stage = sg])
  <2> DEFINE x == [it EXCEPT !.status = "canceled", !.summary = "unavailable", !.stage = sg]
  <2>1. /\ x.session = it.session /\ x.position = it.position /\ x.claimed = it.claimed
        /\ x.sent = it.sent /\ x.done = it.done
        /\ x.status = "canceled" /\ x.summary = "unavailable" /\ x.stage = sg
    BY ResolvedFields
  <2> HIDE DEF x
  <2>2. Proceeds(it, x)
    BY <1>1, <2>1
  <2> QED BY <2>2 DEF x
<1>2. ASSUME it.status = "queued"
      PROVE  Proceeds(it, [it EXCEPT !.status = "canceled", !.summary = "unavailable"])
  <2> DEFINE x == [it EXCEPT !.status = "canceled", !.summary = "unavailable"]
  <2>1. /\ x.session = it.session /\ x.position = it.position /\ x.claimed = it.claimed
        /\ x.sent = it.sent /\ x.done = it.done
        /\ x.status = "canceled" /\ x.summary = "unavailable"
    BY ResolvedFields
  <2> HIDE DEF x
  <2>2. Proceeds(it, x)
    BY <1>2, <2>1
  <2> QED BY <2>2 DEF x
<1>3. ASSUME NEW sm \in {"captured", "returned", "operator_released"},
             \/ it.status = "needs_review" /\ (it.stage \in CompletionReviews \/ it.sent)
             \/ Awaiting(it)
      PROVE  Proceeds(it, [it EXCEPT !.status = "sent", !.summary = sm, !.done = TRUE,
                                     !.footer = footer, !.stage = sg])
  <2> DEFINE x == [it EXCEPT !.status = "sent", !.summary = sm, !.done = TRUE,
                             !.footer = footer, !.stage = sg]
  <2>1. /\ x.session = it.session /\ x.position = it.position /\ x.claimed = it.claimed
        /\ x.sent = it.sent /\ x.done = TRUE
        /\ x.status = "sent" /\ x.summary = sm /\ x.stage = sg
    BY ResolvedFields
  <2> HIDE DEF x
  <2>2. Proceeds(it, x)
    BY <1>3, <2>1
  <2> QED BY <2>2 DEF x
<1>4. ASSUME Awaiting(it)
      PROVE  Proceeds(it, [it EXCEPT !.status = "needs_review", !.summary = "unavailable",
                                     !.done = FALSE, !.footer = footer, !.stage = sg])
  <2> DEFINE x == [it EXCEPT !.status = "needs_review", !.summary = "unavailable",
                             !.done = FALSE, !.footer = footer, !.stage = sg]
  <2>1. /\ x.session = it.session /\ x.position = it.position /\ x.claimed = it.claimed
        /\ x.sent = it.sent /\ x.done = FALSE
        /\ x.status = "needs_review" /\ x.summary = "unavailable" /\ x.stage = sg
    BY ResolvedFields
  <2> HIDE DEF x
  <2>2. Proceeds(it, x)
    BY <1>4, <2>1
  <2> QED BY <2>2 DEF x
<1>5. ASSUME Awaiting(it) \/ Review(it, {"completion_superseded"})
      PROVE  Proceeds(it, [it EXCEPT !.status = "sent", !.summary = "pending", !.done = FALSE,
                                     !.footer = footer, !.stage = sg])
  <2> DEFINE x == [it EXCEPT !.status = "sent", !.summary = "pending", !.done = FALSE,
                             !.footer = footer, !.stage = sg]
  <2>1. /\ x.session = it.session /\ x.position = it.position /\ x.claimed = it.claimed
        /\ x.sent = it.sent /\ x.done = FALSE
        /\ x.status = "sent" /\ x.summary = "pending" /\ x.stage = sg
    BY ResolvedFields
  <2> HIDE DEF x
  <2>2. Proceeds(it, x)
    BY <1>5, <2>1 DEF Review, CompletionReviews
  <2> QED BY <2>2 DEF x
<1> HIDE DEF Proceeds, Awaiting
<1> QED BY <1>1, <1>2, <1>3, <1>4, <1>5

\* A request that replaces one item by what it proceeds to writes a good store.
LEMMA ReplaceGood ==
  ASSUME TypeOK, StoresAreOrderly, NEW i \in Ids, NEW it \in Item, Proceeds(mem[i], it),
         NEW trim, NEW f, Replace(i, it, trim, f)
  PROVE  \E next : Routine(next) /\ Write(next, f)
<1>1. PICK next : /\ \/ next = [mem EXCEPT ![i] = it]
                     \/ next \in Trimmings([mem EXCEPT ![i] = it], i)
                  /\ Request(next, {i}, f)
  BY DEF Replace
<1>2. Routine(next)
  BY <1>1, GoodChange
<1> QED BY <1>1, <1>2 DEF Request

\* Every request on an item but the requeue lets that item proceed.
LEMMA OperatorRequestGood ==
  ASSUME TypeOK, StoresAreOrderly, NEW i \in Ids, NEW f, OperatorRequest(i, f),
         ~\E j \in Ids : RequeueAfterReplacement(i, j, f)
  PROVE  \E next : Routine(next) /\ Write(next, f)
<1>0. mem[i] \in Item
  BY DEF TypeOK
<1> USE DEF Stages, Statuses, Summaries
<1>1. CASE Cancel(i, f)
  <2> DEFINE it == [mem[i] EXCEPT !.status = "canceled", !.summary = "unavailable"]
  <2>1. it \in Item
    BY <1>0, ResolvedType
  <2>2. mem[i].status = "queued" /\ Replace(i, it, TRUE, f)
    BY <1>1 DEF Cancel
  <2>3. Proceeds(mem[i], it)
    BY <1>0, <2>2, ResolvedProceeds
  <2> HIDE DEF it
  <2> QED BY <2>1, <2>2, <2>3, ReplaceGood
<1>2. CASE DismissLiteralReview(i, f)
  <2> DEFINE it == [mem[i] EXCEPT !.status = "canceled", !.summary = "unavailable",
                                  !.stage = "literal_review_dismissed"]
  <2>1. it \in Item
    BY <1>0, ResolvedType
  <2>2. mem[i].status = "needs_review" /\ Replace(i, it, TRUE, f)
    BY <1>2 DEF DismissLiteralReview
  <2>3. Proceeds(mem[i], it)
    BY <1>0, <2>2, ResolvedProceeds
  <2> HIDE DEF it
  <2> QED BY <2>1, <2>2, <2>3, ReplaceGood
<1>3. CASE WaitForManualSubmit(i, f)
  <2> DEFINE it == [mem[i] EXCEPT !.stage = "waiting_for_manual_submit"]
  <2>1. it \in Item
    BY <1>0, ResolvedType
  <2>2. /\ it.session = mem[i].session /\ it.position = mem[i].position
        /\ it.claimed = mem[i].claimed /\ it.sent = mem[i].sent /\ it.done = mem[i].done
        /\ it.status = mem[i].status /\ it.summary = mem[i].summary
        /\ it.stage = "waiting_for_manual_submit"
    BY <1>0, ResolvedFields
  <2>3. Review(mem[i], {"literal_confirmation"}) /\ Write([mem EXCEPT ![i] = it], f)
    BY <1>3 DEF WaitForManualSubmit
  <2> HIDE DEF it
  <2>4. Proceeds(mem[i], it)
    BY <2>2, <2>3 DEF Proceeds, Sound, ItemValid, Engaged, InFlight, Awaiting, Later, StageOf,
                      Review, CompletionReviews
  <2>5. Routine([mem EXCEPT ![i] = it])
    BY <2>1, <2>4, GoodChange
  <2> QED BY <2>3, <2>5
<1>4. CASE Retarget(i, f)
  <2> DEFINE it == [mem[i] EXCEPT !.target = live[mem[i].session].gen, !.stage = ""]
  <2>1. live[mem[i].session].gen \in Nat
    BY <1>0 DEF TypeOK, Item
  <2>2. /\ it \in Item
        /\ it.session = mem[i].session /\ it.position = mem[i].position
        /\ it.claimed = mem[i].claimed /\ it.sent = mem[i].sent /\ it.done = mem[i].done
        /\ it.status = mem[i].status /\ it.summary = mem[i].summary
    BY <1>0, <2>1 DEF Item
  <2>3. mem[i].status = "queued" /\ Replace(i, it, FALSE, f)
    BY <1>4 DEF Retarget
  <2> HIDE DEF it
  <2>4. Proceeds(mem[i], it)
    BY <2>2, <2>3 DEF Proceeds, Sound, ItemValid, Engaged, InFlight, Awaiting, Later, StageOf
  <2> QED BY <2>2, <2>3, <2>4, ReplaceGood
<1>5. CASE ReleaseAfterReview(i, f)
  <2>1. Captured(i, "completion_recovered") \in Item
    BY MonitoredType
  <2> DEFINE it == [mem[i] EXCEPT !.status = "sent", !.summary = "operator_released",
                                  !.done = TRUE, !.footer = FALSE,
                                  !.stage = "operator_released"]
  <2>2. it \in Item
    BY <1>0, ResolvedType
  <2>3. mem[i].status = "needs_review" /\ mem[i].stage \in CompletionReviews
    BY <1>5 DEF ReleaseAfterReview, CompletionReviews
  <2>4. Proceeds(mem[i], it)
    BY <1>0, <2>3, ResolvedProceeds
  <2>5. Proceeds(mem[i], Captured(i, "completion_recovered"))
    BY <1>0, <2>3, ResolvedProceeds DEF Captured
  <2>6. Replace(i, it, TRUE, f) \/ Replace(i, Captured(i, "completion_recovered"), TRUE, f)
    BY <1>5 DEF ReleaseAfterReview
  <2> HIDE DEF it
  <2> QED BY <2>1, <2>2, <2>4, <2>5, <2>6, ReplaceGood
<1>6. CASE ContinueMonitoring(i, f)
  <2>1. Monitored(i, "monitoring_after_review") \in Item
    BY MonitoredType
  <2>2. Proceeds(mem[i], Monitored(i, "monitoring_after_review"))
    BY <1>0, <1>6, ResolvedProceeds DEF ContinueMonitoring, Monitored
  <2>3. Replace(i, Monitored(i, "monitoring_after_review"), FALSE, f)
    BY <1>6 DEF ContinueMonitoring
  <2> QED BY <2>1, <2>2, <2>3, ReplaceGood
<1>7. CASE LinkAnswer(i, f)
  <2> DEFINE it == Monitored(i, "monitoring_after_response")
  <2>1. it \in Item
    BY MonitoredType
  <2>2. Proceeds(mem[i], it)
    BY <1>0, <1>7, ResolvedProceeds DEF LinkAnswer, Linkable, Monitored
  <2>3. Write([mem EXCEPT ![i] = it], f)
    BY <1>7 DEF LinkAnswer, Request
  <2> HIDE DEF it
  <2>4. Routine([mem EXCEPT ![i] = it])
    BY <2>1, <2>2, GoodChange
  <2> QED BY <2>3, <2>4
<1> QED BY <1>1, <1>2, <1>3, <1>4, <1>5, <1>6, <1>7 DEF OperatorRequest

\* Clearing history forgets final items.
LEMMA ClearHistoryGood ==
  ASSUME TypeOK, StoresAreOrderly, NEW f, ClearHistory(f)
  PROVE  \E next : Routine(next) /\ Write(next, f)
<1> DEFINE history == {i \in Ids : Final(mem[i])}
           next    == [i \in Ids |-> IF i \in history THEN Gone(mem[i]) ELSE mem[i]]
<1>1. next \in [Ids -> Item] /\ mem \in [Ids -> Item]
  BY GoneType DEF TypeOK
<1>2. \A i \in Ids : next[i] = mem[i] \/ Forgotten(mem[i], next[i])
  BY <1>1, GoneType DEF Forgotten
<1>3. Write(next, f)
  BY DEF ClearHistory, Request
<1> HIDE DEF next
<1>4. Orderly(next) /\ Bounded(next)
  BY <1>1, <1>2, OrderlyKept DEF StoresAreOrderly, Forgotten
<1>5. Routine(next)
  BY <1>1, <1>2, <1>4, NothingArrives DEF Routine, Good, ItemStep, Forgotten
<1> QED BY <1>3, <1>5

\* A new item is sound.
LEMMA NewItemSound ==
  ASSUME NEW s \in Sessions, NEW g \in Nat, NEW p \in Nat, NEW k \in AllKinds
  PROVE  LET new == NewItem(s, g, p, k)
         IN new.status = "queued" /\ new.position = p /\ Sound(new) /\ ~Final(new)
BY DEF NewItem, Sound, ItemValid, Final, Awaiting

\* A creation request lets items arrive at the end of their lines.
LEMMA CreateGood ==
  ASSUME TypeOK, UnusedIsBlank, StoresAreOrderly,
         NEW ss \in SUBSET Sessions, NEW id \in [ss -> Ids \ used],
         NEW target \in [ss -> Nat], NEW rank \in [ss -> Nat], NEW kind \in AllKinds, NEW f,
         ss # {}, \A s, t \in ss : s # t => id[s] # id[t] /\ rank[s] # rank[t],
         Create(ss, id, target, rank, kind, f)
  PROVE  \E next : Routine(next) /\ Write(next, f)
<1>1. PICK p \in 1 .. MaxPosition :
        /\ NextPosition(mem, p)
        /\ \E next \in Trimmings(Added(id, target, rank, kind, p), id[CHOOSE s \in ss : TRUE]) :
             Cardinality(Present(next)) <= MaxQueueItems /\ Write(next, f)
  BY DEF Create
<1>2. PICK next \in Trimmings(Added(id, target, rank, kind, p), id[CHOOSE s \in ss : TRUE]) :
        Cardinality(Present(next)) <= MaxQueueItems /\ Write(next, f)
  BY <1>1
<1> DEFINE added == Added(id, target, rank, kind, p)
           new   == {id[s] : s \in ss}
<1>3. added \in [Ids -> Item] /\ mem \in [Ids -> Item] /\ p \in Nat
  <2>1. id \in [ss -> Ids]
    OBVIOUS
  <2>2. added \in [Ids -> Item]
    BY <2>1, AddedType
  <2> QED BY <2>2, BoundsAssumption DEF TypeOK
<1>4. new \in SUBSET Ids /\ IsFiniteSet(new)
  <2>1. IsFiniteSet(ss)
    BY FS_Subset, SessionsAssumption
  <2>2. id \in Surjection(ss, new)
    BY DEF Surjection
  <2> HIDE DEF new
  <2>3. IsFiniteSet(new)
    BY <2>1, <2>2, FS_Surjection
  <2> QED BY <2>3 DEF new
<1>5. \A i \in Ids \ new : added[i] = mem[i]
  BY DEF Added
<1>6. \A s \in ss : added[id[s]] = NewItem(s, target[s], p + rank[s], kind)
  <2> SUFFICES ASSUME NEW s \in ss PROVE added[id[s]] = NewItem(s, target[s], p + rank[s], kind)
    OBVIOUS
  <2>1. (CHOOSE t \in ss : id[t] = id[s]) = s
    OBVIOUS
  <2> QED BY <2>1 DEF Added
<1>7. \A s \in ss : /\ added[id[s]].status = "queued" /\ added[id[s]].position = p + rank[s]
                    /\ Sound(added[id[s]]) /\ ~Final(added[id[s]])
  <2> SUFFICES ASSUME NEW s \in ss
               PROVE  /\ added[id[s]].status = "queued" /\ added[id[s]].position = p + rank[s]
                      /\ Sound(added[id[s]]) /\ ~Final(added[id[s]])
    OBVIOUS
  <2>1. s \in Sessions /\ target[s] \in Nat /\ p + rank[s] \in Nat
    BY <1>3
  <2>2. added[id[s]] = NewItem(s, target[s], p + rank[s], kind)
    BY <1>6
  <2> DEFINE n == NewItem(s, target[s], p + rank[s], kind)
  <2>3. n.status = "queued" /\ n.position = p + rank[s] /\ Sound(n) /\ ~Final(n)
    BY <2>1, NewItemSound
  <2> HIDE DEF added, n
  <2>4. added[id[s]] = n
    BY <2>2 DEF n
  <2> QED BY <2>3, <2>4
<1>8. \A i \in new : mem[i].status = "absent" /\ i \in Ids
  BY DEF UnusedIsBlank
<1>9. \A j \in Present(mem) : mem[j].position \in Nat /\ mem[j].position < p
  BY <1>1, <1>3 DEF NextPosition, Present, Item
<1> HIDE DEF added
<1>10. \A i \in new : /\ added[i].status = "queued" /\ Sound(added[i])
                      /\ \A j \in Present(mem) : mem[j].position < added[i].position
  BY <1>3, <1>7, <1>9
<1>11. \A i, j \in new : i # j => added[i].position # added[j].position
  BY <1>3, <1>7
<1>12. Orderly(added)
  BY <1>3, <1>4, <1>5, <1>8, <1>10, <1>11, OrderlyArrival DEF StoresAreOrderly
<1>13. id[CHOOSE s \in ss : TRUE] \in Ids
  OBVIOUS
<1>14. /\ next \in [Ids -> Item]
       /\ \A i \in Ids : next[i] = added[i] \/ Forgotten(added[i], next[i])
  BY <1>2, <1>3, <1>13, TrimmingsFinal DEF added
<1>15. Orderly(next)
  BY <1>3, <1>12, <1>14, OrderlyKept DEF Forgotten
<1>16. \A i \in Ids : ItemStep(mem[i], next[i])
  <2>1. ASSUME NEW i \in Ids \ new PROVE ItemStep(mem[i], next[i])
    BY <1>5, <1>14 DEF ItemStep
  <2>2. ASSUME NEW i \in new PROVE ItemStep(mem[i], next[i])
    BY <1>7, <1>8, <1>14 DEF ItemStep, Forgotten
  <2> QED BY <2>1, <2>2
<1>17. \A i \in Ids : next[i].status = "dispatching" => next[i] = mem[i]
  BY <1>5, <1>7, <1>14 DEF Forgotten
<1>18. ArrivesLast(next)
  <2>1. \A i \in Ids \ new : mem[i].status = "absent" => next[i].status = "absent"
    BY <1>5, <1>14 DEF Forgotten
  <2>2. \A i \in new : i \notin used
    OBVIOUS
  <2>3. \A i \in new : next[i].status # "absent" => next[i] = added[i]
    BY <1>8, <1>14 DEF Forgotten
  <2> HIDE DEF new
  <2> QED BY <1>4, <1>10, <2>1, <2>2, <2>3 DEF ArrivesLast
<1>19. Routine(next)
  BY <1>2, <1>14, <1>15, <1>16, <1>17, <1>18 DEF Routine, Good, Bounded
<1> QED BY <1>2, <1>19

\* So do the creation of one item and of a batch.
LEMMA CreateRequestGood ==
  ASSUME TypeOK, UnusedIsBlank, StoresAreOrderly, NEW f, CreateRequest(f)
  PROVE  \E next : Routine(next) /\ Write(next, f)
<1>1. ASSUME NEW s \in Sessions, NEW i \in Ids, NEW g \in 1 .. MaxGen, NEW k \in Kinds,
             CreateItem(s, i, g, k, f)
      PROVE  \E next : Routine(next) /\ Write(next, f)
  <2>1. i \in Ids \ used
    BY <1>1 DEF CreateItem
  <2>2. /\ [x \in {s} |-> i] \in [{s} -> Ids \ used] /\ [x \in {s} |-> 0] \in [{s} -> Nat]
        /\ {s} \in SUBSET Sessions /\ k \in AllKinds
    BY <2>1, KindsAssumption
  <2>3. [x \in {s} |-> g] \in [{s} -> Nat]
    BY BoundsAssumption
  <2>4. Create({s}, [x \in {s} |-> i], [x \in {s} |-> g], [x \in {s} |-> 0], k, f)
    BY <1>1 DEF CreateItem
  <2>5. {s} # {} /\ \A a, b \in {s} : a = b
    OBVIOUS
  <2> QED BY <2>2, <2>3, <2>4, <2>5, CreateGood
<1>2. ASSUME NEW ss \in SUBSET Sessions, NEW id \in [ss -> Ids \ used],
             NEW target \in [ss -> 1 .. MaxGen],
             NEW rank \in [ss -> 0 .. Cardinality(ss) - 1], NEW k \in Kinds,
             CreateBatch(ss, id, target, rank, k, f)
      PROVE  \E next : Routine(next) /\ Write(next, f)
  <2>1. target \in [ss -> Nat] /\ rank \in [ss -> Nat] /\ k \in AllKinds
    BY KindsAssumption
  <2>2. /\ Create(ss, id, target, rank, k, f)
        /\ \A s, t \in ss : s # t => id[s] # id[t] /\ rank[s] # rank[t]
        /\ Cardinality(ss) > 1
    BY <1>2 DEF CreateBatch
  <2>3. ss # {}
    BY <2>2, FS_EmptySet
  <2> QED BY <2>1, <2>2, <2>3, CreateGood
<1> QED BY <1>1, <1>2 DEF CreateRequest

\* The requeue lets the reviewed item proceed and a copy arrive.
LEMMA RequeueGood ==
  ASSUME TypeOK, UnusedIsBlank, StoresAreOrderly, NEW i \in Ids, NEW j \in Ids, NEW f,
         RequeueAfterReplacement(i, j, f)
  PROVE  \E next : /\ Routine(next) /\ Write(next, f)
                   /\ next[i].stage = "operator_requeued_after_replacement"
                   /\ \A k \in Ids \ {i} : mem[k].status = "needs_review" =>
                                             next[k] = mem[k]
<1>0. mem[i] \in Item /\ mem \in [Ids -> Item]
  BY DEF TypeOK
<1>1. PICK p \in 1 .. MaxPosition :
        /\ NextPosition(mem, p)
        /\ \E next \in Trimmings(
            [mem EXCEPT ![i].status = "sent", ![i].summary = "operator_released",
                        ![i].done = TRUE, ![i].footer = FALSE,
                        ![i].stage = "operator_requeued_after_replacement",
                        ![j] = NewItem(mem[i].session, live[mem[i].session].gen, p,
                                       mem[i].kind)], i) :
          Write(next, f)
  BY DEF RequeueAfterReplacement
<1>2. /\ j \notin used /\ mem[i].status = "needs_review" /\ mem[i].sent
      /\ Cardinality(Present(mem)) < MaxQueueItems
  BY DEF RequeueAfterReplacement, Review
<1>3. i # j /\ mem[j].status = "absent"
  BY <1>2 DEF UnusedIsBlank
<1> DEFINE archived == [mem[i] EXCEPT !.status = "sent", !.summary = "operator_released",
                                      !.done = TRUE, !.footer = FALSE,
                                      !.stage = "operator_requeued_after_replacement"]
           copy     == NewItem(mem[i].session, live[mem[i].session].gen, p, mem[i].kind)
           settled  == [mem EXCEPT ![i] = archived]
           changed  == [settled EXCEPT ![j] = copy]
<1>4. p \in Nat /\ mem[i].session \in Sessions /\ live[mem[i].session].gen \in Nat
      /\ mem[i].kind \in AllKinds
  <2>1. mem[i].session \in Sessions /\ mem[i].kind \in AllKinds
    BY <1>0 DEF Item
  <2> QED BY <2>1, BoundsAssumption DEF TypeOK
<1>5. /\ copy \in Item /\ copy.status = "queued" /\ copy.position = p
      /\ Sound(copy) /\ ~Final(copy)
  BY <1>4, NewItemType, NewItemSound
<1>6. /\ archived \in Item /\ archived.status = "sent"
      /\ archived.stage = "operator_requeued_after_replacement"
  <2>1. archived.stage = "operator_requeued_after_replacement" /\ archived.status = "sent"
    BY <1>0, ResolvedFields
  <2>2. archived \in Item
    BY <1>0, ResolvedType DEF Statuses, Summaries, Stages
  <2> QED BY <2>1, <2>2
<1>7. Proceeds(mem[i], archived)
  BY <1>0, <1>2, ResolvedProceeds DEF Stages
<1>8. PICK next \in Trimmings(changed, i) : Write(next, f)
  BY <1>1, <1>3 DEF copy, archived
<1> HIDE DEF archived, copy
<1>9. settled \in [Ids -> Item] /\ changed \in [Ids -> Item]
  BY <1>0, <1>5, <1>6
<1>10. \A k \in Ids : settled[k] = IF k = i THEN archived ELSE mem[k]
  BY <1>0
<1>11. \A k \in Ids : changed[k] = IF k = j THEN copy ELSE settled[k]
  BY <1>9
<1> HIDE DEF settled, changed
<1>12. Orderly(settled)
  BY <1>0, <1>7, <1>9, <1>10, OrderlyKept DEF StoresAreOrderly
<1>13. Present(settled) = Present(mem)
  BY <1>2, <1>6, <1>10 DEF Present
<1>14. \A k \in Present(settled) : settled[k].position < p
  BY <1>1, <1>7, <1>10, <1>13 DEF NextPosition, Proceeds, Present
<1>15. Orderly(changed) /\ Present(changed) = Present(mem) \cup {j}
  <2>1. IsFiniteSet({j})
    BY FS_Singleton
  <2>2. settled[j].status = "absent" /\ changed[j] = copy
    BY <1>3, <1>10, <1>11
  <2>3. \A k \in Ids \ {j} : changed[k] = settled[k]
    BY <1>11
  <2>4. \A k \in {j} : /\ settled[k].status = "absent"
                       /\ changed[k].status = "queued" /\ Sound(changed[k])
                       /\ \A m \in Present(settled) : settled[m].position < changed[k].position
    BY <1>5, <1>14, <2>2
  <2>5. \A k, m \in {j} : k # m => changed[k].position # changed[m].position
    OBVIOUS
  <2> QED BY <1>9, <1>12, <1>13, <2>1, <2>3, <2>4, <2>5, OrderlyArrival
<1>16. Bounded(changed)
  <2> DEFINE present == Present(mem)
  <2>1. IsFiniteSet(present) /\ Cardinality(present) < MaxQueueItems /\ j \notin present
    BY <1>2, <1>3 DEF StoresAreOrderly, Orderly, Present
  <2>2. Present(changed) = present \cup {j}
    BY <1>15
  <2> HIDE DEF present
  <2>3. Cardinality(present) \in Nat
    BY <2>1, FS_CardinalityType
  <2>4. Cardinality(present \cup {j}) = Cardinality(present) + 1
    BY <2>1, FS_AddElement
  <2> QED BY <2>1, <2>2, <2>3, <2>4, BoundsAssumption DEF Bounded
<1>17. /\ next \in [Ids -> Item] /\ next[i] = changed[i]
       /\ \A k \in Ids : next[k] = changed[k] \/ Forgotten(changed[k], next[k])
  BY <1>8, <1>9, TrimmingsFinal
<1>18. Orderly(next) /\ Bounded(next)
  BY <1>9, <1>15, <1>16, <1>17, OrderlyKept DEF Forgotten
<1>19. next[i] = archived
  BY <1>3, <1>10, <1>11, <1>17
<1>20. ASSUME NEW k \in Ids
       PROVE  /\ ItemStep(mem[k], next[k])
              /\ next[k].status = "dispatching" => next[k] = mem[k]
              /\ k # i /\ mem[k].status = "needs_review" => next[k] = mem[k]
  <2>1. CASE k = i
    BY <1>6, <1>7, <1>19, <2>1 DEF ItemStep
  <2>2. CASE k = j
    <3>1. next[k] = copy
      BY <1>5, <1>11, <1>17, <2>2 DEF Forgotten
    <3> QED BY <1>3, <1>5, <2>2, <3>1 DEF ItemStep
  <2>3. CASE k # i /\ k # j
    <3>1. changed[k] = mem[k]
      BY <1>10, <1>11, <2>3
    <3>2. next[k] = mem[k] \/ Forgotten(mem[k], next[k])
      BY <1>17, <3>1
    <3> QED BY <3>2 DEF ItemStep, Forgotten, Final
  <2> QED BY <2>1, <2>2, <2>3
<1>21. ArrivesLast(next)
  <2>1. \A k \in Ids \ {j} : mem[k].status = "absent" => next[k].status = "absent"
    BY <1>2, <1>10, <1>11, <1>17 DEF Forgotten
  <2>2. next[j] = copy
    BY <1>5, <1>11, <1>17 DEF Forgotten
  <2>3. \A k \in Present(mem) : mem[k].position < p
    BY <1>1 DEF NextPosition
  <2> QED BY <1>2, <1>5, <2>1, <2>2, <2>3 DEF ArrivesLast
<1>22. Routine(next)
  BY <1>17, <1>18, <1>20, <1>21 DEF Routine, Good
<1> QED BY <1>6, <1>8, <1>19, <1>20, <1>22

---------------------------------------------------------------------------
(* The cycle.                                                              *)

\* A verdict is about a prompt that awaits it, or a review it can resolve, and
\* one that resolves a review has just seen the prompt's own pane.
LEMMA VerdictFacts ==
  ASSUME NEW i, NEW sample, NEW elapsed, Candidate(mem[i])
  PROVE  LET v == Verdict(i, sample, elapsed)
         IN /\ v = "accepted" => AcceptanceReview(mem[i]) /\ Exact(i)
            /\ v \in {"captured", "returned"} =>
                 (Awaiting(mem[i]) \/ RecoverableReview(mem[i])) /\ Exact(i)
            /\ v \in CompletionReviews => Awaiting(mem[i])
<1> USE DEF Verdict, CompletionReviews, MissingStage
<1>1. Verdict(i, sample, elapsed) = "accepted" => AcceptanceReview(mem[i]) /\ Exact(i)
  BY DEF AcceptedNow, Visible
<1>2. Verdict(i, sample, elapsed) \in {"captured", "returned"} =>
        ~AcceptanceReview(mem[i]) /\ (StrictNow(i, sample) \/ ReturnNow(i, sample))
  OBVIOUS
<1>3. StrictNow(i, sample) \/ ReturnNow(i, sample) => Exact(i)
  BY DEF StrictNow, ReturnNow, Idling, Visible
<1>4. Verdict(i, sample, elapsed) \in CompletionReviews => Awaiting(mem[i])
  BY DEF MissingNow
<1> QED BY <1>1, <1>2, <1>3, <1>4 DEF Candidate

\* A late acceptance lets its review proceed.
LEMMA AcceptedProceeds ==
  ASSUME NEW it \in Item, AcceptanceReview(it), NEW sg \in Stages
  PROVE  Proceeds(it, [it EXCEPT !.status = "sent", !.summary = "pending", !.sent = TRUE,
                                 !.stage = sg])
<1> DEFINE x == [it EXCEPT !.status = "sent", !.summary = "pending", !.sent = TRUE, !.stage = sg]
<1>1. /\ x.session = it.session /\ x.position = it.position /\ x.claimed = it.claimed
      /\ x.sent = TRUE /\ x.done = it.done
      /\ x.status = "sent" /\ x.summary = "pending" /\ x.stage = sg
  BY DEF Item
<1> HIDE DEF x
<1>2. it.status = "needs_review" /\ it.stage \in {"confirmation", "waiting_for_manual_submit"}
  BY DEF AcceptanceReview, Review
<1>3. Proceeds(it, x)
  BY <1>1, <1>2 DEF Proceeds, Sound, ItemValid, Engaged, InFlight, Awaiting, Later, StageOf
<1> QED BY <1>3 DEF x

\* An item stays as it is under its verdict or proceeds.
LEMMA SettledProceeds ==
  ASSUME TypeOK, NEW i \in Ids, NEW sample, NEW elapsed
  PROVE  LET next == Settled(i, Verdicts(sample, elapsed)[i])
         IN /\ next \in Item
            /\ next = mem[i] \/ Proceeds(mem[i], next)
            /\ mem[i].status = "needs_review" => next = mem[i] \/ Exact(i)
<1> DEFINE it == mem[i]
           v == Verdicts(sample, elapsed)[i]
<1>0. it \in Item
  BY DEF TypeOK
<1>1. v \in VerdictNames
  BY VerdictType DEF Verdicts, VerdictNames
<1>2. v # "none" => Candidate(it) /\ v = Verdict(i, sample, elapsed)
  BY DEF Verdicts
<1>3. /\ v = "accepted" => AcceptanceReview(it) /\ Exact(i)
      /\ v \in {"captured", "returned"} =>
           (Awaiting(it) \/ RecoverableReview(it)) /\ Exact(i)
      /\ v \in CompletionReviews => Awaiting(it)
  BY <1>2, VerdictFacts DEF CompletionReviews
<1> HIDE DEF v
<1>4. Settled(i, v) \in Item
  BY <1>1, SettledType
<1>5. CASE v = "none"
  BY <1>4, <1>5 DEF Settled, v
<1>6. CASE v = "accepted"
  <2> DEFINE sg == IF it.stage = "waiting_for_manual_submit"
                   THEN "manual_submit_accepted" ELSE "accepted_late"
  <2>1. sg \in Stages
    BY DEF Stages
  <2>2. Settled(i, v) = [it EXCEPT !.status = "sent", !.summary = "pending", !.sent = TRUE,
                                   !.stage = sg]
    BY <1>6 DEF Settled
  <2> HIDE DEF sg, it
  <2>3. Proceeds(it, Settled(i, v))
    BY <1>0, <1>3, <1>6, <2>1, <2>2, AcceptedProceeds
  <2> QED BY <1>3, <1>4, <1>6, <2>3 DEF v, it
<1>7. CASE v = "captured"
  <2> DEFINE sg == IF RecoverableReview(it) THEN "completion_recovered"
                   ELSE IF turn[i] = "marker" THEN "return_marker_captured" ELSE it.stage
  <2>1. sg \in Stages
    BY <1>0 DEF Stages, Item
  <2>2. Settled(i, v) = [it EXCEPT !.status = "sent", !.summary = "captured", !.done = TRUE,
                                   !.footer = turn[i] # "marker", !.stage = sg]
    BY <1>7 DEF Settled, Captured
  <2>3. Awaiting(it) \/ (it.status = "needs_review" /\ it.stage \in CompletionReviews)
    BY <1>3, <1>7 DEF RecoverableReview, Review, CompletionReviews
  <2> DEFINE footer == turn[i] # "marker"
  <2> HIDE DEF sg, it, footer
  <2>4. Proceeds(it, [it EXCEPT !.status = "sent", !.summary = "captured", !.done = TRUE,
                                !.footer = footer, !.stage = sg])
    BY <1>0, <2>1, <2>3, ResolvedProceeds
  <2>5. Proceeds(it, Settled(i, v))
    BY <2>2, <2>4 DEF footer
  <2> QED BY <1>3, <1>4, <1>7, <2>5 DEF v, it
<1>8. CASE v = "returned"
  <2>1. "returned_to_ready" \in Stages
    BY DEF Stages
  <2>2. Settled(i, v) = [it EXCEPT !.status = "sent", !.summary = "returned", !.done = TRUE,
                                   !.footer = FALSE, !.stage = "returned_to_ready"]
    BY <1>8 DEF Settled
  <2>3. Awaiting(it) \/ (it.status = "needs_review" /\ it.stage \in CompletionReviews)
    BY <1>3, <1>8 DEF RecoverableReview, Review, CompletionReviews
  <2> HIDE DEF it
  <2>4. Proceeds(it, [it EXCEPT !.status = "sent", !.summary = "returned", !.done = TRUE,
                                !.footer = FALSE, !.stage = "returned_to_ready"])
    BY <1>0, <2>1, <2>3, ResolvedProceeds
  <2>5. Proceeds(it, Settled(i, v))
    BY <2>2, <2>4
  <2> QED BY <1>3, <1>4, <1>8, <2>5 DEF v, it
<1>9. CASE v \in CompletionReviews
  <2>1. v \in Stages /\ it.status = "sent"
    BY <1>3, <1>9 DEF Stages, Awaiting
  <2>2. Settled(i, v) = [it EXCEPT !.status = "needs_review", !.summary = "unavailable",
                                   !.done = FALSE, !.footer = FALSE, !.stage = v]
    BY <1>9 DEF Settled, CompletionReviews
  <2> HIDE DEF it
  <2>3. Proceeds(it, [it EXCEPT !.status = "needs_review", !.summary = "unavailable",
                                !.done = FALSE, !.footer = FALSE, !.stage = v])
    BY <1>0, <1>3, <1>9, <2>1, ResolvedProceeds
  <2>4. Proceeds(it, Settled(i, v))
    BY <2>2, <2>3
  <2> QED BY <1>4, <2>1, <2>4 DEF v, it
<1> QED BY <1>1, <1>5, <1>6, <1>7, <1>8, <1>9 DEF VerdictNames

\* The start of a cycle lets each item stay or proceed.
LEMMA BeginCycleGood ==
  ASSUME TypeOK, StoresAreOrderly, NEW elapsed, NEW f, BeginCycle(elapsed, f)
  PROVE  \E next : /\ Routine(next) /\ Write(next, f)
                   /\ IF f = "ok"
                      THEN proc' = [pc |-> "heads", todo |-> Heads(next), cur |-> {},
                                    out |-> "none", elapsed |-> elapsed]
                      ELSE proc' = Idle
                   /\ \A i \in Ids : mem[i].status = "needs_review" =>
                                       next[i] = mem[i] \/ Exact(i)
<1>1. PICK sample \in pend :
        LET verdicts == Verdicts(sample, elapsed)
            next     == [i \in Ids |-> Settled(i, verdicts[i])]
        IN /\ Write(next, f)
           /\ proc' = IF f = "ok"
                      THEN [pc |-> "heads", todo |-> Heads(next), cur |-> {},
                            out |-> "none", elapsed |-> elapsed]
                      ELSE Idle
  BY DEF BeginCycle
<1> DEFINE next == [i \in Ids |-> Settled(i, Verdicts(sample, elapsed)[i])]
<1>2. \A i \in Ids : /\ next[i] \in Item
                     /\ next[i] = mem[i] \/ Proceeds(mem[i], next[i])
                     /\ mem[i].status = "needs_review" => next[i] = mem[i] \/ Exact(i)
  BY SettledProceeds
<1>3. /\ Write(next, f)
      /\ proc' = IF f = "ok"
                 THEN [pc |-> "heads", todo |-> Heads(next), cur |-> {},
                       out |-> "none", elapsed |-> elapsed]
                 ELSE Idle
  BY <1>1
<1>4. next \in [Ids -> Item] /\ mem \in [Ids -> Item]
  BY <1>2 DEF TypeOK
<1> HIDE DEF next
<1>5. Orderly(next) /\ Bounded(next)
  BY <1>2, <1>4, OrderlyKept DEF StoresAreOrderly
<1>6. \A i \in Ids : next[i].status = "dispatching" => next[i] = mem[i]
  BY <1>2, <1>4, ProceedsFacts
<1>7. Routine(next)
  BY <1>2, <1>4, <1>5, <1>6, NothingArrives DEF Routine, Good, ItemStep
<1> QED BY <1>2, <1>3, <1>7

\* A recorded outcome lets its item proceed.
LEMMA DeliveredProceeds ==
  ASSUME TypeOK, NEW i \in Ids, mem[i].status = "dispatching",
         NEW outcome \in Outcomes \ {"none"}
  PROVE  Delivered(i, outcome) \in Item /\ Proceeds(mem[i], Delivered(i, outcome))
<1>0. mem[i] \in Item /\ Delivered(i, outcome) \in Item
  BY DeliveredType DEF TypeOK
<1> DEFINE x == Delivered(i, outcome)
<1>1. x.session = mem[i].session /\ x.position = mem[i].position /\ x.claimed = mem[i].claimed
      /\ x.done = mem[i].done
  BY <1>0 DEF Delivered, Item
<1>2. outcome \in DeliveryFailures => outcome \notin {"accepted", "submitted"}
  BY DEF DeliveryFailures, PreTypingStages, LiteralStages
<1>3. CASE outcome \in {"accepted", "submitted"}
  <2>1. x.status = "sent" /\ x.sent = TRUE /\ x.summary \in {"pending", "command_submitted"}
    BY <1>0, <1>3 DEF Delivered, Item
  <2> HIDE DEF x
  <2>2. Proceeds(mem[i], x)
    BY <1>1, <2>1 DEF Proceeds, Sound, ItemValid, Engaged, InFlight, Awaiting, Later, StageOf
  <2> QED BY <1>0, <2>2 DEF x
<1>4. CASE outcome \in DeliveryFailures
  <2>1. x.status = "needs_review" /\ x.summary = "unavailable" /\ x.stage = outcome
        /\ x.sent = mem[i].sent
    BY <1>0, <1>2, <1>4 DEF Delivered, Item
  <2>2. outcome \notin CompletionReviews
    BY <1>4 DEF DeliveryFailures, PreTypingStages, LiteralStages, CompletionReviews
  <2> HIDE DEF x
  <2>3. Proceeds(mem[i], x)
    BY <1>1, <2>1, <2>2
       DEF Proceeds, Sound, ItemValid, Engaged, InFlight, Awaiting, Later, StageOf
  <2> QED BY <1>0, <2>3 DEF x
<1> QED BY <1>3, <1>4 DEF Outcomes

\* The other writes of the cycle: a prompt that is too long, an outcome.
LEMMA CycleWriteGood ==
  ASSUME QueueInv, StoresAreOrderly, NEW i \in Ids, NEW f, HeadTooLong(i, f) \/ Record(i, f)
  PROVE  \E next : /\ Routine(next) /\ Write(next, f)
                   /\ Proceeds(mem[i], next[i])
                   /\ HeadTooLong(i, f) => ~Open(next[i])
                   /\ \A j \in Ids \ {i} :
                        next[j] = mem[j] \/ Forgotten(mem[j], next[j])
<1>0. TypeOK /\ mem[i] \in Item /\ mem \in [Ids -> Item]
  BY DEF QueueInv, TypeOK
<1>1. ASSUME NEW it \in Item, Proceeds(mem[i], it), HeadTooLong(i, f) => ~Open(it),
             NEW next \in Trimmings([mem EXCEPT ![i] = it], i), Write(next, f)
      PROVE  /\ Routine(next) /\ Write(next, f)
             /\ Proceeds(mem[i], next[i])
             /\ HeadTooLong(i, f) => ~Open(next[i])
             /\ \A j \in Ids \ {i} :
                  next[j] = mem[j] \/ Forgotten(mem[j], next[j])
  <2> DEFINE changed == [mem EXCEPT ![i] = it]
  <2>1. changed \in [Ids -> Item] /\ \A j \in Ids : changed[j] = IF j = i THEN it ELSE mem[j]
    BY <1>0
  <2> HIDE DEF changed
  <2>2. /\ next[i] = changed[i]
        /\ \A j \in Ids : next[j] = changed[j] \/ Forgotten(changed[j], next[j])
    BY <1>1, <2>1, TrimmingsFinal DEF changed
  <2>3. Routine(next)
    BY <1>0, <1>1, GoodChange
  <2> QED BY <1>1, <2>1, <2>2, <2>3
<1>2. CASE HeadTooLong(i, f)
  <2> DEFINE it == [mem[i] EXCEPT !.status = "canceled", !.summary = "unavailable",
                                  !.stage = "dispatch_envelope_too_long"]
  <2>1. it \in Item
    BY <1>0, ResolvedType DEF Statuses, Summaries, Stages
  <2>2. mem[i].status = "queued"
    BY <1>2 DEF HeadTooLong, Available
  <2>3. Proceeds(mem[i], it)
    BY <1>0, <2>2, ResolvedProceeds DEF Stages
  <2>4. PICK next \in Trimmings([mem EXCEPT ![i] = it], i) : Write(next, f)
    BY <1>0, <1>2 DEF HeadTooLong
  <2>5. it.status = "canceled"
    BY <1>0, ResolvedFields
  <2> HIDE DEF it
  <2>6. ~Open(it)
    BY <2>5 DEF Open, Awaiting
  <2> QED BY <1>1, <2>1, <2>3, <2>4, <2>6
<1>3. CASE Record(i, f) /\ ~HeadTooLong(i, f)
  <2> DEFINE it == Delivered(i, proc.out)
  <2>1. proc.out \in Outcomes \ {"none"} /\ mem[i].status = "dispatching"
    BY <1>3 DEF Record, At, QueueInv, OutcomeIsKnown, TypeOK, PhaseOfHead
  <2>2. it \in Item /\ Proceeds(mem[i], it)
    BY <1>0, <2>1, DeliveredProceeds
  <2>3. PICK next \in Trimmings([mem EXCEPT ![i] = it], i) : Write(next, f)
    BY <1>3 DEF Record
  <2> HIDE DEF it
  <2> QED BY <1>1, <1>3, <2>2, <2>3
<1> QED BY <1>2, <1>3

\* A claim writes a good store in which only the head has changed.
LEMMA ClaimGood ==
  ASSUME QueueInv, StoresAreOrderly, HeadsInHand, NEW i \in Ids, NEW f, Claim(i, f)
  PROVE  \E next : /\ Good(next) /\ Write(next, f)
                   /\ IsClaimed(mem[i], next[i]) /\ next[i] \in Item
                   /\ next[i].session = mem[i].session /\ next[i].position = mem[i].position
                   /\ \A j \in Ids \ {i} : next[j] = mem[j]
<1>0. TypeOK /\ mem[i] \in Item /\ mem \in [Ids -> Item]
  BY DEF QueueInv, TypeOK
<1> DEFINE it   == [mem[i] EXCEPT !.status = "dispatching", !.claimed = TRUE,
                                  !.stage = "dispatching"]
           next == [mem EXCEPT ![i] = it]
<1>1. /\ proc.pc = "claiming" /\ i \in proc.cur
      /\ Write(next, f)
  BY <1>0 DEF Claim
<1>2. mem[i].status = "queued" /\ IsHead(mem, i)
  BY <1>1 DEF QueueInv, PhaseOfHead, HeadsInHand
<1>3. it \in Item /\ it.session = mem[i].session /\ it.position = mem[i].position
  BY <1>0 DEF Item, Statuses, Stages
<1>4. IsClaimed(mem[i], it)
  BY <1>2 DEF IsClaimed
<1> HIDE DEF it
<1>5. Orderly(next) /\ Bounded(next)
  BY <1>0, <1>2, <1>3, <1>4, OrderlyClaim DEF StoresAreOrderly
<1>6. next \in [Ids -> Item] /\ next[i] = it /\ \A j \in Ids \ {i} : next[j] = mem[j]
  BY <1>0, <1>3
<1> HIDE DEF next
<1>7. Good(next)
  BY <1>4, <1>5, <1>6, NothingArrives DEF Good, ItemStep
<1> QED BY <1>1, <1>3, <1>4, <1>6, <1>7

---------------------------------------------------------------------------
(* The steps of the queue.                                                 *)

\* The heads, the dispatch and the reservations: the part of the invariant
\* that is about who works on what.
OwnersInv == HeadsInHand /\ NoOrphanedDispatch /\ ReservationsHaveOwners

\* A request is one write between two cycles.
LEMMA RequestFrame ==
  ASSUME NEW f, CreateRequest(f) \/ ClearHistory(f) \/ \E i \in Ids : OperatorRequest(i, f)
  PROVE  proc.pc = "idle" /\ UNCHANGED <<proc, reserved, sending, live, wire>>
<1> USE DEF paneVars, itemVars
<1>1. ASSUME NEW ss, NEW id, NEW target, NEW rank, NEW kind,
             Create(ss, id, target, rank, kind, f)
      PROVE  proc.pc = "idle" /\ UNCHANGED <<proc, reserved, sending, live, wire>>
  BY <1>1 DEF Create
<1>2. ASSUME NEW next, NEW cleared, Request(next, cleared, f)
      PROVE  proc.pc = "idle" /\ UNCHANGED <<proc, reserved, sending, live, wire>>
  BY <1>2 DEF Request
<1>3. CASE CreateRequest(f)
  BY <1>1, <1>3 DEF CreateRequest, CreateItem, CreateBatch
<1>4. CASE ClearHistory(f)
  BY <1>2, <1>4 DEF ClearHistory
<1>5. ASSUME NEW i \in Ids, OperatorRequest(i, f)
      PROVE  proc.pc = "idle" /\ UNCHANGED <<proc, reserved, sending, live, wire>>
  <2>1. ASSUME NEW it, NEW trim, Replace(i, it, trim, f)
        PROVE  \E next : Request(next, {i}, f)
    BY <2>1 DEF Replace
  <2>2. CASE WaitForManualSubmit(i, f) \/ \E j \in Ids : RequeueAfterReplacement(i, j, f)
    BY <2>2 DEF WaitForManualSubmit, RequeueAfterReplacement
  <2>3. CASE Cancel(i, f) \/ DismissLiteralReview(i, f) \/ Retarget(i, f)
    BY <1>2, <2>1, <2>3 DEF Cancel, DismissLiteralReview, Retarget
  <2>4. CASE ReleaseAfterReview(i, f) \/ ContinueMonitoring(i, f) \/ LinkAnswer(i, f)
    BY <1>2, <2>1, <2>4 DEF ReleaseAfterReview, ContinueMonitoring, LinkAnswer
  <2> QED BY <1>5, <2>2, <2>3, <2>4 DEF OperatorRequest
<1> QED BY <1>3, <1>4, <1>5

\* What it writes claims nothing.
LEMMA RequestGood ==
  ASSUME TypeOK, UnusedIsBlank, StoresAreOrderly, NEW f,
         CreateRequest(f) \/ ClearHistory(f) \/ \E i \in Ids : OperatorRequest(i, f)
  PROVE  \E next : Routine(next) /\ Write(next, f)
<1>1. ASSUME NEW i \in Ids, OperatorRequest(i, f)
      PROVE  \E next : Routine(next) /\ Write(next, f)
  BY <1>1, OperatorRequestGood, RequeueGood
<1> QED BY <1>1, CreateRequestGood, ClearHistoryGood

\* A write that did not fail replaced the memory and counted no failure.
LEMMA WriteFaults ==
  ASSUME TypeOK, NEW next, NEW f, Write(next, f)
  PROVE  /\ f = "ok" => mem' = next
         /\ f # "ok" => mem' = mem
         /\ spent'.faults = 0 => spent.faults = 0 /\ f = "ok"
<1>1. spent.faults \in Nat /\ spent \in [crashes : Nat, faults : Nat, inputs : Nat]
  BY DEF TypeOK
<1>2. CASE f = "ok"
  BY <1>2 DEF Write
<1>3. CASE f # "ok"
  <2>1. spent'.faults = spent.faults + 1
    BY <1>1, <1>3 DEF Write
  <2> QED BY <1>1, <1>3, <2>1 DEF Write
<1> QED BY <1>2, <1>3

\* A head stays one as long as it is open and what is open in its line was.
LEMMA HeadKept ==
  ASSUME NEW store, NEW next, NEW i \in Ids, IsHead(store, i),
         Open(next[i]),
         \A j \in Ids : Open(next[j]) => /\ Open(store[j])
                                         /\ next[j].session = store[j].session
                                         /\ next[j].position = store[j].position
  PROVE  IsHead(next, i)
BY DEF IsHead, Line

\* Requests leave the owners as they are.
LEMMA RequestOwners ==
  ASSUME LineInv, NEW f,
         CreateRequest(f) \/ ClearHistory(f) \/ \E i \in Ids : OperatorRequest(i, f)
  PROVE  OwnersInv'
<1>0. TypeOK /\ UnusedIsBlank /\ StoresAreOrderly
  BY DEF LineInv, QueueInv
<1>1. proc.pc = "idle" /\ UNCHANGED <<proc, reserved, sending>>
  BY RequestFrame
<1>2. PICK next : Routine(next) /\ Write(next, f)
  BY <1>0, RequestGood
<1>3. proc.cur = {} /\ proc.todo = {}
  BY <1>1 DEF LineInv, QueueInv, PhaseOfHead, HeadsInHand
<1>4. HeadsInHand'
  BY <1>1, <1>3 DEF HeadsInHand
<1>5. NoOrphanedDispatch'
  BY <1>0, <1>1, <1>2, WriteFaults DEF LineInv, NoOrphanedDispatch, Routine
<1>6. ReservationsHaveOwners'
  BY <1>1 DEF LineInv, ReservationsHaveOwners
<1> QED BY <1>4, <1>5, <1>6 DEF OwnersInv

\* So do terminals and manual input, which own their reservations.
LEMMA QuietOwners ==
  ASSUME LineInv, Terminal \/ TakeSample \/ EndCycle \/ UNCHANGED vars
  PROVE  UNCHANGED <<mem, disk, wire>> /\ OwnersInv'
<1> USE DEF storeVars, cycleVars, manualVars, paneVars, itemVars
<1>1. /\ UNCHANGED <<mem, disk, wire>>
      /\ proc' = proc \/ (proc' = Idle /\ proc.pc = "heads" /\ UNCHANGED <<reserved, sending>>)
      /\ spent'.faults = spent.faults
  <2>1. CASE \E s \in Sessions : (\E heads \in SUBSET Ids : ManualBegin(s, heads)) \/ Interrupt(s)
    <3>1. UNCHANGED <<mem, disk, wire, proc>> /\ spent' = [spent EXCEPT !.inputs = @ + 1]
      BY <2>1 DEF ManualBegin, Interrupt
    <3> QED BY <3>1 DEF LineInv, QueueInv, TypeOK
  <2>2. CASE Terminal /\ ~\E s \in Sessions : (\E heads \in SUBSET Ids : ManualBegin(s, heads))
                                              \/ Interrupt(s)
    BY <2>2 DEF Terminal, AgentMoves, DayPasses, RefuseAnswer, BusyChange, CodexExits,
                CodexResumed, PaneGone, PaneCreated, PaneChange, ManualEnd
  <2>3. CASE TakeSample
    BY <2>3 DEF TakeSample
  <2>4. CASE EndCycle
    BY <2>4 DEF EndCycle
  <2>5. CASE UNCHANGED vars
    BY <2>5 DEF vars
  <2> QED BY <2>1, <2>2, <2>3, <2>4, <2>5
<1>2. \/ UNCHANGED <<reserved, sending>>
      \/ \E s \in Sessions : reserved' = reserved \cup {s} /\ sending' = sending \cup {s}
      \/ \E s \in Sessions : reserved' = reserved \ {s} /\ sending' = sending \ {s}
  <2>1. CASE \E s \in Sessions : (\E heads \in SUBSET Ids : ManualBegin(s, heads))
                                 \/ \E ok \in BOOLEAN : ManualEnd(s, ok)
    BY <2>1 DEF ManualBegin, ManualEnd
  <2>2. CASE Terminal /\ ~\E s \in Sessions : (\E heads \in SUBSET Ids : ManualBegin(s, heads))
                                              \/ \E ok \in BOOLEAN : ManualEnd(s, ok)
    BY <2>2 DEF Terminal, AgentMoves, DayPasses, RefuseAnswer, BusyChange, CodexExits,
                CodexResumed, PaneGone, PaneCreated, PaneChange, Interrupt
  <2>3. CASE TakeSample
    BY <2>3 DEF TakeSample
  <2>4. CASE EndCycle
    BY <2>4 DEF EndCycle
  <2>5. CASE UNCHANGED vars
    BY <2>5 DEF vars
  <2> QED BY <2>1, <2>2, <2>3, <2>4, <2>5
<1>3. Idle.pc = "idle" /\ Idle.todo = {} /\ Idle.cur = {}
  BY DEF Idle
<1>4. HeadsInHand'
  BY <1>1, <1>3 DEF LineInv, HeadsInHand, IsHead, Line
<1>5. NoOrphanedDispatch'
  BY <1>1, <1>3 DEF LineInv, QueueInv, PhaseOfHead, NoOrphanedDispatch
<1>6. ReservationsHaveOwners'
  BY <1>1, <1>2, <1>3 DEF LineInv, ReservationsHaveOwners
<1> QED BY <1>1, <1>4, <1>5, <1>6 DEF OwnersInv

\* A cycle begins with the heads of the store it has just written.
LEMMA BeginCycleOwners ==
  ASSUME LineInv, NEW elapsed, NEW f, BeginCycle(elapsed, f)
  PROVE  OwnersInv'
<1>0. TypeOK /\ StoresAreOrderly
  BY DEF LineInv, QueueInv
<1>1. PICK next : /\ Routine(next) /\ Write(next, f)
                  /\ IF f = "ok"
                     THEN proc' = [pc |-> "heads", todo |-> Heads(next), cur |-> {},
                                   out |-> "none", elapsed |-> elapsed]
                     ELSE proc' = Idle
  BY <1>0, BeginCycleGood
<1>2. proc.pc = "idle" /\ proc.cur = {} /\ UNCHANGED <<reserved, sending>>
  BY DEF BeginCycle, LineInv, QueueInv, PhaseOfHead
<1>3. Idle.pc = "idle" /\ Idle.todo = {} /\ Idle.cur = {}
  BY DEF Idle
<1>4. HeadsInHand'
  <2>1. CASE f = "ok"
    <3>1. proc'.pc = "heads" /\ proc'.todo = Heads(next) /\ proc'.cur = {} /\ mem' = next
      BY <1>0, <1>1, <2>1, WriteFaults
    <3>2. \A i \in Heads(next) : IsHead(next, i)
      BY DEF Heads
    <3> QED BY <3>1, <3>2 DEF HeadsInHand, IsHead, Line
  <2>2. CASE f # "ok"
    BY <1>1, <1>3, <2>2 DEF HeadsInHand
  <2> QED BY <2>1, <2>2
<1>5. NoOrphanedDispatch'
  BY <1>0, <1>1, <1>2, WriteFaults DEF LineInv, NoOrphanedDispatch, Routine
<1>6. ReservationsHaveOwners'
  BY <1>2 DEF LineInv, ReservationsHaveOwners
<1> QED BY <1>4, <1>5, <1>6 DEF OwnersInv

\* A head is skipped, or taken to be claimed, without a write.
LEMMA HeadOwners ==
  ASSUME LineInv, NEW i \in Ids, HeadUnavailable(i) \/ HeadWaits(i) \/ HeadReady(i)
  PROVE  UNCHANGED <<mem, disk, wire>> /\ OwnersInv'
<1> USE DEF storeVars, manualVars, paneVars, itemVars
<1>1. /\ UNCHANGED <<mem, disk, wire, reserved, sending, spent>>
      /\ proc.pc = "heads" /\ i \in proc.todo
      /\ proc' = [proc EXCEPT !.todo = @ \ {i}]
         \/ proc' = [proc EXCEPT !.pc = "claiming", !.todo = @ \ {i}, !.cur = {i}]
  BY DEF HeadUnavailable, HeadWaits, HeadReady, Next1, Skip
<1>2. proc \in ProcType /\ proc.cur = {}
  BY <1>1 DEF LineInv, QueueInv, TypeOK, ProcType, PhaseOfHead
<1>3. /\ proc'.pc \in {"heads", "claiming"} /\ proc'.todo = proc.todo \ {i}
      /\ proc'.cur = {} \/ proc'.cur = {i}
  BY <1>1, <1>2 DEF ProcType
<1>4. HeadsInHand'
  BY <1>1, <1>3 DEF LineInv, HeadsInHand, IsHead, Line
<1>5. NoOrphanedDispatch'
  BY <1>1, <1>2 DEF LineInv, NoOrphanedDispatch
<1>6. ReservationsHaveOwners'
  BY <1>1 DEF LineInv, ReservationsHaveOwners
<1> QED BY <1>1, <1>4, <1>5, <1>6 DEF OwnersInv

\* After the other writes of the cycle the remaining heads are still heads.
LEMMA CycleWriteOwners ==
  ASSUME LineInv, NEW i \in Ids, NEW f, HeadTooLong(i, f) \/ Record(i, f)
  PROVE  OwnersInv'
<1>0. TypeOK /\ QueueInv /\ StoresAreOrderly /\ proc \in ProcType
  BY DEF LineInv, QueueInv, TypeOK, ProcType
<1>1. PICK next : /\ Routine(next) /\ Write(next, f)
                  /\ Proceeds(mem[i], next[i])
                  /\ HeadTooLong(i, f) => ~Open(next[i])
                  /\ \A j \in Ids \ {i} :
                       next[j] = mem[j] \/ Forgotten(mem[j], next[j])
  BY <1>0, CycleWriteGood
<1>2. Idle.pc = "idle" /\ Idle.todo = {} /\ Idle.cur = {}
  BY DEF Idle
<1>3. /\ UNCHANGED <<reserved, sending>>
      /\ proc.pc \in {"heads", "record"}
      /\ mem[i].status \in {"queued", "dispatching"}
      /\ f # "ok" => proc' = Idle
  BY <1>0 DEF HeadTooLong, Record, Next1, Available, At, QueueInv, PhaseOfHead
<1>4. f = "ok" => /\ proc'.pc = "heads" /\ proc'.cur = {} /\ proc'.todo \subseteq proc.todo
                  /\ i \notin proc'.todo
  <2>1. CASE HeadTooLong(i, f)
    BY <1>0, <2>1 DEF HeadTooLong, Next1, ProcType, QueueInv, PhaseOfHead
  <2>2. CASE Record(i, f)
    <3>1. i \in proc.cur /\ i \notin proc.todo
      BY <2>2 DEF Record, At, LineInv, HeadsInHand
    <3> QED BY <1>0, <2>2, <3>1 DEF Record, ProcType
  <2> QED BY <2>1, <2>2
<1>5. \A j \in Ids : Open(next[j]) => /\ Open(mem[j])
                                      /\ next[j].session = mem[j].session
                                      /\ next[j].position = mem[j].position
  <2>1. ASSUME NEW j \in Ids, Open(next[j]), j # i
        PROVE  next[j] = mem[j]
    BY <1>1, <2>1 DEF Open, Awaiting, Forgotten
  <2>2. Open(mem[i]) /\ next[i].session = mem[i].session /\ next[i].position = mem[i].position
    BY <1>1, <1>3 DEF Proceeds, Open
  <2> QED BY <2>1, <2>2
<1>6. HeadsInHand'
  <2>1. CASE f = "ok"
    <3>1. ASSUME NEW k \in proc'.todo
          PROVE  IsHead(next, k)
      <4>1. k \in Ids /\ k # i /\ IsHead(mem, k)
        BY <1>0, <1>4, <2>1, <3>1 DEF LineInv, HeadsInHand, ProcType
      <4>2. Open(next[k])
        BY <1>1, <4>1 DEF IsHead, Open, Final, Awaiting, Forgotten
      <4> QED BY <1>5, <4>1, <4>2, HeadKept
    <3>2. mem' = next
      BY <1>0, <1>1, <2>1, WriteFaults
    <3> QED BY <1>4, <2>1, <3>1, <3>2 DEF HeadsInHand, IsHead, Line
  <2>2. CASE f # "ok"
    BY <1>2, <1>3, <2>2 DEF HeadsInHand
  <2> QED BY <2>1, <2>2
<1>7. NoOrphanedDispatch'
  <2> SUFFICES ASSUME spent'.faults = 0, NEW j \in Ids, mem'[j].status = "dispatching"
               PROVE  FALSE
    BY DEF NoOrphanedDispatch
  <2>1. spent.faults = 0 /\ mem' = next
    BY <1>0, <1>1, WriteFaults
  <2>2. next[j] = mem[j] /\ next[j].status = "dispatching"
    BY <1>1, <2>1 DEF Routine
  <2>3. j \in proc.cur /\ proc.pc = "record"
    BY <1>3, <2>1, <2>2 DEF LineInv, NoOrphanedDispatch
  <2>4. j = i
    <3>1. i \in proc.cur
      BY <2>3 DEF HeadTooLong, Next1, Record, At
    <3> QED BY <1>0, <2>3, <3>1 DEF QueueInv, PhaseOfHead
  <2>5. next[i] \in Item /\ mem[i] \in Item
    BY <1>0, <1>1 DEF Routine, Good, TypeOK
  <2> QED BY <1>1, <2>2, <2>4, <2>5, ProceedsFacts
<1>8. ReservationsHaveOwners'
  BY <1>3 DEF LineInv, ReservationsHaveOwners
<1> QED BY <1>6, <1>7, <1>8 DEF OwnersInv

\* A claim reserves the session of the head it hands to the delivery.
LEMMA ClaimOwners ==
  ASSUME LineInv, NEW i \in Ids, NEW f, Claim(i, f)
  PROVE  OwnersInv'
<1>0. TypeOK /\ QueueInv /\ StoresAreOrderly /\ HeadsInHand /\ proc \in ProcType
  BY DEF LineInv, QueueInv, TypeOK, ProcType
<1>1. PICK next : /\ Good(next) /\ Write(next, f)
                  /\ IsClaimed(mem[i], next[i]) /\ next[i] \in Item
                  /\ next[i].session = mem[i].session /\ next[i].position = mem[i].position
                  /\ \A j \in Ids \ {i} : next[j] = mem[j]
  BY <1>0, ClaimGood
<1>2. /\ proc.pc = "claiming" /\ i \in proc.cur /\ UNCHANGED sending
      /\ reserved' = IF f = "ok" THEN reserved \cup {mem[i].session} ELSE reserved
      /\ proc' = IF f = "ok" THEN [proc EXCEPT !.pc = "preflight"] ELSE Idle
  BY DEF Claim
<1>3. \A j \in proc.cur : j = i
  BY <1>0, <1>2 DEF QueueInv, PhaseOfHead
<1>4. \A s \in reserved : s \in sending
  BY <1>2 DEF LineInv, ReservationsHaveOwners
<1>5. CASE f = "ok"
  <2>1. mem' = next /\ proc'.pc = "preflight" /\ proc'.cur = proc.cur /\ proc'.todo = proc.todo
    BY <1>0, <1>1, <1>2, <1>5, WriteFaults DEF ProcType
  <2>2. ASSUME NEW k \in proc.todo \cup proc.cur
        PROVE  IsHead(next, k)
    <3>1. k \in Ids /\ IsHead(mem, k)
      BY <1>0, <2>2 DEF HeadsInHand, ProcType
    <3>2. mem[i].status = "queued" /\ Open(mem[i])
      BY <1>1 DEF IsClaimed, Open
    <3>3. next[i].status = "dispatching" /\ Open(next[i])
      <4>1. mem[i] \in Item
        BY <1>0 DEF TypeOK
      <4> QED BY <1>1, <4>1 DEF IsClaimed, Open, Item
    <3>4. \A j \in Ids : Open(next[j]) => /\ Open(mem[j])
                                          /\ next[j].session = mem[j].session
                                          /\ next[j].position = mem[j].position
      BY <1>1, <3>2
    <3>5. Open(next[k])
      BY <1>1, <3>1, <3>3 DEF IsHead
    <3> QED BY <3>1, <3>4, <3>5, HeadKept
  <2>3. HeadsInHand'
    BY <1>0, <2>1, <2>2 DEF HeadsInHand, IsHead, Line
  <2>4. NoOrphanedDispatch'
    <3>1. spent'.faults = 0 => spent.faults = 0
      BY <1>0, <1>1, WriteFaults
    <3>2. spent.faults = 0 => \A j \in Ids : mem[j].status = "dispatching" => j = i
      BY <1>3 DEF LineInv, NoOrphanedDispatch
    <3> QED BY <1>1, <1>2, <2>1, <3>1, <3>2 DEF NoOrphanedDispatch
  <2>5. ReservationsHaveOwners'
    BY <1>1, <1>2, <1>4, <1>5, <2>1 DEF ReservationsHaveOwners
  <2> QED BY <2>3, <2>4, <2>5 DEF OwnersInv
<1>6. CASE f # "ok"
  <2>1. Idle.pc = "idle" /\ Idle.todo = {} /\ Idle.cur = {}
    BY DEF Idle
  <2>2. HeadsInHand'
    BY <1>2, <1>6, <2>1 DEF HeadsInHand
  <2>3. NoOrphanedDispatch'
    BY <1>0, <1>1, <1>6, WriteFaults DEF NoOrphanedDispatch
  <2>4. ReservationsHaveOwners'
    BY <1>2, <1>4, <1>6 DEF ReservationsHaveOwners
  <2> QED BY <2>2, <2>3, <2>4 DEF OwnersInv
<1> QED BY <1>5, <1>6

\* A delivery keeps its reservation until it has an outcome.
LEMMA DeliveryOwners ==
  ASSUME LineInv, NEW i \in Ids, DeliveryStep(i)
  PROVE  UNCHANGED <<mem, disk>> /\ OwnersInv'
<1>0. TypeOK /\ proc \in ProcType
  BY DEF LineInv, QueueInv, TypeOK, ProcType
<1>1. /\ UNCHANGED <<mem, disk, sending, spent>>
      /\ proc.pc \in {"preflight", "type", "render", "enter", "confirm"} /\ i \in proc.cur
      /\ \/ \E phase \in {"type", "render", "enter", "confirm"} : Advance(i, phase)
         \/ \E outcome \in Outcomes \ {"none"} : Finish(i, outcome)
  BY <1>0, DeliveryFrame DEF deliveryRest, storeVars
<1>2. /\ proc'.cur = proc.cur /\ proc'.todo = proc.todo /\ proc'.pc \notin {"idle", "heads"}
      /\ \/ UNCHANGED reserved /\ proc'.pc \in {"type", "render", "enter", "confirm"}
         \/ reserved' = reserved \ {mem[i].session}
  <2>1. CASE \E phase \in {"type", "render", "enter", "confirm"} : Advance(i, phase)
    BY <1>0, <2>1 DEF Advance, ProcType
  <2>2. CASE \E outcome \in Outcomes \ {"none"} : Finish(i, outcome)
    BY <1>0, <2>2 DEF Finish, ProcType
  <2> QED BY <1>1, <2>1, <2>2
<1>3. \A j \in proc.cur : j = i
  BY <1>1 DEF LineInv, QueueInv, PhaseOfHead
<1>4. HeadsInHand'
  BY <1>1, <1>2 DEF LineInv, HeadsInHand, IsHead, Line
<1>5. NoOrphanedDispatch'
  BY <1>1, <1>2 DEF LineInv, NoOrphanedDispatch
<1>6. ReservationsHaveOwners'
  BY <1>1, <1>2, <1>3 DEF LineInv, ReservationsHaveOwners
<1> QED BY <1>1, <1>4, <1>5, <1>6 DEF OwnersInv

\* A restart leaves nothing to own: it takes back every dispatch.
LEMMA RestartOwners ==
  ASSUME TypeOK, Restart
  PROVE  OwnersInv'
<1>1. /\ proc' = Idle /\ reserved' = {}
      /\ \A i \in Ids : mem'[i] = Reconciled(disk[i])
  BY DEF Restart
<1>2. Idle.pc = "idle" /\ Idle.todo = {} /\ Idle.cur = {}
  BY DEF Idle
<1>3. \A i \in Ids : mem'[i].status # "dispatching"
  <2> SUFFICES ASSUME NEW i \in Ids PROVE Reconciled(disk[i]).status # "dispatching"
    BY <1>1
  <2>1. disk[i] \in Item
    BY DEF TypeOK
  <2> QED BY <2>1 DEF Reconciled, Item
<1> QED BY <1>1, <1>2, <1>3 DEF OwnersInv, HeadsInHand, NoOrphanedDispatch, ReservationsHaveOwners

---------------------------------------------------------------------------
(* The invariant.                                                          *)

\* Reconciling on start lets an item stay or proceed.
LEMMA ReconciledProceeds ==
  ASSUME NEW it \in Item
  PROVE  /\ Reconciled(it) \in Item
         /\ \/ Reconciled(it) = it \/ Proceeds(it, Reconciled(it))
            \/ Reopens(it, Reconciled(it))
         /\ Reconciled(it) = it \/ Reconciled(it).status = "needs_review"
         /\ Reconciled(it).status # "dispatching"
<1> DEFINE x == Reconciled(it)
<1>0. x \in Item
  BY ReconciledType
<1>1. CASE it.status = "dispatching"
  <2>1. /\ x.session = it.session /\ x.position = it.position /\ x.claimed = it.claimed
        /\ x.sent = it.sent /\ x.done = it.done
        /\ x.status = "needs_review" /\ x.summary = "unavailable"
        /\ x.stage = "restart_reconciliation"
    BY <1>1 DEF Reconciled, Item
  <2> HIDE DEF x
  <2>2. Proceeds(it, x)
    BY <1>1, <2>1 DEF Proceeds, Sound, ItemValid, Engaged, InFlight, Awaiting, Later, StageOf,
                      CompletionReviews
  <2> QED BY <1>0, <2>1, <2>2 DEF x
<1>2. CASE it.status = "sent" /\ it.summary = "captured" /\ ~it.footer
  <2>1. /\ x.session = it.session /\ x.position = it.position /\ x.claimed = it.claimed
        /\ x.sent = it.sent /\ x.done = FALSE
        /\ x.status = "needs_review" /\ x.summary = "unavailable"
        /\ x.stage = "final_boundary_missing"
    BY <1>2 DEF Reconciled, Item
  <2> HIDE DEF x
  <2>2. Reopens(it, x)
    BY <1>2, <2>1 DEF Reopens, Sound, ItemValid, Engaged, InFlight, Awaiting, StageOf,
                      CompletionReviews
  <2> QED BY <1>0, <2>1, <2>2 DEF x
<1>3. CASE ~(it.status = "dispatching")
           /\ ~(it.status = "sent" /\ it.summary = "captured" /\ ~it.footer)
  BY <1>0, <1>3 DEF Reconciled
<1> QED BY <1>1, <1>2, <1>3

\* A restart leaves both copies equal, orderly and without a dispatch.
LEMMA RestartStores ==
  ASSUME TypeOK, StoresAreOrderly, Restart
  PROVE  StoresAreOrderly'
<1> DEFINE next == [i \in Ids |-> Reconciled(disk[i])]
<1>1. mem' = next /\ disk' = next
  BY DEF Restart
<1>2. /\ disk \in [Ids -> Item] /\ next \in [Ids -> Item]
      /\ \A i \in Ids : \/ next[i] = disk[i] \/ Proceeds(disk[i], next[i])
                        \/ Reopens(disk[i], next[i])
  BY ReconciledProceeds DEF TypeOK
<1> HIDE DEF next
<1>3. Orderly(next) /\ Bounded(next)
  BY <1>2, OrderlyKept DEF StoresAreOrderly
<1>4. FileFollows'
  BY <1>1 DEF FileFollows, ItemStep
<1> QED BY <1>1, <1>3, <1>4 DEF StoresAreOrderly, Orderly, Bounded, Present

\* Every step but a restart takes each item of the memory one step further at
\* most, and only a claim gives a dispatch.
LEMMA StoreStep ==
  ASSUME LineInv, [Next]_vars, ~Restart
  PROVE  /\ StoresAreOrderly'
         /\ \A i \in Ids : ItemStep(mem[i], mem'[i])
         /\ ArrivesLast(mem')
         /\ mem' = mem \/ wire' = wire
         /\ \/ \E i \in Ids, f \in Faults : Claim(i, f)
            \/ \A i \in Ids : mem'[i].status = "dispatching" => mem'[i] = mem[i]
<1>0. TypeOK /\ UnusedIsBlank /\ QueueInv /\ StoresAreOrderly /\ HeadsInHand
  BY DEF LineInv, QueueInv
<1>1. ASSUME NEW next, NEW f, Routine(next), Write(next, f)
      PROVE  /\ StoresAreOrderly'
             /\ \A i \in Ids : ItemStep(mem[i], mem'[i])
             /\ ArrivesLast(mem')
             /\ \A i \in Ids : mem'[i].status = "dispatching" => mem'[i] = mem[i]
  <2>1. StoresAreOrderly' /\ \A i \in Ids : ItemStep(mem[i], mem'[i])
    BY <1>0, <1>1, GoodWrite DEF Routine
  <2>2. mem' = mem \/ mem' = next
    BY <1>1 DEF Write
  <2> QED BY <1>1, <2>1, <2>2 DEF Routine, Good, ArrivesLast
<1>2. ASSUME UNCHANGED <<mem, disk>>
      PROVE  /\ StoresAreOrderly'
             /\ \A i \in Ids : ItemStep(mem[i], mem'[i])
             /\ ArrivesLast(mem')
             /\ \A i \in Ids : mem'[i].status = "dispatching" => mem'[i] = mem[i]
  BY <1>0, <1>2 DEF StoresAreOrderly, FileFollows, Orderly, Bounded, Present, ItemStep,
                    ArrivesLast
<1>3. ASSUME NEW f \in Faults,
             CreateRequest(f) \/ ClearHistory(f) \/ \E i \in Ids : OperatorRequest(i, f)
      PROVE  wire' = wire /\ \E next : Routine(next) /\ Write(next, f)
  BY <1>0, <1>3, RequestFrame, RequestGood
<1>4. ASSUME Terminal \/ TakeSample \/ EndCycle \/ UNCHANGED vars
      PROVE  UNCHANGED <<mem, disk>>
  BY <1>4, QuietOwners
<1>5. ASSUME NEW elapsed \in BOOLEAN, NEW f \in Faults, BeginCycle(elapsed, f)
      PROVE  wire' = wire /\ \E next : Routine(next) /\ Write(next, f)
  BY <1>0, <1>5, BeginCycleGood DEF BeginCycle
<1>6. ASSUME NEW i \in Ids,
             HeadUnavailable(i) \/ HeadWaits(i) \/ HeadReady(i) \/ DeliveryStep(i)
      PROVE  UNCHANGED <<mem, disk>>
  BY <1>6, HeadOwners, DeliveryOwners
<1>7. ASSUME NEW i \in Ids, NEW f \in Faults, HeadTooLong(i, f) \/ Record(i, f)
      PROVE  wire' = wire /\ \E next : Routine(next) /\ Write(next, f)
  <2>1. wire' = wire
    BY <1>7 DEF HeadTooLong, Record, itemVars
  <2> QED BY <1>0, <1>7, <2>1, CycleWriteGood
<1>8. ASSUME NEW i \in Ids, NEW f \in Faults, Claim(i, f)
      PROVE  /\ StoresAreOrderly' /\ wire' = wire
             /\ \A j \in Ids : ItemStep(mem[j], mem'[j])
             /\ ArrivesLast(mem')
  <2>1. PICK next : Good(next) /\ Write(next, f)
    BY <1>0, <1>8, ClaimGood
  <2>2. mem' = mem \/ mem' = next
    BY <2>1 DEF Write
  <2>3. ArrivesLast(mem')
    BY <2>1, <2>2 DEF Good, ArrivesLast
  <2> QED BY <1>0, <1>8, <2>1, <2>3, GoodWrite DEF Claim
<1> QED BY <1>1, <1>2, <1>3, <1>4, <1>5, <1>6, <1>7, <1>8 DEF Next, CycleStep

\* The invariant holds at the start.
LEMMA LineInit == Init => LineInv
<1> SUFFICES ASSUME Init PROVE LineInv
  OBVIOUS
<1>1. QueueInv
  BY InvInit
<1>2. Blank \in Item /\ Blank.status = "absent"
  <2>1. NewItem(CHOOSE s \in Sessions : TRUE, 0, 0, "prompt") \in Item
    BY SessionsAssumption, NewItemType DEF AllKinds
  <2> QED BY <2>1, GoneType DEF Blank
<1> DEFINE empty == [i \in Ids |-> Blank]
<1>3. mem = empty /\ disk = empty
  BY DEF Init
<1>4. Present(empty) = {}
  BY <1>2 DEF Present
<1>5. IsFiniteSet({}) /\ Cardinality({}) = 0
  BY FS_EmptySet
<1>6. \A i \in Ids : Sound(empty[i]) /\ ~Engaged(empty[i])
  BY <1>2, AbsentIsSound
<1> HIDE DEF empty
<1>7. Orderly(empty)
  BY <1>4, <1>5, <1>6 DEF Orderly
<1>8. Bounded(empty)
  BY <1>4, <1>5, BoundsAssumption DEF Bounded
<1>9. StoresAreOrderly
  BY <1>3, <1>7, <1>8 DEF StoresAreOrderly, FileFollows, ItemStep
<1>10. HeadsInHand /\ NoOrphanedDispatch /\ ReservationsHaveOwners
  BY <1>2 DEF Init, Idle, HeadsInHand, NoOrphanedDispatch, ReservationsHaveOwners
<1> QED BY <1>1, <1>9, <1>10 DEF LineInv

\* Every step preserves it.
LEMMA LineStep == LineInv /\ [Next]_vars => LineInv'
<1> SUFFICES ASSUME LineInv, [Next]_vars PROVE LineInv'
  OBVIOUS
<1>1. QueueInv'
  BY InvStep DEF LineInv
<1>2. StoresAreOrderly'
  BY StoreStep, RestartStores DEF LineInv, QueueInv
<1>3. OwnersInv'
  <2>1. CASE \E f \in Faults : CreateRequest(f) \/ ClearHistory(f)
    BY <2>1, RequestOwners
  <2>2. CASE \E i \in Ids, f \in Faults : OperatorRequest(i, f)
    BY <2>2, RequestOwners
  <2>3. CASE Terminal \/ TakeSample \/ EndCycle \/ UNCHANGED vars
    BY <2>3, QuietOwners
  <2>4. CASE \E elapsed \in BOOLEAN, f \in Faults : BeginCycle(elapsed, f)
    BY <2>4, BeginCycleOwners
  <2>5. CASE \E i \in Ids : CycleStep(i) \/ DeliveryStep(i)
    BY <2>5, HeadOwners, CycleWriteOwners, ClaimOwners, DeliveryOwners DEF CycleStep
  <2>6. CASE Restart
    BY <2>6, RestartOwners DEF LineInv, QueueInv
  <2> QED BY <2>1, <2>2, <2>3, <2>4, <2>5, <2>6 DEF Next
<1> QED BY <1>1, <1>2, <1>3 DEF LineInv, OwnersInv

\* The queue always satisfies the invariant.
THEOREM LineInvariant == Spec => []LineInv
BY LineInit, LineStep, PTL DEF Spec

---------------------------------------------------------------------------
(* What it says.                                                           *)

\* validatePromptQueueStore accepts the memory and the file at all times,
\* deliverTextToAgent never works on two prompts of a line, and a prompt that is
\* dispatching is the one the cycle in progress claimed.
THEOREM QueueIsSoundHolds == Spec => []QueueIsSound
<1>1. LineInv => StoreIsValid
  BY DEF LineInv, StoresAreOrderly, Orderly, Sound, Bounded, StoreIsValid
<1>2. LineInv => OneInFlight
  BY DEF LineInv, StoresAreOrderly, Orderly, Engaged, OneInFlight
<1>3. LineInv => QueueIsSound
  BY <1>1, <1>2 DEF LineInv, QueueIsSound
<1> QED BY <1>3, LineInvariant, PTL

\* promptQueueDispatchReservations names a session only while a delivery that
\* will remove it again is under way.
THEOREM ReservationsHaveOwnersHolds == Spec => []ReservationsHaveOwners
<1>1. LineInv => ReservationsHaveOwners
  BY DEF LineInv
<1> QED BY <1>1, LineInvariant, PTL

---------------------------------------------------------------------------
(* Reviews.                                                                *)

\* A review that the step resolves has its own pane before it.
Unresolved(i, next) ==
  \/ next[i] = mem[i]
  \/ next[i].status = "absent"
  \/ next[i].stage = "operator_requeued_after_replacement"
  \/ mem[i].status # "needs_review"
  \/ mem[i].target = live[mem[i].session].gen

\* If every item of what is written is so, the step is.
LEMMA UnresolvedStep ==
  ASSUME NEW next, NEW f, Write(next, f), \A i \in Ids : Unresolved(i, next)
  PROVE  OnOwnPane
<1>1. mem' = mem \/ mem' = next
  BY DEF Write
<1> QED BY <1>1 DEF OnOwnPane, Unresolved

\* A request on an item changes no other, and a review only on its own pane.
LEMMA RequestOnOwnPane ==
  ASSUME TypeOK, NEW i \in Ids, NEW f, OperatorRequest(i, f),
         ~\E j \in Ids : RequeueAfterReplacement(i, j, f)
  PROVE  OnOwnPane
<1>0. mem[i] \in Item /\ mem \in [Ids -> Item]
  BY DEF TypeOK
<1>1. mem[i].status = "needs_review" => mem[i].target = live[mem[i].session].gen
  <2>1. CASE Cancel(i, f) \/ Retarget(i, f)
    BY <2>1 DEF Cancel, Retarget
  <2>2. CASE DismissLiteralReview(i, f) \/ WaitForManualSubmit(i, f)
    BY <2>2 DEF DismissLiteralReview, WaitForManualSubmit, Exact
  <2>3. CASE ReleaseAfterReview(i, f) \/ ContinueMonitoring(i, f) \/ LinkAnswer(i, f)
    BY <2>3 DEF ReleaseAfterReview, ContinueMonitoring, LinkAnswer, Exact
  <2> QED BY <2>1, <2>2, <2>3 DEF OperatorRequest
<1>2. ASSUME NEW it \in Item, NEW trim, Replace(i, it, trim, f)
      PROVE  OnOwnPane
  <2> DEFINE changed == [mem EXCEPT ![i] = it]
  <2>1. changed \in [Ids -> Item] /\ \A j \in Ids \ {i} : changed[j] = mem[j]
    BY <1>0, <1>2
  <2>2. PICK next : /\ next = changed \/ next \in Trimmings(changed, i)
                    /\ Write(next, f)
    BY <1>2 DEF Replace, Request
  <2> HIDE DEF changed
  <2>3. \A j \in Ids : next[j] = changed[j] \/ next[j].status = "absent"
    BY <2>1, <2>2, TrimmingsFinal DEF Forgotten
  <2>4. \A j \in Ids : Unresolved(j, next)
    BY <1>1, <2>1, <2>3 DEF Unresolved
  <2> QED BY <2>2, <2>4, UnresolvedStep
<1>3. ASSUME NEW it, Write([mem EXCEPT ![i] = it], f)
      PROVE  OnOwnPane
  <2>1. \A j \in Ids \ {i} : [mem EXCEPT ![i] = it][j] = mem[j]
    BY <1>0
  <2>2. \A j \in Ids : Unresolved(j, [mem EXCEPT ![i] = it])
    BY <1>1, <2>1 DEF Unresolved
  <2> QED BY <1>3, <2>2, UnresolvedStep
<1> USE DEF Statuses, Summaries, Stages
<1>4. CASE Cancel(i, f)
  <2>1. [mem[i] EXCEPT !.status = "canceled", !.summary = "unavailable"] \in Item
    BY <1>0, ResolvedType
  <2> QED BY <1>2, <1>4, <2>1 DEF Cancel
<1>5. CASE DismissLiteralReview(i, f)
  <2>1. [mem[i] EXCEPT !.status = "canceled", !.summary = "unavailable",
                       !.stage = "literal_review_dismissed"] \in Item
    BY <1>0, ResolvedType
  <2> QED BY <1>2, <1>5, <2>1 DEF DismissLiteralReview
<1>6. CASE WaitForManualSubmit(i, f)
  <2>1. Write([mem EXCEPT ![i] = [mem[i] EXCEPT !.stage = "waiting_for_manual_submit"]], f)
    BY <1>6 DEF WaitForManualSubmit
  <2> QED BY <1>3, <2>1
<1>7. CASE Retarget(i, f)
  <2>1. live[mem[i].session].gen \in Nat
    BY <1>0 DEF TypeOK, Item
  <2>2. [mem[i] EXCEPT !.target = live[mem[i].session].gen, !.stage = ""] \in Item
    BY <1>0, <2>1 DEF Item
  <2> QED BY <1>2, <1>7, <2>2 DEF Retarget
<1>8. CASE ReleaseAfterReview(i, f)
  <2>1. [mem[i] EXCEPT !.status = "sent", !.summary = "operator_released", !.done = TRUE,
                       !.footer = FALSE, !.stage = "operator_released"] \in Item
    BY <1>0, ResolvedType
  <2>2. Captured(i, "completion_recovered") \in Item
    BY MonitoredType
  <2> QED BY <1>2, <1>8, <2>1, <2>2 DEF ReleaseAfterReview
<1>9. CASE ContinueMonitoring(i, f)
  <2>1. Monitored(i, "monitoring_after_review") \in Item
    BY MonitoredType
  <2> QED BY <1>2, <1>9, <2>1 DEF ContinueMonitoring
<1>10. CASE LinkAnswer(i, f)
  <2>1. Write([mem EXCEPT ![i] = Monitored(i, "monitoring_after_response")], f)
    BY <1>10 DEF LinkAnswer, Request
  <2> QED BY <1>3, <2>1
<1> QED BY <1>4, <1>5, <1>6, <1>7, <1>8, <1>9, <1>10 DEF OperatorRequest

\* Creations and the clearing of history leave reviews alone.
LEMMA OthersOnOwnPane ==
  ASSUME TypeOK, UnusedIsBlank, NEW f, CreateRequest(f) \/ ClearHistory(f)
  PROVE  OnOwnPane
<1>1. ASSUME NEW ss \in SUBSET Sessions, NEW id \in [ss -> Ids \ used],
             NEW target \in [ss -> Nat], NEW rank \in [ss -> Nat], NEW kind \in AllKinds,
             Create(ss, id, target, rank, kind, f)
      PROVE  OnOwnPane
  <2>1. PICK p \in 1 .. MaxPosition :
          \E next \in Trimmings(Added(id, target, rank, kind, p), id[CHOOSE s \in ss : TRUE]) :
            Write(next, f)
    BY <1>1 DEF Create
  <2> DEFINE added == Added(id, target, rank, kind, p)
  <2>2. PICK next \in Trimmings(added, id[CHOOSE s \in ss : TRUE]) : Write(next, f)
    BY <2>1
  <2>3. id \in [ss -> Ids]
    OBVIOUS
  <2>4. added \in [Ids -> Item]
    BY <2>3, AddedType
  <2>5. \A i \in Ids : added[i] = mem[i] \/ i \notin used
    BY DEF Added
  <2> HIDE DEF added
  <2>6. \A i \in Ids : next[i] = added[i] \/ next[i].status = "absent"
    BY <2>2, <2>4, TrimmingsType
  <2>7. \A i \in Ids : Unresolved(i, next)
    BY <2>5, <2>6 DEF Unresolved, UnusedIsBlank
  <2> QED BY <2>2, <2>7, UnresolvedStep
<1>2. ASSUME NEW s \in Sessions, NEW i \in Ids, NEW g \in 1 .. MaxGen, NEW k \in Kinds,
             CreateItem(s, i, g, k, f)
      PROVE  OnOwnPane
  <2>1. i \in Ids \ used
    BY <1>2 DEF CreateItem
  <2>2. /\ [x \in {s} |-> i] \in [{s} -> Ids \ used] /\ [x \in {s} |-> 0] \in [{s} -> Nat]
        /\ {s} \in SUBSET Sessions /\ k \in AllKinds
    BY <2>1, KindsAssumption
  <2>3. [x \in {s} |-> g] \in [{s} -> Nat]
    BY BoundsAssumption
  <2>4. Create({s}, [x \in {s} |-> i], [x \in {s} |-> g], [x \in {s} |-> 0], k, f)
    BY <1>2 DEF CreateItem
  <2> QED BY <1>1, <2>2, <2>3, <2>4
<1>3. ASSUME NEW ss \in SUBSET Sessions, NEW id \in [ss -> Ids \ used],
             NEW target \in [ss -> 1 .. MaxGen],
             NEW rank \in [ss -> 0 .. Cardinality(ss) - 1], NEW k \in Kinds,
             CreateBatch(ss, id, target, rank, k, f)
      PROVE  OnOwnPane
  <2>1. target \in [ss -> Nat] /\ rank \in [ss -> Nat] /\ k \in AllKinds
    BY KindsAssumption
  <2>2. Create(ss, id, target, rank, k, f)
    BY <1>3 DEF CreateBatch
  <2> QED BY <1>1, <2>1, <2>2
<1>4. CASE ClearHistory(f)
  <2> DEFINE history == {i \in Ids : Final(mem[i])}
             next    == [i \in Ids |-> IF i \in history THEN Gone(mem[i]) ELSE mem[i]]
  <2>1. Write(next, f)
    BY <1>4 DEF ClearHistory, Request
  <2>2. \A i \in Ids : next[i] = mem[i] \/ next[i].status = "absent"
    BY GoneType DEF TypeOK
  <2>3. \A i \in Ids : Unresolved(i, next)
    BY <2>2 DEF Unresolved
  <2> HIDE DEF next
  <2> QED BY <2>1, <2>3, UnresolvedStep
<1> QED BY <1>2, <1>3, <1>4 DEF CreateRequest

\* So is every step but a restart.
LEMMA OnOwnPaneStep ==
  ASSUME LineInv, [Next]_vars, ~Restart
  PROVE  OnOwnPane
<1>0. TypeOK /\ UnusedIsBlank /\ QueueInv /\ StoresAreOrderly /\ HeadsInHand
  BY DEF LineInv, QueueInv
<1>1. ASSUME UNCHANGED mem
      PROVE  OnOwnPane
  BY <1>1 DEF OnOwnPane
<1>2. ASSUME NEW i \in Ids, NEW f \in Faults, OperatorRequest(i, f)
      PROVE  OnOwnPane
  <2>1. CASE \E j \in Ids : RequeueAfterReplacement(i, j, f)
    <3>1. PICK next : /\ Write(next, f)
                      /\ next[i].stage = "operator_requeued_after_replacement"
                      /\ \A k \in Ids \ {i} : mem[k].status = "needs_review" =>
                                                next[k] = mem[k]
      BY <1>0, <2>1, RequeueGood
    <3>2. \A k \in Ids : Unresolved(k, next)
      BY <3>1 DEF Unresolved
    <3> QED BY <3>1, <3>2, UnresolvedStep
  <2> QED BY <1>0, <1>2, <2>1, RequestOnOwnPane
<1>3. ASSUME NEW elapsed \in BOOLEAN, NEW f \in Faults, BeginCycle(elapsed, f)
      PROVE  OnOwnPane
  <2>1. PICK next : /\ Write(next, f)
                    /\ \A i \in Ids : mem[i].status = "needs_review" =>
                                        next[i] = mem[i] \/ Exact(i)
    BY <1>0, <1>3, BeginCycleGood
  <2>2. \A i \in Ids : Unresolved(i, next)
    BY <2>1 DEF Unresolved, Exact
  <2> QED BY <2>1, <2>2, UnresolvedStep
<1>4. ASSUME NEW i \in Ids, NEW f \in Faults, HeadTooLong(i, f) \/ Record(i, f) \/ Claim(i, f)
      PROVE  OnOwnPane
  <2>1. mem[i].status \in {"queued", "dispatching"}
    BY <1>0, <1>4 DEF HeadTooLong, Record, Claim, Available, At, QueueInv, PhaseOfHead
  <2>2. PICK next : /\ Write(next, f)
                    /\ \A j \in Ids \ {i} :
                         next[j] = mem[j] \/ Forgotten(mem[j], next[j])
    BY <1>0, <1>4, CycleWriteGood, ClaimGood
  <2>3. \A j \in Ids : Unresolved(j, next)
    BY <2>1, <2>2 DEF Unresolved, Forgotten
  <2> QED BY <2>2, <2>3, UnresolvedStep
<1>5. ASSUME Terminal \/ TakeSample \/ EndCycle \/ UNCHANGED vars
      PROVE  OnOwnPane
  BY <1>1, <1>5, QuietOwners
<1>6. ASSUME NEW i \in Ids,
             HeadUnavailable(i) \/ HeadWaits(i) \/ HeadReady(i) \/ DeliveryStep(i)
      PROVE  OnOwnPane
  BY <1>1, <1>6, HeadOwners, DeliveryOwners
<1>7. ASSUME NEW f \in Faults, CreateRequest(f) \/ ClearHistory(f)
      PROVE  OnOwnPane
  BY <1>0, <1>7, OthersOnOwnPane
<1> QED BY <1>2, <1>3, <1>4, <1>5, <1>6, <1>7 DEF Next, CycleStep

\* The routes that resolve a review, and the completion capture, look at the pane
\* again in the same turn of the chain: a prompt is never declared done, resumed or
\* dismissed on the strength of a pane that only has the same name.
THEOREM ReviewResolvedOnOwnPaneHolds == Spec => ReviewResolvedOnOwnPane
<1>1. LineInv /\ [Next]_vars => [OnOwnPane \/ Restart]_vars
  BY OnOwnPaneStep
<1> QED BY <1>1, LineInvariant, PTL DEF Spec, ReviewResolvedOnOwnPane

---------------------------------------------------------------------------
(* Work in the terminals.  That nothing is typed over work is not          *)
(* inductive: an agents list may call a pane ready that was taken before   *)
(* the work began.  An item is found ready only as the head of its line,   *)
(* so not before what works there was settled, and the list that finds it  *)
(* ready the second time was taken after the first time: it saw the work.  *)

\* An attempt was typed, and one at work is in the pane its session has now.
WorkIsLive ==
  /\ \A i \in Ids : turn[i] # "none" => wire[i].typed > 0
  /\ proc.pc \in {"render", "enter", "confirm"} => \A i \in proc.cur : wire[i].typed > 0
  /\ \A i \in Ids : AtWork(i) => wire[i].at = live[mem[i].session].gen

\* A queued item was found ready only as the head of its line.
ReadyIsHead ==
  \A j \in Ids : "ready" \in obs[j] =>
    j \in used /\ (mem[j].status = "queued" => IsHead(mem, j))

\* An agents list in samples has a pane of the session ready.
Greens(samples, s) == \E sample \in samples : sample.panes[s].green

\* While an item that no longer holds up its line is at work there, an agents list
\* that calls the pane ready is older, and no head has been found ready before it.
OldListsAreFirst ==
  \A i, j \in Ids :
    /\ AtWork(i) /\ ~Open(mem[i])
    /\ mem[j].status = "queued" /\ mem[i].session = mem[j].session
    => /\ Greens(pend, mem[j].session) => "ready" \notin obs[j] /\ j \notin proc.todo
       /\ Greens(smp, mem[j].session) /\ j \in proc.todo => "ready" \notin obs[j]

\* The line of the head in hand has nothing else at work.
LineIsClear ==
  \A i, j \in Ids :
    j \in proc.cur /\ i # j /\ mem[i].session = mem[j].session
    => mem[i].status = "queued" \/ (~Open(mem[i]) /\ ~AtWork(i))

WorkInv == WorkIsLive /\ ReadyIsHead /\ OldListsAreFirst /\ LineIsClear

\* A request changes no terminal, forgets observations and gives out ids.
LEMMA RequestForgets ==
  ASSUME TypeOK, NEW f,
         CreateRequest(f) \/ ClearHistory(f) \/ \E i \in Ids : OperatorRequest(i, f)
  PROVE  /\ UNCHANGED <<smp, pend, turn>> /\ used \subseteq used'
         /\ \A j \in Ids : obs'[j] \subseteq obs[j]
<1> USE DEF itemVars
<1>1. ASSUME NEW ss, NEW id, NEW target, NEW rank, NEW kind,
             Create(ss, id, target, rank, kind, f)
      PROVE  UNCHANGED <<smp, pend, turn, obs>> /\ used \subseteq used'
  BY <1>1 DEF Create
<1>2. ASSUME NEW next, NEW cleared, Request(next, cleared, f)
      PROVE  UNCHANGED <<smp, pend, turn, used>> /\ \A j \in Ids : obs'[j] \subseteq obs[j]
  BY <1>2 DEF Request
<1>3. CASE CreateRequest(f)
  BY <1>1, <1>3 DEF CreateRequest, CreateItem, CreateBatch
<1>4. CASE ClearHistory(f)
  BY <1>2, <1>4 DEF ClearHistory
<1>5. ASSUME NEW i \in Ids, OperatorRequest(i, f)
      PROVE  /\ UNCHANGED <<smp, pend, turn>> /\ used \subseteq used'
             /\ \A j \in Ids : obs'[j] \subseteq obs[j]
  <2>0. obs \in [Ids -> SUBSET Signals]
    BY DEF TypeOK
  <2>1. ASSUME NEW it, NEW trim, Replace(i, it, trim, f)
        PROVE  \E next : Request(next, {i}, f)
    BY <2>1 DEF Replace
  <2>2. CASE WaitForManualSubmit(i, f) \/ \E j \in Ids : RequeueAfterReplacement(i, j, f)
    BY <2>0, <2>2 DEF WaitForManualSubmit, RequeueAfterReplacement
  <2>3. CASE Cancel(i, f) \/ DismissLiteralReview(i, f) \/ Retarget(i, f)
    BY <1>2, <2>1, <2>3 DEF Cancel, DismissLiteralReview, Retarget
  <2>4. CASE ReleaseAfterReview(i, f) \/ ContinueMonitoring(i, f) \/ LinkAnswer(i, f)
    BY <1>2, <2>1, <2>4 DEF ReleaseAfterReview, ContinueMonitoring, LinkAnswer
  <2> QED BY <1>5, <2>2, <2>3, <2>4 DEF OperatorRequest
<1> QED BY <1>3, <1>4, <1>5

\* What the terminals show in a step of the queue itself: nothing new, or, for
\* the head in hand, what was typed into the pane its session has now.
LEMMA DeliveryMarks ==
  ASSUME TypeOK, WorkIsLive, NEW i \in Ids, DeliveryStep(i)
  PROVE  /\ UNCHANGED <<mem, live>>
         /\ \/ UNCHANGED <<turn, wire>>
            \/ \E w, t : /\ wire' = [wire EXCEPT ![i] = w] /\ turn' = [turn EXCEPT ![i] = t]
                         /\ w.typed > 0 /\ w.at = live[mem[i].session].gen
         /\ proc'.pc \in {"render", "enter", "confirm"} => wire'[i].typed > 0
<1> USE DEF At, deliveryRest, storeVars, paneVars
<1>0. /\ wire \in [Ids -> [typed : Nat, entered : Nat, at : Nat]]
      /\ turn \in [Ids -> Turns] /\ proc \in ProcType
  BY DEF TypeOK, ProcType
<1>1. UNCHANGED <<mem, live>>
  BY DeliveryFrame
<1>2. ASSUME NEW gen, Typed(i, gen)
      PROVE  /\ \E w : /\ wire' = [wire EXCEPT ![i] = w] /\ w.typed > 0 /\ w.at = gen
             /\ wire'[i].typed > 0
  <2> DEFINE w == [typed |-> wire[i].typed + 1, entered |-> wire[i].entered, at |-> gen]
  <2>1. wire' = [wire EXCEPT ![i] = w]
    BY <1>0, <1>2 DEF Typed
  <2>2. w.typed > 0 /\ w.at = gen
    BY <1>0
  <2> HIDE DEF w
  <2> QED BY <1>0, <2>1, <2>2
<1>3. ASSUME NEW gen, Entered(i, gen), wire[i].typed > 0
      PROVE  /\ \E w : /\ wire' = [wire EXCEPT ![i] = w] /\ w.typed > 0 /\ w.at = gen
             /\ wire'[i].typed > 0
  <2> DEFINE w == [typed |-> wire[i].typed, entered |-> wire[i].entered + 1, at |-> gen]
  <2>1. wire' = [wire EXCEPT ![i] = w]
    BY <1>0, <1>3 DEF Entered
  <2>2. w.typed > 0 /\ w.at = gen
    BY <1>3
  <2> HIDE DEF w
  <2> QED BY <1>0, <2>1, <2>2
<1>4. ASSUME NEW outcome, Finish(i, outcome)
      PROVE  proc'.pc = "record"
  BY <1>0, <1>4 DEF Finish, ProcType
<1>5. ASSUME NEW phase, Advance(i, phase)
      PROVE  proc'.pc = phase
  BY <1>0, <1>5 DEF Advance, ProcType
<1>6. CASE TypeMarked(i)
  BY <1>1, <1>2, <1>6 DEF TypeMarked, Exact
<1>7. CASE TypeCommand(i)
  BY <1>1, <1>2, <1>7 DEF TypeCommand
<1>8. CASE \E partial \in BOOLEAN : TypeFails(i, partial)
  BY <1>1, <1>2, <1>4, <1>8 DEF TypeFails, Exact
<1>9. CASE \E t \in Turns : EnterMarked(i, t)
  <2>1. wire[i].typed > 0
    BY <1>9 DEF EnterMarked, WorkIsLive
  <2>2. PICK t \in Turns : EnterMarked(i, t)
    BY <1>9
  <2>3. /\ Entered(i, mem[i].target) /\ mem[i].target = live[mem[i].session].gen
        /\ turn' = [turn EXCEPT ![i] = t]
    BY <2>2 DEF EnterMarked, Exact
  <2> QED BY <1>1, <1>3, <2>1, <2>3
<1>10. CASE EnterCommand(i)
  <2>1. wire[i].typed > 0
    BY <1>10 DEF EnterCommand, WorkIsLive
  <2> QED BY <1>1, <1>3, <1>4, <1>10, <2>1 DEF EnterCommand
<1>11. CASE PreflightPasses(i)
  BY <1>1, <1>5, <1>11 DEF PreflightPasses
<1>12. CASE RenderConfirmed(i)
  <2>1. wire[i].typed > 0
    BY <1>12 DEF RenderConfirmed, WorkIsLive
  <2> QED BY <1>1, <1>12, <2>1 DEF RenderConfirmed
<1>13. CASE (\E o \in PreTypingStages : PreflightFails(i, o)) \/ RenderUnconfirmed(i)
            \/ EnterFails(i) \/ Confirmed(i) \/ Unconfirmed(i) \/ DeliveryThrows(i)
  BY <1>1, <1>4, <1>13 DEF PreflightFails, RenderUnconfirmed, EnterFails, Confirmed, Unconfirmed,
                           DeliveryThrows
<1> QED BY <1>6, <1>7, <1>8, <1>9, <1>10, <1>11, <1>12, <1>13 DEF DeliveryStep

\* Outside the deliveries, work goes on or ends where it is; it begins again only
\* on the item that holds up the line.
LEMMA TerminalWork ==
  ASSUME TypeOK, WorkIsLive, Terminal
  PROVE  /\ UNCHANGED <<mem, wire, proc>>
         /\ \A i \in Ids : /\ turn'[i] # "none" => turn[i] # "none"
                           /\ AtWork(i)' => AtWork(i) \/ Open(mem[i])
                           /\ AtWork(i)' => wire[i].at = live'[mem[i].session].gen
<1> USE DEF storeVars, cycleVars, manualVars, paneVars, itemVars
<1>0. /\ turn \in [Ids -> Turns] /\ mem \in [Ids -> Item]
      /\ live \in [Sessions -> [gen : Nat, state : {"codex", "shell", "gone"}]]
      /\ \A i \in Ids : mem[i].session \in Sessions
  BY DEF TypeOK, Item
<1>1. CASE \E i \in Ids, t \in Turns : AgentMoves(i, t)
  <2>1. PICK i \in Ids, t \in Turns : AgentMoves(i, t)
    BY <1>1
  <2>2. /\ UNCHANGED <<mem, wire, proc, live>> /\ turn' = [turn EXCEPT ![i] = t]
        /\ Bound(i) /\ turn[i] # "none"
        /\ Open(mem[i]) \/ AtWork(i)
    BY <2>1 DEF AgentMoves, Shows, AtWork
  <2> QED BY <1>0, <2>2 DEF Bound, AtWork, WorkIsLive
<1>2. ASSUME NEW s \in Sessions, NEW gen, NEW state, PaneChange(s, gen, state)
      PROVE  /\ UNCHANGED <<mem, wire, proc>>
             /\ \A i \in Ids : /\ turn'[i] # "none" => turn[i] # "none"
                               /\ AtWork(i)' => AtWork(i)
                               /\ AtWork(i)' => wire[i].at = live'[mem[i].session].gen
  <2>1. /\ UNCHANGED <<mem, wire, proc>>
        /\ live' = [live EXCEPT ![s] = [gen |-> gen, state |-> state]]
        /\ \A i \in Ids : turn'[i] = IF i \in Showing(s, {"typed", "working", "answering"})
                                     THEN "scrolled" ELSE turn[i]
    BY <1>2 DEF PaneChange
  <2>2. \A i \in Ids : AtWork(i)' => AtWork(i) /\ i \notin Showing(s, {"typed", "working", "answering"})
    BY <2>1 DEF AtWork
  <2>3. \A i \in Ids : AtWork(i)' => mem[i].session # s
    BY <2>2 DEF Showing, WorkIsLive, AtWork
  <2>4. \A i \in Ids : mem[i].session # s => live'[mem[i].session] = live[mem[i].session]
    BY <1>0, <2>1
  <2>5. \A i \in Ids : turn'[i] # "none" => turn[i] # "none"
    BY <2>1 DEF Showing
  <2> QED BY <2>1, <2>2, <2>3, <2>4, <2>5 DEF WorkIsLive
<1>3. CASE \E s \in Sessions : CodexExits(s) \/ CodexResumed(s) \/ PaneGone(s) \/ PaneCreated(s)
  BY <1>2, <1>3 DEF CodexExits, CodexResumed, PaneGone, PaneCreated
<1>4. CASE \E s \in Sessions, ok \in BOOLEAN : ManualEnd(s, ok)
  <2>1. PICK s \in Sessions, ok \in BOOLEAN : ManualEnd(s, ok)
    BY <1>4
  <2>2. /\ UNCHANGED <<mem, wire, proc, live>>
        /\ \A i \in Ids : turn'[i] = IF ok /\ i \in Showing(s, {"typed", "working"})
                                     THEN "answering" ELSE turn[i]
    BY <2>1 DEF ManualEnd
  <2> QED BY <2>2 DEF Showing, AtWork, WorkIsLive
<1>5. CASE \/ \E i \in Ids : DayPasses(i) \/ RefuseAnswer(i)
           \/ \E s \in Sessions : \/ BusyChange(s) \/ Interrupt(s)
                                  \/ \E heads \in SUBSET Ids : ManualBegin(s, heads)
  <2>1. UNCHANGED <<mem, wire, proc, live, turn>>
    BY <1>5 DEF DayPasses, RefuseAnswer, BusyChange, Interrupt, ManualBegin
  <2> QED BY <2>1 DEF AtWork, WorkIsLive
<1> QED BY <1>1, <1>3, <1>4, <1>5 DEF Terminal

\* What a step but a restart makes of the lines: what is open was open in its place
\* or arrived last, and what was typed keeps its line.
LEMMA LinesKept ==
  ASSUME LineInv, [Next]_vars, ~Restart, NEW i \in Ids
  PROVE  /\ Open(mem'[i]) =>
              \/ /\ Open(mem[i])
                 /\ mem'[i].session = mem[i].session /\ mem'[i].position = mem[i].position
              \/ /\ i \notin used /\ mem'[i].status = "queued"
                 /\ \A k \in Present(mem) : mem[k].position < mem'[i].position
         /\ mem'[i].status = "queued" => mem[i].status = "queued" \/ i \notin used
         /\ mem[i].status # "absent" => mem'[i].session = mem[i].session
<1>0. ItemStep(mem[i], mem'[i]) /\ ArrivesLast(mem') /\ mem[i] \in Item
  BY StoreStep DEF LineInv, QueueInv, TypeOK
<1>1. CASE mem'[i] = mem[i]
  BY <1>1 DEF Open
<1>2. CASE mem[i].status = "absent" /\ mem'[i].status = "queued"
  BY <1>0, <1>2 DEF ArrivesLast
<1>3. CASE IsClaimed(mem[i], mem'[i])
  <2>1. mem[i].status = "queued" /\ mem'[i].status = "dispatching"
        /\ mem'[i].session = mem[i].session /\ mem'[i].position = mem[i].position
    BY <1>0, <1>3 DEF IsClaimed, Item
  <2> QED BY <2>1 DEF Open
<1>4. CASE Proceeds(mem[i], mem'[i])
  <2>1. Later(StageOf(mem[i]), StageOf(mem'[i]))
    BY <1>4 DEF Proceeds
  <2>2. Open(mem'[i]) => Open(mem[i])
    <3>1. Open(mem'[i]) => StageOf(mem'[i]) # "settled"
      BY DEF Open, StageOf, Awaiting
    <3>2. StageOf(mem[i]) # "settled" => Open(mem[i])
      BY <1>0, <1>4 DEF Open, StageOf, Proceeds, Item, Statuses, Awaiting
    <3> QED BY <2>1, <3>1, <3>2 DEF Later
  <2>3. mem'[i].status = "queued" => mem[i].status = "queued"
    <3>1. mem'[i].status = "queued" => StageOf(mem'[i]) = "waiting"
      BY DEF StageOf
    <3>2. StageOf(mem[i]) = "waiting" => mem[i].status = "queued"
      BY <1>0, <1>4 DEF StageOf, Proceeds
    <3> QED BY <2>1, <3>1, <3>2 DEF Later
  <2> QED BY <1>4, <2>2, <2>3 DEF Proceeds
<1>5. CASE Forgotten(mem[i], mem'[i])
  BY <1>5 DEF Forgotten, Final, Open, Awaiting
<1> QED BY <1>0, <1>1, <1>2, <1>3, <1>4, <1>5 DEF ItemStep

\* What was typed keeps its line, in memory and over a restart.
LEMMA TypedKeepsLine ==
  ASSUME LineInv, LineInv', [Next]_vars, NEW i \in Ids, wire[i].typed > 0
  PROVE  mem'[i].session = mem[i].session
<1>0. /\ QueueInv /\ TypedIsClaimed /\ StoresAreOrderly /\ UnusedIsBlank /\ TypeOK
      /\ mem[i] \in Item /\ disk[i] \in Item
  BY DEF LineInv, QueueInv, TypeOK
<1>1. CASE Restart
  <2>1. mem'[i] = Reconciled(disk[i])
    BY <1>1 DEF Restart
  <2>2. mem'[i].session = disk[i].session
    BY <1>0, <2>1, ReconciledProceeds DEF Proceeds, Reopens
  <2>3. disk[i].status # "queued"
    BY <1>0 DEF TypedIsClaimed
  <2>4. ItemStep(mem[i], disk[i])
    BY <1>0 DEF StoresAreOrderly, FileFollows
  <2>5. IsClaimed(mem[i], disk[i]) => disk[i].session = mem[i].session
    BY <1>0 DEF IsClaimed, Item
  <2> QED BY <2>2, <2>3, <2>4, <2>5 DEF ItemStep, Proceeds, Forgotten
<1>2. CASE ~Restart
  <2>1. mem[i].status # "absent" => mem'[i].session = mem[i].session
    BY <1>2, LinesKept
  <2>2. ItemStep(mem[i], mem'[i]) /\ (mem' = mem \/ wire' = wire)
    BY <1>2, StoreStep
  <2>3. wire' = wire => mem'[i].status # "queued"
    BY DEF LineInv, QueueInv, TypedIsClaimed
  <2> QED BY <2>1, <2>2, <2>3 DEF ItemStep, IsClaimed, Proceeds, Forgotten, Final
<1> QED BY <1>1, <1>2

\* Work stays in the panes of now.
LEMMA WorkIsLiveStep ==
  ASSUME LineInv, LineInv', WorkIsLive, [Next]_vars
  PROVE  WorkIsLive'
<1>0. /\ TypeOK /\ QueueInv /\ PhaseOfHead /\ mem \in [Ids -> Item]
      /\ wire \in [Ids -> [typed : Nat, entered : Nat, at : Nat]]
      /\ turn \in [Ids -> Turns] /\ proc \in ProcType
  BY DEF LineInv, QueueInv, TypeOK, ProcType
<1>1. ASSUME UNCHANGED <<turn, wire, live>>,
             proc'.pc \notin {"render", "enter", "confirm"} \/ UNCHANGED proc
      PROVE  WorkIsLive'
  <2>1. \A i \in Ids : turn[i] # "none" => mem'[i].session = mem[i].session
    BY TypedKeepsLine DEF WorkIsLive
  <2> QED BY <1>1, <2>1 DEF WorkIsLive, AtWork
<1>2. ASSUME NEW f,
             CreateRequest(f) \/ ClearHistory(f) \/ \E i \in Ids : OperatorRequest(i, f)
      PROVE  WorkIsLive'
  BY <1>0, <1>1, <1>2, RequestFrame, RequestForgets
<1>3. CASE Terminal
  BY <1>0, <1>3, TerminalWork DEF WorkIsLive
<1>4. CASE TakeSample \/ EndCycle \/ UNCHANGED vars
  BY <1>1, <1>4 DEF TakeSample, EndCycle, vars, Idle, paneVars, itemVars
<1>5. CASE \E elapsed \in BOOLEAN, f \in Faults : BeginCycle(elapsed, f)
  BY <1>1, <1>5 DEF BeginCycle, Idle, paneVars
<1>6. CASE \E i \in Ids : CycleStep(i)
  <2>1. PICK i \in Ids : CycleStep(i)
    BY <1>6
  <2>2. UNCHANGED <<turn, wire, live>>
    BY <2>1 DEF CycleStep, HeadUnavailable, HeadWaits, HeadReady, HeadTooLong, Claim, Record,
                paneVars, itemVars
  <2>3. proc'.pc \notin {"render", "enter", "confirm"}
    <3>1. CASE HeadUnavailable(i) \/ HeadWaits(i) \/ HeadReady(i)
      BY <1>0, <3>1 DEF HeadUnavailable, HeadWaits, HeadReady, Next1, Skip, ProcType
    <3>2. ASSUME NEW f \in Faults, HeadTooLong(i, f)
          PROVE  proc'.pc \in {"heads", "idle"}
      BY <1>0, <3>2 DEF HeadTooLong, Next1, Idle, ProcType
    <3>3. ASSUME NEW f \in Faults, Claim(i, f)
          PROVE  proc'.pc \in {"preflight", "idle"}
      BY <1>0, <3>3 DEF Claim, Idle, ProcType
    <3>4. ASSUME NEW f \in Faults, Record(i, f)
          PROVE  proc'.pc \in {"heads", "idle"}
      <4>1. proc' = IF f = "ok" THEN [proc EXCEPT !.pc = "heads", !.cur = {}, !.out = "none"]
                    ELSE Idle
        BY <3>4 DEF Record
      <4> QED BY <1>0, <4>1 DEF Idle, ProcType
    <3> QED BY <2>1, <3>1, <3>2, <3>3, <3>4 DEF CycleStep
  <2> QED BY <1>1, <2>2, <2>3
<1>7. CASE \E i \in Ids : DeliveryStep(i)
  <2>1. PICK i \in Ids : DeliveryStep(i)
    BY <1>7
  <2>2. /\ UNCHANGED <<mem, live>>
        /\ \/ UNCHANGED <<turn, wire>>
           \/ \E w, t : /\ wire' = [wire EXCEPT ![i] = w] /\ turn' = [turn EXCEPT ![i] = t]
                        /\ w.typed > 0 /\ w.at = live[mem[i].session].gen
        /\ proc'.pc \in {"render", "enter", "confirm"} => wire'[i].typed > 0
    BY <1>0, <2>1, DeliveryMarks
  <2>3. \A j \in proc'.cur : j = i
    <3>1. i \in proc.cur /\ proc'.cur = proc.cur
      BY <1>0, <2>1, DeliveryFrame DEF Advance, Finish, ProcType
    <3> QED BY <1>0, <3>1 DEF PhaseOfHead
  <2>4. CASE UNCHANGED <<turn, wire>>
    BY <2>2, <2>3, <2>4 DEF WorkIsLive, AtWork
  <2>5. CASE ~UNCHANGED <<turn, wire>>
    <3>1. PICK w : \E t : /\ wire' = [wire EXCEPT ![i] = w] /\ turn' = [turn EXCEPT ![i] = t]
                          /\ w.typed > 0 /\ w.at = live[mem[i].session].gen
      BY <2>2, <2>5
    <3>2. \A j \in Ids : /\ j = i => wire'[j].typed > 0 /\ wire'[j].at = live[mem[j].session].gen
                         /\ j # i => wire'[j] = wire[j] /\ turn'[j] = turn[j]
      BY <1>0, <3>1
    <3> QED BY <2>2, <2>3, <3>2 DEF WorkIsLive, AtWork
  <2> QED BY <2>4, <2>5
<1>8. CASE Restart
  BY <1>1, <1>8 DEF Restart, Idle, paneVars, itemVars
<1> QED BY <1>2, <1>3, <1>4, <1>5, <1>6, <1>7, <1>8 DEF Next

\* What the cycle looks at only grows older: a cycle in progress drops heads and
\* lists, and a head becomes ready by leaving the heads it still has to visit.
LEMMA CycleFrame ==
  ASSUME LineInv, [Next]_vars, ~Restart,
         ~\E elapsed \in BOOLEAN, f \in Faults : BeginCycle(elapsed, f)
  PROVE  /\ used \subseteq used' /\ proc'.todo \subseteq proc.todo /\ smp' \subseteq smp
         /\ pend' = pend \/ TakeSample
         /\ proc'.cur \subseteq proc.cur \/ \E i \in Ids : HeadReady(i)
         /\ \A j \in Ids : "ready" \in obs'[j] =>
              "ready" \in obs[j] \/ (j \in proc.todo /\ j \notin proc'.todo)
<1>0. /\ TypeOK /\ obs \in [Ids -> SUBSET Signals] /\ proc \in ProcType
      /\ proc.pc = "idle" => proc.todo = {}
  BY DEF LineInv, QueueInv, TypeOK, ProcType, HeadsInHand
<1>1. Idle.todo = {} /\ Idle.cur = {}
  BY DEF Idle
<1> USE DEF storeVars, cycleVars, manualVars, paneVars, itemVars
<1>2. ASSUME NEW f \in Faults,
             CreateRequest(f) \/ ClearHistory(f) \/ \E i \in Ids : OperatorRequest(i, f)
      PROVE  /\ used \subseteq used' /\ UNCHANGED <<proc, smp, pend>>
             /\ \A j \in Ids : "ready" \in obs'[j] => "ready" \in obs[j]
  BY <1>0, <1>2, RequestFrame, RequestForgets
<1>3. CASE Terminal
  <2>1. UNCHANGED <<used, proc, smp, pend, obs>>
    BY <1>3 DEF Terminal, AgentMoves, DayPasses, RefuseAnswer, BusyChange, CodexExits,
                CodexResumed, PaneGone, PaneCreated, PaneChange, ManualBegin, ManualEnd, Interrupt
  <2> QED BY <2>1
<1>4. CASE TakeSample \/ UNCHANGED vars
  BY <1>4 DEF TakeSample, vars
<1>5. CASE EndCycle
  BY <1>1, <1>5 DEF EndCycle
<1>6. ASSUME NEW i \in Ids, HeadUnavailable(i) \/ HeadWaits(i) \/ HeadReady(i)
      PROVE  /\ UNCHANGED <<used, smp, pend>>
             /\ i \in proc.todo /\ proc'.todo = proc.todo \ {i}
             /\ proc'.cur = proc.cur \/ HeadReady(i)
             /\ \A j \in Ids : "ready" \in obs'[j] => "ready" \in obs[j] \/ j = i
  BY <1>0, <1>6 DEF HeadUnavailable, HeadWaits, HeadReady, Next1, Skip, ProcType
<1>7. ASSUME NEW i \in Ids, NEW f \in Faults, HeadTooLong(i, f) \/ Claim(i, f) \/ Record(i, f)
      PROVE  /\ UNCHANGED <<used, pend>> /\ smp' \subseteq smp
             /\ proc'.todo \subseteq proc.todo /\ proc'.cur \subseteq proc.cur
             /\ \A j \in Ids : "ready" \in obs'[j] => "ready" \in obs[j]
  <2>1. CASE HeadTooLong(i, f)
    BY <1>0, <1>1, <2>1 DEF HeadTooLong, ProcType
  <2>2. CASE Claim(i, f)
    BY <1>0, <1>1, <2>2 DEF Claim, ProcType
  <2>3. CASE Record(i, f)
    BY <1>0, <1>1, <2>3 DEF Record, ProcType
  <2> QED BY <1>7, <2>1, <2>2, <2>3
<1>8. ASSUME NEW i \in Ids, DeliveryStep(i)
      PROVE  /\ UNCHANGED <<used, smp, pend, obs>>
             /\ proc'.todo = proc.todo /\ proc'.cur = proc.cur
  BY <1>0, <1>8, DeliveryFrame DEF deliveryRest, Advance, Finish, ProcType
<1> QED BY <1>2, <1>3, <1>4, <1>5, <1>6, <1>7, <1>8 DEF Next, CycleStep

\* A cycle begins with the list that waited for it, and makes no head ready.
LEMMA BeginFrame ==
  ASSUME TypeOK, NEW elapsed, NEW f, BeginCycle(elapsed, f)
  PROVE  /\ UNCHANGED <<used, turn>> /\ pend' = {} /\ proc'.cur = {}
         /\ \A s : Greens(smp', s) => Greens(pend, s)
         /\ \A j \in Ids : "ready" \in obs'[j] => "ready" \in obs[j]
<1>1. PICK sample \in pend :
        /\ obs' = [i \in Ids |-> Observed(i, Verdicts(sample, elapsed)[i], sample)]
        /\ smp' = IF f = "ok" THEN {[sample EXCEPT !.acts = {}]} ELSE {}
        /\ \E next : proc' = IF f = "ok"
                             THEN [pc |-> "heads", todo |-> Heads(next), cur |-> {},
                                   out |-> "none", elapsed |-> elapsed]
                             ELSE Idle
  BY DEF BeginCycle
<1>6. proc'.cur = {}
  BY <1>1 DEF Idle
<1>2. \A i \in Ids : turn[i] # "ready" /\ MissingSignal(i) # "ready"
  BY DEF TypeOK, Turns, MissingSignal
<1>3. ASSUME NEW j \in Ids, NEW verdict, "ready" \in Observed(j, verdict, sample)
      PROVE  "ready" \in obs[j]
  BY <1>2, <1>3 DEF Observed, StrictSignals, CompletionSignals
<1>4. [sample EXCEPT !.acts = {}].panes = sample.panes
  BY DEF TypeOK, Sample
<1>5. \A s : Greens(smp', s) => Greens(pend, s)
  BY <1>1, <1>4 DEF Greens
<1> QED BY <1>1, <1>3, <1>5, <1>6 DEF BeginCycle

\* A head that waits stays the head as long as it waits.
LEMMA HeadStays ==
  ASSUME LineInv, [Next]_vars, ~Restart, NEW j \in Ids, IsHead(mem, j), j \in used,
         mem'[j].status = "queued"
  PROVE  mem[j].status = "queued" /\ IsHead(mem', j)
<1>0. /\ mem \in [Ids -> Item] /\ mem' \in [Ids -> Item]
      /\ \A i \in Ids : mem[i].position \in Nat /\ mem'[i].position \in Nat
  <2>1. TypeOK'
    BY TypeStep DEF LineInv, QueueInv
  <2> QED BY <2>1 DEF LineInv, QueueInv, TypeOK, Item
<1>1. /\ mem[j].status = "queued" /\ Open(mem'[j])
      /\ mem'[j].session = mem[j].session /\ mem'[j].position = mem[j].position
  BY LinesKept DEF Open
<1>2. j \in Present(mem)
  BY <1>1 DEF Present
<1>3. ASSUME NEW k \in Ids, Open(mem'[k]), mem'[k].session = mem'[j].session
      PROVE  mem'[j].position <= mem'[k].position
  <2>1. \/ /\ Open(mem[k])
           /\ mem'[k].session = mem[k].session /\ mem'[k].position = mem[k].position
        \/ mem[j].position < mem'[k].position
    BY <1>2, <1>3, LinesKept
  <2> QED BY <1>0, <1>1, <1>3, <2>1 DEF IsHead, Line
<1> QED BY <1>1, <1>3 DEF IsHead, Line

\* So an item is found ready only as a head.
LEMMA ReadyIsHeadStep ==
  ASSUME LineInv, ReadyIsHead, [Next]_vars
  PROVE  ReadyIsHead'
<1> SUFFICES ASSUME NEW j \in Ids, "ready" \in obs'[j]
             PROVE  j \in used' /\ (mem'[j].status = "queued" => IsHead(mem', j))
  BY DEF ReadyIsHead, IsHead, Line
<1>1. CASE Restart
  BY <1>1 DEF Restart
<1>2. CASE ~Restart
  <2>1. used \subseteq used' /\ ("ready" \in obs[j] \/ j \in proc.todo)
    BY <1>2, CycleFrame, BeginFrame DEF LineInv, QueueInv
  <2>2. j \in used /\ (mem[j].status = "queued" => IsHead(mem, j))
    <3>1. IsHead(mem, j) => j \in used
      BY DEF LineInv, QueueInv, UnusedIsBlank, IsHead, Open, Awaiting
    <3> QED BY <2>1, <3>1 DEF ReadyIsHead, LineInv, HeadsInHand
  <2>3. mem'[j].status = "queued" => mem[j].status = "queued"
    BY <1>2, <2>2, LinesKept
  <2> QED BY <1>2, <2>1, <2>2, <2>3, HeadStays
<1> QED BY <1>1, <1>2

\* An item that was typed and still holds up its line stands before what waits.
LEMMA TypedIsAhead ==
  ASSUME LineInv, NEW i \in Ids, NEW j \in Ids, Open(mem[i]), wire[i].typed > 0,
         mem[j].status = "queued", mem[i].session = mem[j].session
  PROVE  ~IsHead(mem, j)
<1>1. /\ Orderly(mem) /\ Sound(mem[i]) /\ mem[i].status # "queued"
      /\ mem[i].position \in Nat /\ mem[j].position \in Nat
  BY DEF LineInv, QueueInv, TypeOK, Item, StoresAreOrderly, Orderly, TypedIsClaimed
<1>2. mem[i].claimed
  BY <1>1 DEF Sound, ItemValid, Open, Awaiting
<1>3. mem[i].position < mem[j].position
  BY <1>1, <1>2 DEF Orderly, Present, Open, Awaiting
<1> QED BY <1>1, <1>3 DEF IsHead, Line

\* Work that no longer holds up its line did not begin in the step that ended it.
LEMMA WorkWas ==
  ASSUME LineInv, WorkIsLive, [Next]_vars, NEW i \in Ids, AtWork(i)'
  PROVE  AtWork(i) \/ (mem' = mem /\ Open(mem[i]))
<1>0. TypeOK /\ PhaseOfHead /\ turn \in [Ids -> Turns]
  BY DEF LineInv, QueueInv, TypeOK
<1> USE DEF AtWork
<1>1. ASSUME NEW f,
             CreateRequest(f) \/ ClearHistory(f) \/ \E k \in Ids : OperatorRequest(k, f)
      PROVE  turn' = turn
  BY <1>0, <1>1, RequestForgets
<1>2. CASE Terminal
  BY <1>0, <1>2, TerminalWork
<1>3. CASE TakeSample \/ EndCycle \/ Restart \/ UNCHANGED vars
  BY <1>3 DEF TakeSample, EndCycle, Restart, vars, itemVars
<1>4. CASE \E elapsed \in BOOLEAN, f \in Faults : BeginCycle(elapsed, f)
  BY <1>4 DEF BeginCycle
<1>5. CASE \E k \in Ids : CycleStep(k)
  BY <1>5 DEF CycleStep, HeadUnavailable, HeadWaits, HeadReady, HeadTooLong, Claim, Record,
              itemVars
<1>6. ASSUME NEW k \in Ids, DeliveryStep(k)
      PROVE  turn'[i] = turn[i] \/ (mem' = mem /\ Open(mem[i]))
  <2>1. mem[k].status = "dispatching" /\ mem' = mem
    BY <1>0, <1>6, DeliveryFrame DEF PhaseOfHead, deliveryRest, storeVars
  <2>2. UNCHANGED turn \/ \E t \in Turns : turn' = [turn EXCEPT ![k] = t]
    BY <1>0, <1>6, DeliveryFrame
  <2> QED BY <1>0, <2>1, <2>2 DEF Open
<1> QED BY <1>1, <1>2, <1>3, <1>4, <1>5, <1>6 DEF Next

\* Beside settled work, what the step finds waiting was not found ready from a list
\* older than the work.
LEMMA OldListsHeld ==
  ASSUME LineInv, LineInv', WorkInv, [Next]_vars, ~Restart, NEW i \in Ids, NEW j \in Ids,
         AtWork(i)', ~Open(mem'[i]), mem'[j].status = "queued",
         mem'[i].session = mem'[j].session
  PROVE  /\ AtWork(i)
         /\ Greens(pend, mem'[j].session) => "ready" \notin obs[j] /\ j \notin proc.todo
         /\ Greens(smp, mem'[j].session) /\ j \in proc.todo => "ready" \notin obs[j]
<1>1. AtWork(i) /\ wire[i].typed > 0
  BY WorkWas DEF WorkInv, WorkIsLive, AtWork
<1>2. mem'[i].session = mem[i].session
  BY <1>1, TypedKeepsLine
<1>3. \A k \in proc.todo : IsHead(mem, k) /\ k \in used
  BY DEF LineInv, HeadsInHand, QueueInv, UnusedIsBlank, TypeOK, IsHead, Open, Awaiting
<1>4. CASE j \notin used
  BY <1>1, <1>3, <1>4 DEF WorkInv, ReadyIsHead
<1>5. CASE j \in used
  <2>1. mem[j].status = "queued" /\ mem'[j].session = mem[j].session
    BY <1>5, LinesKept
  <2>2. CASE ~Open(mem[i])
    BY <1>1, <1>2, <2>1, <2>2 DEF WorkInv, OldListsAreFirst
  <2>3. CASE Open(mem[i])
    <3>1. ~IsHead(mem, j)
      BY <1>1, <1>2, <2>1, <2>3, TypedIsAhead
    <3> QED BY <1>1, <1>3, <2>1, <3>1 DEF WorkInv, ReadyIsHead
  <2> QED BY <2>2, <2>3
<1> QED BY <1>4, <1>5

\* Every list that is older than settled work stays that way, and a new one is not.
LEMMA OldListsStep ==
  ASSUME LineInv, LineInv', WorkInv, [Next]_vars
  PROVE  OldListsAreFirst'
<1> SUFFICES ASSUME NEW i \in Ids, NEW j \in Ids, AtWork(i)', ~Open(mem'[i]),
                    mem'[j].status = "queued", mem'[i].session = mem'[j].session
             PROVE  /\ Greens(pend', mem'[j].session) => "ready" \notin obs'[j]
                                                         /\ j \notin proc'.todo
                    /\ Greens(smp', mem'[j].session) /\ j \in proc'.todo
                         => "ready" \notin obs'[j]
  BY DEF OldListsAreFirst, Greens, Open, Awaiting
<1>1. CASE Restart
  BY <1>1 DEF Restart, Greens
<1>2. CASE ~Restart /\ \E elapsed \in BOOLEAN, f \in Faults : BeginCycle(elapsed, f)
  <2>1. /\ pend' = {} /\ \A s : Greens(smp', s) => Greens(pend, s)
        /\ "ready" \in obs'[j] => "ready" \in obs[j]
    BY <1>2, BeginFrame DEF LineInv, QueueInv
  <2>2. Greens(pend, mem'[j].session) => "ready" \notin obs[j]
    BY <1>2, OldListsHeld
  <2>3. ~Greens(pend', mem'[j].session)
    BY <2>1 DEF Greens
  <2> QED BY <2>1, <2>2, <2>3
<1>3. CASE ~Restart /\ ~\E elapsed \in BOOLEAN, f \in Faults : BeginCycle(elapsed, f)
  <2>1. /\ proc'.todo \subseteq proc.todo /\ smp' \subseteq smp
        /\ pend' = pend \/ TakeSample
        /\ "ready" \in obs'[j] => "ready" \in obs[j] \/ (j \in proc.todo /\ j \notin proc'.todo)
    BY <1>3, CycleFrame
  <2>2. /\ AtWork(i)
        /\ Greens(pend, mem'[j].session) => "ready" \notin obs[j] /\ j \notin proc.todo
        /\ Greens(smp, mem'[j].session) /\ j \in proc.todo => "ready" \notin obs[j]
    BY <1>3, OldListsHeld
  <2>3. Greens(smp', mem'[j].session) => Greens(smp, mem'[j].session)
    BY <2>1 DEF Greens
  <2>4. TakeSample => ~Greens(pend', mem'[j].session)
    <3> SUFFICES ASSUME TakeSample PROVE ~Greens(pend', mem'[j].session)
      OBVIOUS
    <3>1. mem' = mem /\ pend' = {Sampled}
      BY DEF TakeSample, storeVars
    <3>2. mem[j].session \in Sessions
      BY DEF LineInv, QueueInv, TypeOK, Item
    <3>3. Working(mem[j].session)
      BY <2>2, <3>1 DEF Working, WorkInv, WorkIsLive, AtWork
    <3>4. Sampled.panes[mem[j].session].green = Green(mem[j].session)
      BY <3>2 DEF Sampled
    <3> HIDE DEF Sampled
    <3> QED BY <3>1, <3>3, <3>4 DEF Greens, Green
  <2> QED BY <2>1, <2>2, <2>3, <2>4
<1> QED BY <1>1, <1>2, <1>3

\* The head that is taken in hand has its line to itself, and keeps it.
LEMMA LineIsClearStep ==
  ASSUME LineInv, LineInv', WorkInv, [Next]_vars
  PROVE  LineIsClear'
<1>0. /\ TypeOK /\ PhaseOfHead /\ proc \in ProcType /\ mem \in [Ids -> Item]
      /\ proc.pc = "idle" => proc.cur = {}
  BY DEF LineInv, QueueInv, TypeOK, ProcType, PhaseOfHead
<1> SUFFICES ASSUME NEW i \in Ids, NEW j \in Ids, j \in proc'.cur, i # j,
                    mem'[i].session = mem'[j].session
             PROVE  mem'[i].status = "queued" \/ (~Open(mem'[i]) /\ ~AtWork(i)')
  BY DEF LineIsClear
<1>1. ~Restart /\ ~\E elapsed \in BOOLEAN, f \in Faults : BeginCycle(elapsed, f)
  BY <1>0, BeginFrame DEF Restart, Idle
<1>2. CASE \E k \in Ids : HeadReady(k)
  <2>1. PICK k \in Ids : HeadReady(k)
    BY <1>2
  <2>2. /\ UNCHANGED <<mem, turn>> /\ k = j /\ j \in proc.todo
        /\ mem[j].status = "queued" /\ "ready" \in obs[j]
        /\ Greens(smp, mem[j].session)
    <3>1. /\ UNCHANGED <<mem, turn>> /\ k \in proc.todo /\ mem[k].status = "queued"
          /\ "ready" \in obs[k] /\ ReadySample(k)
      BY <2>1 DEF HeadReady, Next1, Available, Stable, storeVars, itemVars
    <3>2. proc'.cur = {k}
      BY <1>0, <2>1 DEF HeadReady, ProcType
    <3> QED BY <3>1, <3>2 DEF ReadySample, Pane, Greens
  <2>3. IsHead(mem, j)
    BY <2>2 DEF LineInv, HeadsInHand
  <2>4. ~(AtWork(i) /\ ~Open(mem[i]))
    BY <2>2 DEF WorkInv, OldListsAreFirst
  <2>5. Open(mem[i]) => mem[i].status = "queued"
    <3>1. /\ Orderly(mem) /\ Sound(mem[i])
          /\ mem[i].position \in Nat /\ mem[j].position \in Nat
      BY DEF LineInv, QueueInv, TypeOK, Item, StoresAreOrderly, Orderly
    <3>2. Open(mem[i]) /\ mem[i].status # "queued" => mem[i].claimed
      BY <3>1 DEF Sound, ItemValid, Open, Awaiting
    <3>3. Open(mem[i]) /\ mem[i].claimed => mem[i].position < mem[j].position
      BY <2>2, <3>1 DEF Orderly, Present, Open, Awaiting
    <3> QED BY <2>2, <2>3, <3>1, <3>2, <3>3 DEF IsHead, Line
  <2> QED BY <2>2, <2>4, <2>5 DEF AtWork
<1>3. CASE ~\E k \in Ids : HeadReady(k)
  <2>1. j \in proc.cur
    BY <1>1, <1>3, CycleFrame
  <2>2. proc.pc # "idle" /\ proc.pc # "heads"
    BY <1>0, <2>1 DEF PhaseOfHead
  <2>3. mem'[i] = mem[i] /\ mem'[j].session = mem[j].session
    <3>1. CASE Terminal \/ TakeSample \/ EndCycle \/ UNCHANGED vars
      BY <3>1, QuietOwners
    <3>2. ASSUME NEW f,
                 CreateRequest(f) \/ ClearHistory(f) \/ \E k \in Ids : OperatorRequest(k, f)
          PROVE  FALSE
      BY <2>2, <3>2, RequestFrame
    <3>3. ASSUME NEW k \in Ids,
                 HeadUnavailable(k) \/ HeadWaits(k) \/ (\E f \in Faults : HeadTooLong(k, f))
          PROVE  FALSE
      BY <2>2, <3>3 DEF HeadUnavailable, HeadWaits, HeadTooLong, Next1
    <3>4. ASSUME NEW k \in Ids, NEW f \in Faults, Record(k, f)
          PROVE  FALSE
      <4>1. proc' = IF f = "ok" THEN [proc EXCEPT !.pc = "heads", !.cur = {}, !.out = "none"]
                    ELSE Idle
        BY <3>4 DEF Record
      <4>2. proc'.cur = {}
        BY <1>0, <4>1 DEF Idle, ProcType
      <4> QED BY <4>2
    <3>5. ASSUME NEW k \in Ids, NEW f \in Faults, Claim(k, f)
          PROVE  mem'[i] = mem[i] /\ mem'[j].session = mem[j].session
      <4>1. k = j
        BY <1>0, <2>1, <3>5 DEF Claim, PhaseOfHead
      <4>2. PICK next : /\ Write(next, f) /\ next[j].session = mem[j].session
                        /\ \A m \in Ids \ {j} : next[m] = mem[m]
        BY <3>5, <4>1, ClaimGood DEF LineInv
      <4>3. mem' = mem \/ mem' = next
        BY <4>2 DEF Write
      <4> QED BY <4>2, <4>3
    <3>6. ASSUME NEW k \in Ids, DeliveryStep(k)
          PROVE  mem' = mem
      BY <3>6, DeliveryOwners
    <3> QED BY <1>1, <1>3, <3>1, <3>2, <3>3, <3>4, <3>5, <3>6 DEF Next, CycleStep
  <2>4. mem[i].status = "queued" \/ (~Open(mem[i]) /\ ~AtWork(i))
    BY <2>1, <2>3 DEF WorkInv, LineIsClear
  <2>5. AtWork(i)' => AtWork(i) \/ Open(mem[i])
    BY WorkWas DEF WorkInv
  <2> QED BY <2>3, <2>4, <2>5
<1> QED BY <1>2, <1>3

\* The invariant holds at the start, and every step preserves it.
LEMMA WorkInit == Init => WorkInv
BY DEF Init, Idle, WorkInv, WorkIsLive, ReadyIsHead, OldListsAreFirst, LineIsClear, AtWork

LEMMA WorkStep == LineInv /\ LineInv' /\ WorkInv /\ [Next]_vars => WorkInv'
<1> SUFFICES ASSUME LineInv, LineInv', WorkInv, [Next]_vars PROVE WorkInv'
  OBVIOUS
<1>1. WorkIsLive' /\ ReadyIsHead'
  BY WorkIsLiveStep, ReadyIsHeadStep DEF WorkInv
<1>2. OldListsAreFirst' /\ LineIsClear'
  BY OldListsStep, LineIsClearStep
<1> QED BY <1>1, <1>2 DEF WorkInv

\* Text goes out only for the head in hand, whose line has nothing else at work.
LEMMA NotOverWorkStep ==
  ASSUME LineInv, WorkInv, [Next]_vars
  PROVE  NotOverWork
<1> SUFFICES ASSUME NEW i \in Ids, NEW j \in Ids, i # j, mem[i].session = mem[j].session,
                    AtWork(i)
             PROVE  wire'[j].typed <= wire[j].typed
  BY DEF NotOverWork
<1>0. /\ TypeOK /\ PhaseOfHead /\ TypedIsClaimed /\ wire[j].typed \in Nat
      /\ wire \in [Ids -> [typed : Nat, entered : Nat, at : Nat]]
  BY DEF LineInv, QueueInv, TypeOK
<1>1. ASSUME UNCHANGED wire
      PROVE  wire'[j].typed <= wire[j].typed
  BY <1>0, <1>1
<1>2. ASSUME NEW k \in Ids, DeliveryStep(k)
      PROVE  wire'[j].typed <= wire[j].typed
  <2>1. k \in proc.cur /\ (UNCHANGED wire \/ \E gen \in Nat : Typed(k, gen) \/ Entered(k, gen))
    BY <1>0, <1>2, DeliveryFrame
  <2>2. k # j
    <3> SUFFICES ASSUME k = j PROVE FALSE
      OBVIOUS
    <3>1. mem[i].status = "queued" \/ (~Open(mem[i]) /\ ~AtWork(i))
      BY <2>1 DEF WorkInv, LineIsClear
    <3>2. wire[i].typed > 0
      BY DEF WorkInv, WorkIsLive, AtWork
    <3> QED BY <1>0, <3>1, <3>2 DEF TypedIsClaimed
  <2>3. wire'[j] = wire[j]
    BY <1>0, <2>1, <2>2 DEF Typed, Entered
  <2> QED BY <1>0, <2>3
<1>3. ASSUME NEW f,
             CreateRequest(f) \/ ClearHistory(f) \/ \E k \in Ids : OperatorRequest(k, f)
      PROVE  UNCHANGED wire
  BY <1>3, RequestFrame
<1>4. CASE Terminal \/ TakeSample \/ EndCycle \/ UNCHANGED vars
  BY <1>1, <1>4, QuietOwners
<1>5. CASE (\E elapsed \in BOOLEAN, f \in Faults : BeginCycle(elapsed, f)) \/ Restart
  BY <1>1, <1>5 DEF BeginCycle, Restart, itemVars
<1>6. CASE \E k \in Ids : CycleStep(k)
  <2>1. UNCHANGED wire
    BY <1>6 DEF CycleStep, HeadUnavailable, HeadWaits, HeadReady, HeadTooLong, Claim, Record,
                itemVars
  <2> QED BY <1>1, <2>1
<1> QED BY <1>1, <1>2, <1>3, <1>4, <1>5, <1>6 DEF Next

\* processPromptQueue never has deliverTextToAgent type while the terminal is still
\* at work for an earlier item of the same line: each of the two observations it asks
\* for may be from an agents list that is older than the work, but not both.
THEOREM NothingTypedOverWorkHolds == Spec => NothingTypedOverWork
<1>1. LineInv /\ WorkInv /\ [Next]_vars => [NotOverWork]_vars
  BY NotOverWorkStep
<1> QED BY <1>1, WorkInit, WorkStep, LineInvariant, PTL DEF Spec, NothingTypedOverWork

---------------------------------------------------------------------------
(* The queue implements the abstract lines.                                *)

\* What a line lets become of a prompt that is neither new nor claimed.
Followed(a, b) ==
  \/ a = b
  \/ a = "waiting" /\ b \in {"review", "settled"}
  \/ a = "claimed" /\ b \in {"working", "review", "settled"}
  \/ a = "working" /\ b \in {"review", "settled"}
  \/ a = "review"  /\ b \in {"working", "settled"}
  \/ a = "settled" /\ b \in {"review", "unknown"}

LineMove(it, next) ==
  /\ \/ Followed(StageOf(it), StageOf(next))
     \/ it.status = "absent" /\ next.status = "queued"
     \/ it.status = "queued" /\ next.status = "dispatching"
  /\ StageOf(it) \notin {"unknown", "settled"} /\ StageOf(next) # "unknown" =>
       next.session = it.session /\ next.position = it.position

\* The stages that a status says.
LEMMA StageFacts ==
  ASSUME NEW it \in Item
  PROVE  /\ StageOf(it) \in {"unknown", "waiting", "claimed", "review", "working", "settled"}
         /\ StageOf(it) = "unknown" <=> it.status = "absent"
         /\ StageOf(it) = "waiting" <=> it.status = "queued"
         /\ StageOf(it) = "claimed" <=> it.status = "dispatching"
         /\ StageOf(it) = "review" <=> it.status = "needs_review"
         /\ StageOf(it) \notin {"unknown", "settled"} <=> Open(it)
         /\ Final(it) => StageOf(it) = "settled"
BY DEF Item, Statuses, StageOf, Open, Final, Awaiting

\* A step of an item is a move in its line.
LEMMA ItemStepMoves ==
  ASSUME NEW it \in Item, NEW next \in Item, ItemStep(it, next)
  PROVE  LineMove(it, next)
<1>1. CASE next = it
  BY <1>1 DEF LineMove, Followed
<1>2. CASE it.status = "absent" /\ next.status = "queued"
  BY <1>2, StageFacts DEF LineMove
<1>3. CASE IsClaimed(it, next)
  BY <1>3 DEF IsClaimed, LineMove, Item
<1>4. CASE Proceeds(it, next)
  BY <1>4 DEF Proceeds, Later, LineMove, Followed
<1>5. CASE Forgotten(it, next)
  BY <1>5, StageFacts DEF LineMove, Followed, Forgotten
<1> QED BY <1>1, <1>2, <1>3, <1>4, <1>5 DEF ItemStep

\* So is the step to what the file holds, reconciled.
LEMMA RestartMoves ==
  ASSUME NEW it \in Item, NEW saved \in Item, ItemStep(it, saved)
  PROVE  LineMove(it, Reconciled(saved))
<1> DEFINE next == Reconciled(saved)
<1>0. next \in Item /\ next.status # "dispatching"
  BY ReconciledProceeds
<1>1. LineMove(it, saved)
  BY ItemStepMoves
<1>2. CASE next = saved
  BY <1>1, <1>2
<1>3. CASE next # saved
  <2>1. Proceeds(saved, next) \/ Reopens(saved, next)
    BY <1>3, ReconciledProceeds
  <2>2. saved.status \in {"dispatching", "sent"}
    BY <1>3 DEF Reconciled
  <2>3. next.session = saved.session /\ next.position = saved.position
    BY <2>1 DEF Proceeds, Reopens
  <2>12. next.status = "needs_review"
    BY <1>3, ReconciledProceeds
  <2> HIDE DEF next
  <2>4. StageOf(next) = "review"
    BY <1>0, <2>12, StageFacts
  <2>5. StageOf(saved) \in {"claimed", "working", "settled"}
    BY <2>2, StageFacts
  <2>6. \A a, b \in {it, saved} : StageOf(a) \in {"unknown", "waiting", "claimed", "review",
                                                  "working", "settled"}
    BY StageFacts
  <2>7. StageOf(it) = "waiting" <=> it.status = "queued"
    BY StageFacts
  <2>8. StageOf(saved) = "waiting" <=> saved.status = "queued"
    BY StageFacts
  <2>9. Followed(StageOf(it), "review")
    BY <1>1, <2>2, <2>5, <2>7 DEF LineMove, Followed
  <2>10. StageOf(it) \notin {"unknown", "settled"} =>
           next.session = it.session /\ next.position = it.position
    BY <1>1, <2>3, <2>5 DEF LineMove
  <2>11. LineMove(it, next)
    BY <2>4, <2>9, <2>10 DEF LineMove
  <2> QED BY <2>11 DEF next
<1> QED BY <1>2, <1>3

\* Enter is pressed only for the item being delivered, which does not move.
LEMMA PressStep ==
  ASSUME LineInv, QueueInv', [Next]_vars, NEW p \in Ids
  PROVE  \/ wire'[p].entered = wire[p].entered
         \/ /\ mem' = mem /\ mem[p].status = "dispatching"
            /\ wire[p].entered = 0 /\ wire'[p].entered = 1
<1>0. TypeOK /\ UnusedIsBlank /\ QueueInv /\ StoresAreOrderly
  BY DEF LineInv, QueueInv
<1>1. ASSUME NEW i \in Ids, DeliveryStep(i), wire'[p].entered # wire[p].entered
      PROVE  /\ mem' = mem /\ mem[p].status = "dispatching"
             /\ wire[p].entered = 0 /\ wire'[p].entered = 1
  <2>1. wire \in [Ids -> [typed : Nat, entered : Nat, at : Nat]]
    BY <1>0 DEF TypeOK
  <2>2. UNCHANGED wire \/ \E gen \in Nat : Typed(i, gen) \/ Entered(i, gen)
    BY <1>0, <1>1, DeliveryFrame
  <2>3. PICK gen \in Nat : Entered(i, gen)
    BY <1>1, <2>1, <2>2 DEF Typed
  <2>4. p = i /\ wire'[p].entered = wire[p].entered + 1 /\ wire[p].entered \in Nat
    BY <1>1, <2>1, <2>3 DEF Entered
  <2>5. wire'[p].entered <= 1
    BY DEF QueueInv, AtMostOnce
  <2>6. mem[p].status = "dispatching"
    BY <1>0, <1>1, <2>4, DeliveryFrame DEF QueueInv, PhaseOfHead
  <2>7. mem' = mem
    BY <1>1, DeliveryOwners
  <2> QED BY <2>4, <2>5, <2>6, <2>7
<1>2. ASSUME NEW f \in Faults,
             CreateRequest(f) \/ ClearHistory(f) \/ \E i \in Ids : OperatorRequest(i, f)
      PROVE  wire' = wire
  BY <1>2, RequestFrame
<1>3. ASSUME Terminal \/ TakeSample \/ EndCycle \/ UNCHANGED vars
      PROVE  wire' = wire
  BY <1>3, QuietOwners
<1>4. ASSUME NEW i \in Ids, CycleStep(i)
      PROVE  wire' = wire
  BY <1>4, HeadOwners DEF CycleStep, HeadTooLong, Record, Claim, itemVars
<1>5. CASE \E elapsed \in BOOLEAN, f \in Faults : BeginCycle(elapsed, f)
  BY <1>5 DEF BeginCycle
<1>6. CASE Restart
  BY <1>6 DEF Restart, itemVars
<1> QED BY <1>1, <1>2, <1>3, <1>4, <1>5, <1>6 DEF Next

\* Every item of the memory moves in its line, and a claim is of the head of one.
LEMMA MoveStep ==
  ASSUME LineInv, LineInv', [Next]_vars
  PROVE  /\ \A i \in Ids : LineMove(mem[i], mem'[i])
         /\ \/ \A i \in Ids : mem'[i].status = "dispatching" => mem[i].status = "dispatching"
            \/ \E i \in Ids : /\ IsHead(mem, i) /\ mem[i].status = "queued"
                              /\ \A j \in Ids \ {i} : mem'[j] = mem[j]
<1>0. /\ QueueInv /\ StoresAreOrderly /\ HeadsInHand
      /\ mem \in [Ids -> Item] /\ disk \in [Ids -> Item] /\ mem' \in [Ids -> Item]
  BY DEF LineInv, QueueInv, TypeOK
<1>1. CASE Restart
  <2>1. \A i \in Ids : mem'[i] = Reconciled(disk[i])
    BY <1>1 DEF Restart
  <2>2. \A i \in Ids : LineMove(mem[i], mem'[i]) /\ mem'[i].status # "dispatching"
    BY <1>0, <2>1, RestartMoves, ReconciledProceeds DEF StoresAreOrderly, FileFollows
  <2> QED BY <2>2
<1>2. CASE ~Restart
  <2>1. \A i \in Ids : ItemStep(mem[i], mem'[i])
    BY <1>2, StoreStep
  <2>2. \A i \in Ids : LineMove(mem[i], mem'[i])
    BY <1>0, <2>1, ItemStepMoves
  <2>3. ASSUME NEW i \in Ids, NEW f \in Faults, Claim(i, f)
        PROVE  /\ IsHead(mem, i) /\ mem[i].status = "queued"
               /\ \A j \in Ids \ {i} : mem'[j] = mem[j]
    <3>1. i \in proc.cur /\ proc.pc = "claiming"
      BY <2>3 DEF Claim
    <3>2. PICK next : Write(next, f) /\ \A j \in Ids \ {i} : next[j] = mem[j]
      BY <1>0, <2>3, ClaimGood
    <3>3. mem' = mem \/ mem' = next
      BY <3>2 DEF Write
    <3> QED BY <1>0, <3>1, <3>2, <3>3 DEF HeadsInHand, QueueInv, PhaseOfHead
  <2> QED BY <1>2, <2>2, <2>3, StoreStep
<1> QED BY <1>1, <1>2

\* The initial states map to initial states.
LEMMA LineInitMaps == Init => DL!Init
<1> SUFFICES ASSUME Init PROVE DL!Init
  OBVIOUS
<1>1. Blank \in Item /\ Blank.status = "absent"
  <2>1. NewItem(CHOOSE s \in Sessions : TRUE, 0, 0, "prompt") \in Item
    BY SessionsAssumption, NewItemType DEF AllKinds
  <2> QED BY <2>1, GoneType DEF Blank
<1>2. Blank.session \in Sessions /\ Blank.position \in Nat /\ StageOf(Blank) = "unknown"
  BY <1>1 DEF Item, StageOf
<1> QED BY <1>2 DEF Init, DL!Init

\* Every step maps to a step of the lines or to a stutter.
LEMMA LineStepMaps ==
  ASSUME LineInv, LineInv', [Next]_vars
  PROVE  DL!Next
<1>0. /\ mem \in [Ids -> Item] /\ mem' \in [Ids -> Item]
      /\ QueueInv' /\ TypedIsClaimed'
      /\ \A i \in Ids : wire[i].entered \in Nat /\ wire'[i].entered \in Nat
  BY DEF LineInv, QueueInv, TypeOK
<1>1. /\ \A i \in Ids : LineMove(mem[i], mem'[i])
      /\ \/ \A i \in Ids : mem'[i].status = "dispatching" => mem[i].status = "dispatching"
         \/ \E i \in Ids : /\ IsHead(mem, i) /\ mem[i].status = "queued"
                           /\ \A j \in Ids \ {i} : mem'[j] = mem[j]
  BY MoveStep
<1>2. \A i \in Ids : /\ StageOf(mem[i]) = "claimed" <=> mem[i].status = "dispatching"
                     /\ StageOf(mem'[i]) = "claimed" <=> mem'[i].status = "dispatching"
                     /\ StageOf(mem[i]) = "waiting" <=> mem[i].status = "queued"
                     /\ StageOf(mem'[i]) = "waiting" <=> mem'[i].status = "queued"
                     /\ StageOf(mem[i]) = "unknown" <=> mem[i].status = "absent"
                     /\ StageOf(mem[i]) \notin {"unknown", "settled"} <=> Open(mem[i])
  BY <1>0, StageFacts
<1>3. \A p \in Ids : DL!Claims(p) => IsHead(mem, p) /\ \A q \in Ids \ {p} : mem'[q] = mem[q]
  BY <1>1, <1>2 DEF DL!Claims
<1>4. \A p, q \in Ids : DL!Claims(p) /\ DL!Claims(q) => p = q
  BY <1>2, <1>3 DEF DL!Claims
<1>5. ASSUME NEW p \in Ids
      PROVE  DL!Submits(p) \/ DL!Claims(p) \/ DL!Follows(p) \/ DL!Stays(p)
  <2>1. CASE Followed(StageOf(mem[p]), StageOf(mem'[p]))
    BY <2>1 DEF Followed, DL!Follows, DL!Stays
  <2>2. CASE mem[p].status = "absent" /\ mem'[p].status = "queued"
    <3>1. wire'[p].entered = 0
      BY <1>0, <2>2 DEF TypedIsClaimed
    <3>2. wire[p].entered = 0
      BY <1>0, <2>2, <3>1, PressStep
    <3> QED BY <1>2, <2>2, <3>2 DEF DL!Submits
  <2>3. CASE mem[p].status = "queued" /\ mem'[p].status = "dispatching"
    <3>1. IsHead(mem, p)
      BY <1>1, <2>3
    <3>2. DL!Ahead(p) = {}
      <4>1. \A q \in Ids : DL!Unsettled(q) => Open(mem[q])
        BY <1>2 DEF DL!Unsettled
      <4>2. \A q \in Ids : mem[q].position \in Nat
        BY <1>0 DEF Item
      <4> QED BY <3>1, <4>1, <4>2 DEF DL!Ahead, IsHead, Line
    <3> QED BY <1>2, <2>3, <3>2 DEF DL!Claims
  <2> QED BY <1>1, <2>1, <2>2, <2>3 DEF LineMove
<1>6. ASSUME NEW p \in Ids
      PROVE  DL!Presses(p)
  BY <1>0, <1>2, PressStep DEF DL!Presses
<1>7. ASSUME NEW p \in Ids
      PROVE  DL!Keeps(p)
  BY <1>1 DEF LineMove, DL!Keeps, DL!Unsettled
<1> QED BY <1>4, <1>5, <1>6, <1>7 DEF DL!Next

\* processPromptQueue, the requests and reconciliation together serve each
\* session's prompts first in, first out: a prompt is claimed once and only at the
\* head of its line, Enter is pressed for it at most once and while it is claimed,
\* and nothing ever puts it back into the line.
THEOREM ImplementsLineHolds == Spec => ImplementsLine
<1>1. LineInv /\ LineInv' /\ [Next]_vars => [DL!Next]_(DL!vars)
  BY LineStepMaps
<1> QED BY <1>1, LineInitMaps, LineInvariant, PTL DEF Spec, ImplementsLine, DL!Spec
=============================================================================
