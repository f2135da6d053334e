--------------------------- MODULE SnapshotStream ---------------------------
(***************************************************************************)
(* The live snapshot stream of PaneFleet: the server collects snapshots of *)
(* the host, publishes them under sequence numbers and broadcasts what     *)
(* changed; a browser applies a change only to the snapshot it was made    *)
(* for, and otherwise reconnects for a complete one.  Next to the stream a *)
(* browser refreshes and polls over plain requests.                        *)
(*                                                                         *)
(* A domain of the snapshot holds the time it last changed, or 0 when it   *)
(* is absent, so that two different contents are never equal by accident.  *)
(***************************************************************************)
EXTENDS Naturals, Sequences, FiniteSets

CONSTANTS
  Browsers,      \* browser pages
  Conns,         \* server responses that may be in use at a time
  Keys,          \* top-level domains of a snapshot
  MaxSequence,   \* MAX_SAFE_INTEGER, after which the sequence starts again
  MaxNow,        \* bound: changes of the host
  MaxInbox,      \* bound: events on their way on one connection
  MaxBroadcasts, \* bound: broadcasts waiting for one collection
  MaxRefreshes,  \* bound: refreshes by the operator
  MaxFailures    \* bound: failed collections and requests, cuts, restarts

ASSUME StreamBounds ==
  /\ MaxSequence \in Nat \ {0, 1} /\ MaxNow \in Nat \ {0} /\ MaxInbox \in Nat
  /\ MaxBroadcasts \in Nat /\ MaxRefreshes \in Nat /\ MaxFailures \in Nat

NoConn == "none"
ASSUME NoConnAssumption == NoConn \notin Conns
Broadcast == "broadcast"
ASSUME BroadcastAssumption == Broadcast \notin Conns

VARIABLES
  now, world,   \* the time, and the host: when each domain last changed
  state,        \* snapshotEventState: the last update published
  cached,       \* snapshotEventUpdateCache, while it is recent enough
  pending,      \* snapshotEventUpdatePromise: the host as the collection found it first
  timer,        \* snapshotEventTimer is set
  callers,      \* who waits for the collection: broadcasts, and connections for their first event
  clients,      \* snapshotEventClients
  unsent,       \* updates published since the last broadcast
  inbox, cut,   \* the events on their way on a connection; connections that broke
  conn,         \* the connection a browser listens to
  view, seq,    \* state.snapshot and state.snapshotSequence of a browser
  shown, asof,  \* ghosts: the published content of view, and when it was collected
  request,      \* the latest request for a snapshot, unless it was overtaken
  retrying,     \* browsers whose eventRetryTimer is set
  polling,      \* browsers that poll
  spent         \* how much of each bound was used

hostVars    == <<now, world>>
serverVars  == <<state, cached, pending, timer, callers, clients, unsent>>
wireVars    == <<inbox, cut>>
viewVars    == <<view, seq, shown, asof, request>>
browserVars == <<conn, retrying, polling>>
vars == <<now, world, state, cached, pending, timer, callers, clients, unsent,
          inbox, cut, conn, view, seq, shown, asof, request, retrying, polling, spent>>

Fields  == [Keys -> 0 .. MaxNow]
Updates == [sequence : 1 .. MaxSequence, fields : Fields, at : 0 .. MaxNow]
Empty   == [k \in Keys |-> 0]

\* changes and removed stand for the keys a patch names.
Events == [type : {"snapshot", "patch"}, base : 0 .. MaxSequence, update : Updates,
           changes : SUBSET Keys, removed : SUBSET Keys]
ErrorEvent == [type |-> "error"]

TypeOK ==
  /\ now \in 0 .. MaxNow /\ world \in Fields
  /\ state \in SUBSET Updates /\ cached \in SUBSET Updates
  /\ pending \in SUBSET Fields
  /\ timer \in BOOLEAN /\ callers \in Seq(Conns \cup {Broadcast})
  /\ clients \in SUBSET Conns
  /\ unsent \in 0 .. MaxSequence
  /\ inbox \in [Conns -> Seq(Events \cup {ErrorEvent})] /\ cut \in SUBSET Conns
  /\ conn \in [Browsers -> Conns \cup {NoConn}]
  /\ view \in [Browsers -> Fields] /\ shown \in [Browsers -> Fields]
  /\ seq \in [Browsers -> 0 .. MaxSequence] /\ asof \in [Browsers -> 0 .. MaxNow]
  /\ request \in [Browsers -> SUBSET [fields : Fields, began : 0 .. MaxNow]]
  /\ retrying \in SUBSET Browsers /\ polling \in SUBSET Browsers
  /\ spent \in [refreshes : Nat, failures : Nat]

\* A failure uses up one of the failures the behaviour may have.
Fails == /\ spent.failures < MaxFailures
         /\ spent' = [spent EXCEPT !.failures = @ + 1]

---------------------------------------------------------------------------
(* Collecting and publishing.                                              *)

\* A collection reads its sources one after another: each domain is found as
\* it was at the start or as it is now.
Collections(begin) == {f \in Fields : \A k \in Keys : f[k] \in {begin[k], world[k]}}

\* nextSequence.
NextSequence(s) == IF s = MaxSequence THEN 1 ELSE s + 1

Changed(old, new) == {k \in Keys : new[k] # 0 /\ new[k] # old[k]}
Removed(old, new) == {k \in Keys : new[k] = 0 /\ old[k] # 0}

Full(u) == [type |-> "snapshot", base |-> 0, update |-> u, changes |-> {}, removed |-> {}]
Patch(old, u) ==
  [type |-> "patch", base |-> old.sequence, update |-> u,
   changes |-> Changed(old.fields, u.fields), removed |-> Removed(old.fields, u.fields)]

\* buildSnapshotEventUpdate: the update, and the events it may be broadcast as.
\* A patch that repeats every domain is never smaller than the snapshot; whether
\* another one is depends on the sizes of the domains.
UpdateOf(fields) ==
  [sequence |-> IF state = {} THEN 1
                ELSE NextSequence((CHOOSE old \in state : TRUE).sequence),
   fields   |-> fields,
   at       |-> now]
BroadcastsOf(u) ==
  {Full(u)} \cup
  {Patch(old, u) : old \in {o \in state : \E k \in Keys : u.fields[k] # 0 /\ u.fields[k] = o.fields[k]}}

\* writeSnapshotEvent: what is written to a connection that broke, or that its
\* browser left, goes nowhere.
Heard(c) == c \notin cut /\ \E b \in Browsers : conn[b] = c

Waiting == {callers[i] : i \in DOMAIN callers}
Awaited == Broadcast \in Waiting \/ Waiting \cap clients # {}

\* scheduleSnapshotEventBroadcast, by whoever waited for the collection.
Rescheduled == timer \/ (clients # {} /\ Awaited)

\* The callers that write to a connection, and how many of them come up to the i-th.
Own(c)     == {i \in DOMAIN callers : c \in clients /\ callers[i] \in {c, Broadcast}}
Turn(c, i) == Cardinality({k \in Own(c) : k <= i})

\* What they write, in the order in which they came: a broadcast writes the event to
\* every client, a connection its first event.
Written(c, event, first) ==
  [n \in 1 .. Cardinality(Own(c)) |->
     IF \E i \in Own(c) : callers[i] = c /\ Turn(c, i) = n THEN first ELSE event]

\* The collection is over and its callers go on.
Deliver(event, first) ==
  /\ inbox' = [c \in Conns |-> IF Heard(c) THEN inbox[c] \o Written(c, event, first)
                                ELSE inbox[c]]
  /\ \A c \in Conns : Len(inbox'[c]) <= MaxInbox
  /\ pending' = {} /\ callers' = <<>>
  /\ timer' = Rescheduled

Collected ==
  \E begin \in pending : \E fields \in Collections(begin) :
    LET u == UpdateOf(fields)
    IN /\ unsent' = IF Broadcast \in Waiting THEN 0 ELSE unsent + 1
       /\ unsent' < MaxSequence
       /\ state' = {u} /\ cached' = {u}
       /\ \E event \in BroadcastsOf(u) : Deliver(event, Full(u))
       /\ UNCHANGED <<hostVars, clients, cut, viewVars, browserVars, spent>>

CollectionFails ==
  /\ pending # {}
  /\ Fails
  /\ Deliver(ErrorEvent, ErrorEvent)
  /\ UNCHANGED <<hostVars, state, cached, clients, unsent, cut, viewVars, browserVars>>

\* SNAPSHOT_EVENT_CACHE_MS went by.
CacheExpires ==
  /\ cached # {}
  /\ cached' = {}
  /\ UNCHANGED <<hostVars, state, pending, timer, callers, clients, unsent,
                 wireVars, viewVars, browserVars, spent>>

\* sharedSnapshotEventUpdate: one collection serves all that wait for it.
Join == IF pending # {} THEN pending ELSE {world}

TimerFires ==
  /\ timer /\ Cardinality({i \in DOMAIN callers : callers[i] = Broadcast}) < MaxBroadcasts
  /\ timer' = FALSE
  /\ callers' = Append(callers, Broadcast)
  /\ pending' = Join
  /\ UNCHANGED <<hostVars, state, cached, clients, unsent, wireVars, viewVars, browserVars,
                 spent>>

\* The server learns that a connection is closed.
NoticeClose(c) ==
  /\ c \in clients /\ ~Heard(c)
  /\ clients' = clients \ {c}
  /\ timer' = (timer /\ clients' # {})
  /\ UNCHANGED <<hostVars, state, cached, pending, callers, unsent, wireVars,
                 viewVars, browserVars, spent>>

---------------------------------------------------------------------------
(* The browser.                                                            *)

Free(c) == c \notin clients \cup Waiting /\ \A b \in Browsers : conn[b] # c

\* connectEvents and serveEvents: the first event comes from the cache while
\* that is recent, otherwise from a collection.
Connect(b, c) ==
  /\ conn[b] = NoConn /\ b \in retrying /\ Free(c)
  /\ conn' = [conn EXCEPT ![b] = c]
  /\ retrying' = retrying \ {b}
  /\ seq' = [seq EXCEPT ![b] = 0]
  /\ clients' = clients \cup {c}
  /\ cut' = cut \ {c}
  /\ IF cached # {}
     THEN /\ inbox' = [inbox EXCEPT ![c] = <<Full(CHOOSE u \in cached : TRUE)>>]
          /\ timer' = TRUE
          /\ UNCHANGED <<pending, callers>>
     ELSE /\ inbox' = [inbox EXCEPT ![c] = <<>>]
          /\ pending' = Join
          /\ callers' = Append(callers, c)
          /\ UNCHANGED timer
  /\ UNCHANGED <<hostVars, state, cached, unsent, view, shown, asof, request,
                 polling, spent>>

Arrived(b) == conn[b] # NoConn /\ inbox[conn[b]] # <<>>
Event(b) == Head(inbox[conn[b]])
Consume(b) == inbox' = [inbox EXCEPT ![conn[b]] = Tail(@)]

\* Mistake: a request stays good whatever was shown since.
AnswerShown(b, content, sequence, published, at) ==
  /\ view' = [view EXCEPT ![b] = content]
  /\ seq' = [seq EXCEPT ![b] = sequence]
  /\ shown' = [shown EXCEPT ![b] = published]
  /\ asof' = [asof EXCEPT ![b] = at]
  /\ UNCHANGED request

\* What the browser shows now, and under which sequence; a request that was
\* made before is overtaken.
Show(b, content, sequence, published, at) ==
  /\ view' = [view EXCEPT ![b] = content]
  /\ seq' = [seq EXCEPT ![b] = sequence]
  /\ shown' = [shown EXCEPT ![b] = published]
  /\ asof' = [asof EXCEPT ![b] = at]
  /\ request' = [request EXCEPT ![b] = {}]

\* The listener of "snapshot".
ReceiveSnapshot(b) ==
  /\ Arrived(b) /\ Event(b).type = "snapshot"
  /\ Consume(b)
  /\ LET u == Event(b).update IN Show(b, u.fields, u.sequence, u.fields, u.at)
  /\ polling' = polling \ {b}
  /\ UNCHANGED <<hostVars, serverVars, cut, conn, retrying, spent>>

\* Mistakes: any sequence will do, or the removed domains stay.
AnySequence(b, e) == seq[b] > 0
PatchedOnly(b, e) == [k \in Keys |-> IF k \in e.changes THEN e.update.fields[k] ELSE view[b][k]]

\* applySnapshotPatch.
Applies(b, e) == seq[b] > 0 /\ seq[b] = e.base /\ e.update.sequence = NextSequence(e.base)
Patched(b, e) ==
  [k \in Keys |-> IF k \in e.changes THEN e.update.fields[k]
                  ELSE IF k \in e.removed THEN 0 ELSE view[b][k]]

\* The browser closes its connection and will connect again.
Leave(b) ==
  /\ conn' = [conn EXCEPT ![b] = NoConn]
  /\ inbox' = [inbox EXCEPT ![conn[b]] = <<>>]
  /\ retrying' = retrying \cup {b}

\* The listener of "snapshot-patch"; reconnectForCompleteSnapshot otherwise.
ReceivePatch(b) ==
  /\ Arrived(b) /\ Event(b).type = "patch"
  /\ LET e == Event(b)
     IN IF Applies(b, e)
        THEN /\ Show(b, Patched(b, e), e.update.sequence, e.update.fields, e.update.at)
             /\ Consume(b)
             /\ UNCHANGED <<conn, retrying>>
        ELSE /\ seq' = [seq EXCEPT ![b] = 0]
             /\ Leave(b)
             /\ UNCHANGED <<view, shown, asof, request>>
  /\ polling' = polling \ {b}
  /\ UNCHANGED <<hostVars, serverVars, cut, spent>>

\* loadSnapshot: a newer request, or an event, overtakes an older one.
Ask(b) == request' = [request EXCEPT ![b] = {[fields |-> world, began |-> now]}]

\* The listener of "error", for error events and for broken connections: the
\* browser polls and connects again later.
Interrupted(b) ==
  /\ Leave(b)
  /\ polling' = polling \cup {b}
  /\ UNCHANGED <<hostVars, serverVars, cut, view, seq, shown, asof, spent>>

ReceiveError(b) ==
  /\ Arrived(b) /\ Event(b).type = "error"
  /\ Ask(b)
  /\ Interrupted(b)

ConnectionBroken(b) ==
  /\ conn[b] \in cut
  /\ IF b \in polling THEN UNCHANGED request ELSE Ask(b)
  /\ Interrupted(b)

\* The operator, or an action of the operator, refreshes.
Refresh(b) ==
  /\ spent.refreshes < MaxRefreshes
  /\ spent' = [spent EXCEPT !.refreshes = @ + 1]
  /\ Ask(b)
  /\ UNCHANGED <<hostVars, serverVars, wireVars, view, seq, shown, asof, browserVars>>

Poll(b) ==
  /\ b \in polling /\ request[b] = {}
  /\ Ask(b)
  /\ UNCHANGED <<hostVars, serverVars, wireVars, view, seq, shown, asof, browserVars, spent>>

Answered(b) ==
  \E r \in request[b] : \E fields \in Collections(r.fields) :
    /\ Show(b, fields, 0, fields, now)
    /\ UNCHANGED <<hostVars, serverVars, wireVars, browserVars, spent>>

RequestFails(b) ==
  /\ request[b] # {}
  /\ Fails
  /\ request' = [request EXCEPT ![b] = {}]
  /\ UNCHANGED <<hostVars, serverVars, wireVars, view, seq, shown, asof, browserVars>>

---------------------------------------------------------------------------
(* The host, the network and restarts of the server.                       *)

HostChanges(k) ==
  /\ now < MaxNow
  /\ now' = now + 1
  /\ \E stamp \in {0, now + 1} : world' = [world EXCEPT ![k] = stamp]
  /\ UNCHANGED <<serverVars, wireVars, viewVars, browserVars, spent>>

Cut(b) ==
  /\ conn[b] # NoConn /\ conn[b] \notin cut
  /\ Fails
  /\ cut' = cut \cup {conn[b]}
  /\ UNCHANGED <<hostVars, serverVars, inbox, viewVars, browserVars>>

ServerRestarts ==
  /\ Fails
  /\ state' = {} /\ cached' = {} /\ pending' = {} /\ timer' = FALSE /\ callers' = <<>>
  /\ clients' = {} /\ unsent' = 0
  /\ cut' = Conns
  /\ request' = [b \in Browsers |-> {}]
  /\ UNCHANGED <<hostVars, inbox, view, seq, shown, asof, browserVars>>

---------------------------------------------------------------------------
Init ==
  /\ now = 1 /\ world = [k \in Keys |-> 1]
  /\ state = {} /\ cached = {} /\ pending = {} /\ timer = FALSE /\ callers = <<>>
  /\ clients = {} /\ unsent = 0
  /\ inbox = [c \in Conns |-> <<>>] /\ cut = {}
  /\ conn = [b \in Browsers |-> NoConn]
  /\ view = [b \in Browsers |-> Empty] /\ shown = [b \in Browsers |-> Empty]
  /\ seq = [b \in Browsers |-> 0] /\ asof = [b \in Browsers |-> 0]
  /\ request = [b \in Browsers |-> {[fields |-> world, began |-> now]}]
  /\ retrying = Browsers /\ polling = {}
  /\ spent = [refreshes |-> 0, failures |-> 0]

Browse(b) ==
  \/ \E c \in Conns : Connect(b, c)
  \/ ReceiveSnapshot(b) \/ ReceivePatch(b) \/ ReceiveError(b) \/ ConnectionBroken(b)
  \/ Refresh(b) \/ Poll(b) \/ Answered(b) \/ RequestFails(b) \/ Cut(b)

Next ==
  \/ \E b \in Browsers : Browse(b)
  \/ Collected \/ CollectionFails \/ CacheExpires \/ TimerFires
  \/ \E c \in Conns : NoticeClose(c)
  \/ \E k \in Keys : HostChanges(k)
  \/ ServerRestarts

Spec == Init /\ [][Next]_vars

\* The server's timers, collections and cache run on; a browser hears events and
\* failures, connects again and polls; requests are answered.  Nothing forces
\* the host to change, the operator to refresh, or anything to fail.
Fairness ==
  /\ WF_vars(Collected) /\ WF_vars(TimerFires) /\ WF_vars(CacheExpires)
  /\ \A c \in Conns : WF_vars(NoticeClose(c))
  /\ \A b \in Browsers :
       /\ WF_vars(\E c \in Conns : Connect(b, c))
       /\ WF_vars(ReceiveSnapshot(b) \/ ReceivePatch(b) \/ ReceiveError(b))
       /\ WF_vars(ConnectionBroken(b)) /\ WF_vars(Poll(b)) /\ WF_vars(Answered(b))

FairSpec == Spec /\ Fairness

---------------------------------------------------------------------------
(* Properties.                                                             *)

\* What a browser shows under a sequence is, domain for domain, the snapshot
\* the server published under it, however many patches, lost updates, restarts
\* and refreshes lie between: a patch is never applied to something else than
\* it was made from.
ViewIsPublished == \A b \in Browsers : seq[b] > 0 => view[b] = shown[b]

\* Browsers and stream are what the code makes them, and no browser shows a mixture.
StreamIsSound == TypeOK /\ ViewIsPublished

\* The answer to a request is only ever applied over something older: what the
\* browser shows had been collected before the request was made.
RefreshIsNewer == \A b \in Browsers : \A r \in request[b] : asof[b] <= r.began

\* What was written has been heard, and a browser that connects again at once
\* (one that does not poll) has done so.
Settled == /\ \A b \in Browsers : conn[b] \notin cut \cup {NoConn} => inbox[conn[b]] = <<>>
           /\ retrying \subseteq polling

\* In the end events and connections take less than SNAPSHOT_EVENT_MS.
Timely == <>[][TimerFires => Settled]_vars

\* Once the host is left alone every browser shows it as it is, whatever was cut,
\* lost or restarted before.
CatchesUp == Timely => \A b \in Browsers : <>[](view[b] = world)

=============================================================================
