------------------------- MODULE SnapshotStreamProofs -------------------------
(****************************************************************************)
(* No browser ever shows a mixture of two snapshots, for any number of      *)
(* browsers, connections and domains: whatever is cut, lost, restarted or   *)
(* refreshed, a patch is applied only to the content it was made from.      *)
(*                                                                          *)
(* Sequence numbers begin again after MaxSequence and after a restart, so   *)
(* that equal numbers need not mean equal contents.  That they do where a   *)
(* browser compares them has two reasons, which are the invariant.  What    *)
(* waits on one connection was published in one life of the server, each    *)
(* patch made for what comes before it or for another number (Chained).     *)
(* And what a connection heard last lies fewer updates back than numbers    *)
(* there are (Recent), since every broadcast reaches every client: unsent   *)
(* counts the updates that no broadcast carried.                            *)
(****************************************************************************)
EXTENDS SnapshotStream, FiniteSetTheorems, SequenceTheorems, TLAPS

\* What a browser shows, or an event brings: a sequence and its content.
Shows(b)  == [sequence |-> seq[b], fields |-> shown[b]]
Brings(e) == [sequence |-> e.update.sequence, fields |-> e.update.fields]

\* The patch e, applied over what has its base as its sequence, yields its own content.
Fits(was, e) ==
  was.sequence = e.base =>
    \A k \in Keys \ e.changes :
      e.update.fields[k] = IF k \in e.removed THEN 0 ELSE was.fields[k]

\* What a browser will have taken in before the i-th event of its connection: nothing
\* when an error is in between, for it leaves then.
PatchFits(b, i) ==
  LET events == inbox[conn[b]]
  IN events[i].type = "patch" =>
       IF i = 1 THEN seq[b] > 0 => Fits(Shows(b), events[1])
       ELSE events[i - 1].type # "error" => Fits(Brings(events[i - 1]), events[i])

Chained == \A b \in Browsers : conn[b] # NoConn =>
             \A i \in 1 .. Len(inbox[conn[b]]) : PatchFits(b, i)

\* The update w is d updates old; numbers may have begun again since.
Back(w, d) == \E u \in state :
  /\ w.sequence + d = u.sequence \/ w.sequence + d = u.sequence + MaxSequence
  /\ d = 0 => w.fields = u.fields

\* What the browser will show at last is no older than the last broadcast.
RecentlyHeard(b) ==
  LET events == inbox[conn[b]]
  IN IF events = <<>> THEN seq[b] > 0 => \E d \in 0 .. unsent : Back(Shows(b), d)
     ELSE events[Len(events)].type # "error" =>
            \E d \in 0 .. unsent : Back(Brings(events[Len(events)]), d)
Recent == \A b \in Browsers : conn[b] \in Conns \ cut => RecentlyHeard(b)

\* A connection that somebody hears is served, and by nobody else heard; the server
\* holds one update, and fewer than there are numbers were not broadcast.
Wired ==
  /\ \A b \in Browsers : conn[b] \in Conns \ cut => conn[b] \in clients
  /\ \A a, b \in Browsers : a # b /\ conn[a] # NoConn => conn[a] # conn[b]
  /\ \A u, w \in state : u = w
  /\ cached \subseteq state
  /\ unsent < MaxSequence

\* Nothing that was published, or is shown, is of a later time.
Dated ==
  /\ \A u \in state : u.at <= now
  /\ \A b \in Browsers : asof[b] <= now
  /\ \A c \in Conns : \A i \in 1 .. Len(inbox[c]) :
       inbox[c][i].type # "error" => inbox[c][i].update.at <= now

\* The inductive invariant.
StreamInv ==
  /\ TypeOK /\ ViewIsPublished /\ RefreshIsNewer
  /\ Chained /\ Recent /\ Wired /\ Dated

---------------------------------------------------------------------------
(* Data.                                                                   *)

EventSet == Events \cup {ErrorEvent}

LEMMA Bounds ==
  /\ MaxSequence \in Nat /\ MaxSequence >= 2 /\ MaxNow \in Nat \ {0} /\ MaxInbox \in Nat
  /\ NoConn \notin Conns /\ Broadcast \notin Conns
BY StreamBounds, NoConnAssumption, BroadcastAssumption

LEMMA EventTypes ==
  ASSUME NEW e \in EventSet
  PROVE  /\ e.type = "error" => e = ErrorEvent
         /\ e.type # "error" => e \in Events /\ e.update \in Updates
BY DEF EventSet, Events, ErrorEvent

\* The first event that waits for a browser.
LEMMA EventFacts ==
  ASSUME TypeOK, Dated, NEW b \in Browsers, Arrived(b), Event(b).type # "error"
  PROVE  /\ conn[b] \in Conns /\ Event(b) \in Events /\ Event(b).update \in Updates
         /\ Event(b).update.at <= now
         /\ 1 \in 1 .. Len(inbox[conn[b]]) /\ Event(b) = inbox[conn[b]][1]
<1>1. conn[b] \in Conns /\ inbox[conn[b]] \in Seq(EventSet) /\ inbox[conn[b]] # <<>>
  BY DEF TypeOK, Arrived, EventSet
<1>2. 1 \in 1 .. Len(inbox[conn[b]]) /\ Event(b) = inbox[conn[b]][1] /\ Event(b) \in EventSet
  BY <1>1, EmptySeq DEF Event
<1> QED BY <1>1, <1>2, EventTypes DEF Dated

LEMMA FailsIsTyped ==
  ASSUME TypeOK, Fails
  PROVE  spent' \in [refreshes : Nat, failures : Nat]
<1>1. spent \in [refreshes : Nat, failures : Nat]
  BY DEF TypeOK
<1>2. spent' = [spent EXCEPT !.failures = @ + 1]
  BY DEF Fails
<1> QED BY <1>1, <1>2

\* What a collection finds is a snapshot.
LEMMA CollectionIsTyped ==
  ASSUME TypeOK, NEW begin \in Fields, NEW fields \in Collections(begin)
  PROVE  fields \in Fields
BY DEF Collections

LEMMA NextIsAnother ==
  ASSUME NEW s \in 1 .. MaxSequence
  PROVE  NextSequence(s) \in 1 .. MaxSequence /\ NextSequence(s) # s
BY Bounds DEF NextSequence

\* The update that a collection publishes follows the last one.
LEMMA UpdateFacts ==
  ASSUME TypeOK, Wired, NEW fields \in Fields
  PROVE  /\ UpdateOf(fields) \in Updates /\ UpdateOf(fields).fields = fields
         /\ UpdateOf(fields).at = now
         /\ \A old \in state : /\ UpdateOf(fields).sequence = NextSequence(old.sequence)
                               /\ UpdateOf(fields).sequence # old.sequence
<1> DEFINE u == UpdateOf(fields)
<1>1. \A old \in state : old \in Updates /\ old.sequence \in 1 .. MaxSequence
                         /\ (CHOOSE x \in state : TRUE) = old
  BY DEF TypeOK, Wired, Updates
<1>2. \A old \in state : u.sequence = NextSequence(old.sequence)
  BY <1>1 DEF UpdateOf
<1>3. \A old \in state : NextSequence(old.sequence) \in 1 .. MaxSequence
                         /\ NextSequence(old.sequence) # old.sequence
  BY <1>1, NextIsAnother
<1>4. state = {} => u.sequence = 1
  BY DEF UpdateOf
<1>5. u.sequence \in 1 .. MaxSequence
  BY <1>2, <1>3, <1>4, Bounds
<1>6. u = [sequence |-> u.sequence, fields |-> fields, at |-> now]
  BY DEF UpdateOf
<1>7. now \in 0 .. MaxNow
  BY DEF TypeOK
<1> HIDE DEF u
<1>8. u \in Updates
  BY <1>5, <1>6, <1>7 DEF Updates
<1> QED BY <1>2, <1>3, <1>6, <1>8 DEF u

\* A broadcast brings the update; a patch yields it over the update before.
LEMMA BroadcastFacts ==
  ASSUME TypeOK, NEW u \in Updates, NEW e \in BroadcastsOf(u)
  PROVE  /\ e \in Events /\ e.update = u /\ Full(u) \in Events /\ Full(u).update = u
         /\ Full(u).type = "snapshot"
         /\ e.type = "patch" =>
              \E old \in state : /\ e.base = old.sequence
                                 /\ Fits([sequence |-> old.sequence, fields |-> old.fields], e)
<1>1. Full(u) \in Events /\ Full(u).update = u /\ Full(u).type = "snapshot"
  BY Bounds DEF Full, Events
<1>2. ASSUME NEW old \in state, e = Patch(old, u)
      PROVE  /\ e \in Events /\ e.update = u /\ e.base = old.sequence
             /\ Fits([sequence |-> old.sequence, fields |-> old.fields], e)
  <2>1. old \in Updates /\ old.fields \in Fields /\ u.fields \in Fields
        /\ old.sequence \in 0 .. MaxSequence
    BY Bounds DEF TypeOK, Updates
  <2>2. /\ e.type = "patch" /\ e.base = old.sequence /\ e.update = u
        /\ e.changes = Changed(old.fields, u.fields) /\ e.removed = Removed(old.fields, u.fields)
    BY <1>2 DEF Patch
  <2>3. Changed(old.fields, u.fields) \in SUBSET Keys /\ Removed(old.fields, u.fields) \in SUBSET Keys
    BY DEF Changed, Removed
  <2>4. e \in Events
    BY <1>2, <2>1, <2>3 DEF Patch, Events
  <2>5. \A k \in Keys \ e.changes :
          u.fields[k] = IF k \in e.removed THEN 0 ELSE old.fields[k]
    BY <2>2 DEF Changed, Removed
  <2>6. Fits([sequence |-> old.sequence, fields |-> old.fields], e)
    BY <2>2, <2>5 DEF Fits
  <2> QED BY <2>2, <2>4, <2>6
<1>3. e = Full(u) \/ \E old \in state : e = Patch(old, u)
  BY DEF BroadcastsOf
<1> QED BY <1>1, <1>2, <1>3

\* What the callers write to a connection.
LEMMA WrittenFacts ==
  ASSUME TypeOK, NEW c \in Conns, NEW event, NEW first
  PROVE  /\ Written(c, event, first) \in Seq({event, first})
         /\ c \in clients /\ Broadcast \in Waiting => Len(Written(c, event, first)) # 0
<1> DEFINE w == Written(c, event, first)
<1>1. callers \in Seq(Conns \cup {Broadcast}) /\ DOMAIN callers = 1 .. Len(callers)
      /\ Len(callers) \in Nat
  BY DEF TypeOK
<1>2. Own(c) \in SUBSET (1 .. Len(callers))
  BY <1>1 DEF Own
<1>3. IsFiniteSet(1 .. Len(callers))
  BY <1>1, FS_Interval
<1>4. IsFiniteSet(Own(c))
  BY <1>2, <1>3, FS_Subset
<1>5. Cardinality(Own(c)) \in Nat /\ (Cardinality(Own(c)) = 0 <=> Own(c) = {})
  BY <1>4, FS_CardinalityType, FS_EmptySet
<1>6. w \in [1 .. Cardinality(Own(c)) -> {event, first}]
  BY DEF Written
<1>7. w \in Seq({event, first}) /\ Len(w) = Cardinality(Own(c))
  BY <1>5, <1>6
<1>8. c \in clients /\ Broadcast \in Waiting => Own(c) # {}
  BY DEF Own, Waiting
<1> QED BY <1>5, <1>7, <1>8


---------------------------------------------------------------------------
(* What steps do to the chain of events.                                   *)

\* A browser whose events stay as they are, and that shows the same or nothing
\* under a number.
LEMMA SameEvents ==
  ASSUME Chained, Recent, NEW b \in Browsers,
         conn'[b] = conn[b], conn[b] # NoConn => inbox'[conn[b]] = inbox[conn[b]],
         (seq'[b] = seq[b] /\ shown'[b] = shown[b]) \/ seq'[b] = 0,
         conn'[b] \in Conns \ cut' => conn[b] \in Conns \ cut,
         state' = state, unsent' = unsent
  PROVE  /\ conn'[b] # NoConn => \A i \in 1 .. Len(inbox'[conn'[b]]) : PatchFits(b, i)'
         /\ conn'[b] \in Conns \ cut' => RecentlyHeard(b)'
<1>1. ASSUME conn'[b] # NoConn, NEW i \in 1 .. Len(inbox'[conn'[b]]) PROVE PatchFits(b, i)'
  <2>1. PatchFits(b, i)
    BY <1>1 DEF Chained
  <2> QED BY <1>1, <2>1 DEF PatchFits, Shows
<1>2. ASSUME conn'[b] \in Conns \ cut' PROVE RecentlyHeard(b)'
  <2>1. RecentlyHeard(b) /\ conn[b] # NoConn
    BY <1>2, Bounds DEF Recent
  <2>2. inbox'[conn'[b]] = inbox[conn[b]]
    BY <2>1
  <2>3. \A w, d : Back(w, d)' <=> Back(w, d)
    BY DEF Back
  <2>4. CASE inbox[conn[b]] = <<>>
    <3>1. seq'[b] > 0 => seq'[b] = seq[b] /\ shown'[b] = shown[b] /\ Shows(b)' = Shows(b)
      BY DEF Shows
    <3>2. seq[b] > 0 => \E d \in 0 .. unsent : Back(Shows(b), d)
      BY <2>1, <2>4 DEF RecentlyHeard
    <3>3. seq'[b] > 0 => \E d \in 0 .. unsent' : Back(Shows(b), d)'
      BY <2>3, <3>1, <3>2
    <3> QED BY <2>2, <2>4, <3>3 DEF RecentlyHeard
  <2>5. CASE inbox[conn[b]] # <<>>
    BY <2>1, <2>2, <2>3, <2>5 DEF RecentlyHeard, Brings
  <2> QED BY <2>4, <2>5
<1> QED BY <1>1, <1>2

\* Steps that change nothing on connections, and numbers only to 0.
LEMMA QuietKeeps ==
  ASSUME Chained, Recent, UNCHANGED <<inbox, conn, state, unsent>>, cut \subseteq cut',
         \A b \in Browsers : (seq'[b] = seq[b] /\ shown'[b] = shown[b]) \/ seq'[b] = 0
  PROVE  Chained' /\ Recent'
<1>1. \A b \in Browsers :
        /\ conn'[b] # NoConn => \A i \in 1 .. Len(inbox'[conn'[b]]) : PatchFits(b, i)'
        /\ conn'[b] \in Conns \ cut' => RecentlyHeard(b)'
  BY SameEvents
<1> QED BY <1>1 DEF Chained, Recent

\* A browser that leaves its connection takes nothing from the others.
LEMMA LeavingKeeps ==
  ASSUME TypeOK, Chained, Recent, Wired, NEW b \in Browsers, conn[b] # NoConn, Leave(b),
         UNCHANGED <<state, unsent, cut>>,
         \A a \in Browsers : a # b => seq'[a] = seq[a] /\ shown'[a] = shown[a]
  PROVE  /\ Chained' /\ Recent'
         /\ \A a \in Browsers : conn'[a] \in {conn[a], NoConn}
         /\ inbox' \in [Conns -> Seq(EventSet)] /\ conn' \in [Browsers -> Conns \cup {NoConn}]
         /\ \A c \in Conns : inbox'[c] = inbox[c] \/ inbox'[c] = <<>>
<1>1. /\ conn \in [Browsers -> Conns \cup {NoConn}] /\ inbox \in [Conns -> Seq(EventSet)]
      /\ conn' = [conn EXCEPT ![b] = NoConn] /\ inbox' = [inbox EXCEPT ![conn[b]] = <<>>]
  BY DEF TypeOK, Leave, EventSet
<1>2. <<>> \in Seq(EventSet)
  BY EmptySeq
<1>3. \A a \in Browsers : a # b => conn'[a] = conn[a] /\ (conn[a] # NoConn => conn[a] # conn[b])
  BY <1>1 DEF Wired
<1>4. conn'[b] = NoConn
  BY <1>1
<1>5. ASSUME NEW a \in Browsers
      PROVE  /\ conn'[a] # NoConn => \A i \in 1 .. Len(inbox'[conn'[a]]) : PatchFits(a, i)'
             /\ conn'[a] \in Conns \ cut' => RecentlyHeard(a)'
  <2>1. CASE a = b
    BY <2>1, <1>4, Bounds
  <2>2. CASE a # b
    <3>1. conn[a] # NoConn => inbox'[conn[a]] = inbox[conn[a]]
      BY <2>2, <1>1, <1>3
    <3> QED BY <2>2, <3>1, <1>3, SameEvents
  <2> QED BY <2>1, <2>2
<1> QED BY <1>1, <1>2, <1>3, <1>4, <1>5 DEF Chained, Recent

\* The browser takes in its first event.
LEMMA ConsumingKeeps ==
  ASSUME TypeOK, Chained, Recent, Wired, NEW b \in Browsers, Arrived(b), Consume(b),
         Event(b).type # "error",
         seq'[b] = Event(b).update.sequence, shown'[b] = Event(b).update.fields,
         UNCHANGED <<conn, state, unsent, cut>>,
         \A a \in Browsers : a # b => seq'[a] = seq[a] /\ shown'[a] = shown[a]
  PROVE  /\ Chained' /\ Recent' /\ inbox' \in [Conns -> Seq(EventSet)]
         /\ \A c \in Conns : \A i \in 1 .. Len(inbox'[c]) :
              \E j \in 1 .. Len(inbox[c]) : inbox'[c][i] = inbox[c][j]
<1> DEFINE c == conn[b]
           s == inbox[c]
<1>1. /\ conn \in [Browsers -> Conns \cup {NoConn}] /\ inbox \in [Conns -> Seq(EventSet)]
      /\ c \in Conns /\ s \in Seq(EventSet) /\ s # <<>>
      /\ inbox' = [inbox EXCEPT ![c] = Tail(s)]
  BY DEF TypeOK, EventSet, Arrived, Consume
<1>2. inbox'[c] = Tail(s) /\ \A x \in Conns : x # c => inbox'[x] = inbox[x]
  BY <1>1
<1>3. /\ Tail(s) \in Seq(EventSet) /\ Len(Tail(s)) = Len(s) - 1 /\ Len(s) \in Nat \ {0}
      /\ \A i \in 1 .. Len(Tail(s)) : Tail(s)[i] = s[i + 1]
      /\ Event(b) = s[1]
  BY <1>1, HeadTailProperties, EmptySeq DEF Event
<1>4. inbox' \in [Conns -> Seq(EventSet)]
  BY <1>1, <1>3
<1>5. \A x \in Conns : \A i \in 1 .. Len(inbox'[x]) : \E j \in 1 .. Len(inbox[x]) : inbox'[x][i] = inbox[x][j]
  <2> TAKE x \in Conns
  <2> TAKE i \in 1 .. Len(inbox'[x])
  <2>1. CASE x = c
    <3>1. i \in 1 .. Len(Tail(s)) /\ inbox'[x][i] = s[i + 1]
      BY <2>1, <1>2, <1>3
    <3>2. i + 1 \in 1 .. Len(inbox[x])
      BY <3>1, <2>1, <1>3
    <3> QED BY <2>1, <3>1, <3>2
  <2>2. CASE x # c
    BY <2>2, <1>2
  <2> QED BY <2>1, <2>2
<1>6. ASSUME NEW a \in Browsers, a # b
      PROVE  /\ conn'[a] # NoConn => \A i \in 1 .. Len(inbox'[conn'[a]]) : PatchFits(a, i)'
             /\ conn'[a] \in Conns \ cut' => RecentlyHeard(a)'
  <2>1. conn[a] # NoConn => conn[a] \in Conns /\ conn[a] # c
    BY <1>1, <1>6 DEF Wired
  <2>2. conn[a] # NoConn => inbox'[conn[a]] = inbox[conn[a]]
    BY <2>1, <1>2
  <2> QED BY <2>2, <1>6, SameEvents
<1>7. Shows(b)' = Brings(s[1])
  BY <1>3 DEF Shows, Brings
<1>8. ASSUME NEW i \in 1 .. Len(inbox'[conn'[b]]) PROVE PatchFits(b, i)'
  <2>1. i \in 1 .. Len(Tail(s)) /\ inbox'[conn'[b]] = Tail(s) /\ i \in Nat /\ i + 1 \in 1 .. Len(s)
        /\ Tail(s)[i] = s[i + 1] /\ (i > 1 => i - 1 \in 1 .. Len(Tail(s)) /\ Tail(s)[i - 1] = s[i])
    BY <1>2, <1>3, <1>8
  <2>2. PatchFits(b, i + 1)
    BY <2>1, <1>1, Bounds DEF Chained
  <2>3. s[i + 1].type = "patch" /\ s[i].type # "error" => Fits(Brings(s[i]), s[i + 1])
    BY <2>1, <2>2 DEF PatchFits
  <2>4. CASE i = 1
    BY <2>1, <2>3, <2>4, <1>3, <1>7 DEF PatchFits
  <2>5. CASE i > 1
    BY <2>1, <2>3, <2>5 DEF PatchFits, Brings
  <2> QED BY <2>1, <2>4, <2>5
<1>9. ASSUME conn'[b] \in Conns \ cut' PROVE RecentlyHeard(b)'
  <2>1. RecentlyHeard(b)
    BY <1>9 DEF Recent
  <2>2. s[Len(s)].type # "error" => \E d \in 0 .. unsent : Back(Brings(s[Len(s)]), d)
    BY <2>1, <1>1 DEF RecentlyHeard
  <2>3. \A w, d : Back(w, d)' <=> Back(w, d)
    BY DEF Back
  <2>4. inbox'[conn'[b]] = Tail(s)
    BY <1>2
  <2>5. CASE Tail(s) = <<>>
    <3> HIDE DEF s
    <3>1. Len(s) = 1
      <4>1. Len(Tail(s)) = 0
        BY <2>5, EmptySeq
      <4> QED BY <4>1, <1>3
    <3>2. \E d \in 0 .. unsent : Back(Brings(s[1]), d)
      BY <3>1, <2>2, <1>3
    <3> QED BY <3>2, <2>3, <2>4, <2>5, <1>7 DEF RecentlyHeard
  <2>6. CASE Tail(s) # <<>>
    <3>1. Len(Tail(s)) \in 1 .. Len(Tail(s)) /\ Tail(s)[Len(Tail(s))] = s[Len(s)]
      BY <2>6, <1>3, EmptySeq
    <3> QED BY <3>1, <2>2, <2>3, <2>4, <2>6 DEF RecentlyHeard, Brings
  <2> QED BY <2>5, <2>6
<1> QED BY SMTT(30), <1>4, <1>5, <1>6, <1>8, <1>9 DEF Chained, Recent

\* The i-th of s \o w, and the one before it, are of s, or of w, or on the border.
Joined(s, w, t, i) ==
  \/ i \in 1 .. Len(s) /\ t[i] = s[i] /\ (i # 1 => t[i - 1] = s[i - 1])
  \/ /\ w # <<>> /\ 1 \in 1 .. Len(w) /\ t[i] = w[1]
     /\ i = 1 <=> s = <<>>
     /\ i # 1 => t[i - 1] = s[Len(s)]
  \/ i # 1 /\ \E j \in 2 .. Len(w) : t[i] = w[j] /\ t[i - 1] = w[j - 1]

LEMMA ConcatFacts ==
  ASSUME NEW S, NEW s \in Seq(S), NEW w \in Seq(S), NEW i \in 1 .. Len(s \o w)
  PROVE  Joined(s, w, s \o w, i)
<1> DEFINE n == Len(s)
           m == Len(w)
           t == s \o w
<1>1. /\ Len(t) = n + m /\ n \in Nat /\ m \in Nat
      /\ \A k \in 1 .. n : t[k] = s[k]
      /\ \A k \in 1 .. m : t[n + k] = w[k]
  OBVIOUS
<1>2. (s = <<>> <=> n = 0) /\ (w = <<>> <=> m = 0)
  BY EmptySeq
<1>3. i \in 1 .. n + m
  BY <1>1
<1> SUFFICES Joined(s, w, t, i)
  OBVIOUS
<1> HIDE DEF n, m, t
<1>4. CASE i <= n
  BY SMTT(30), <1>1, <1>3, <1>4 DEF n, Joined
<1>5. CASE i = n + 1
  <2>1. 1 \in 1 .. m /\ t[i] = w[1]
    BY <1>1, <1>3, <1>5
  <2>2. i # 1 => n \in 1 .. n /\ i - 1 = n
    BY <1>1, <1>5
  <2>3. i = 1 <=> s = <<>>
    BY <1>1, <1>2, <1>5
  <2> QED BY <1>1, <1>2, <2>1, <2>2, <2>3 DEF n, m, Joined
<1>6. CASE i > n + 1
  <2> DEFINE j == i - n
  <2>1. j \in 2 .. m /\ j \in 1 .. m /\ j - 1 \in 1 .. m /\ n + j = i /\ n + (j - 1) = i - 1 /\ i # 1
    BY <1>1, <1>3, <1>6
  <2> HIDE DEF j
  <2>2. t[i] = w[j] /\ t[i - 1] = w[j - 1]
    BY <1>1, <2>1
  <2> QED BY <2>1, <2>2 DEF m, Joined
<1>7. i <= n \/ i = n + 1 \/ i > n + 1
  BY <1>1, <1>3
<1> QED BY <1>4, <1>5, <1>6, <1>7, Zenon

\* Events are written behind those that wait.
LEMMA WritingKeeps ==
  ASSUME NEW b \in Browsers, NEW c, c = conn[b], conn'[b] = c, seq'[b] = seq[b], shown'[b] = shown[b],
         NEW s, s = inbox[c], s \in Seq(EventSet), NEW w \in Seq(EventSet), inbox'[c] = s \o w,
         \A i \in 1 .. Len(s) : PatchFits(b, i),
         \A j \in 2 .. Len(w) : w[j].type = "patch" => Fits(Brings(w[j - 1]), w[j]),
         w # <<>> /\ w[1].type = "patch" =>
           IF s = <<>> THEN seq[b] > 0 => Fits(Shows(b), w[1])
           ELSE s[Len(s)].type # "error" => Fits(Brings(s[Len(s)]), w[1])
  PROVE  \A i \in 1 .. Len(inbox'[conn'[b]]) : PatchFits(b, i)'
<1> DEFINE t == s \o w
<1>1. inbox'[conn'[b]] = t
  OBVIOUS
<1> SUFFICES ASSUME NEW i \in 1 .. Len(t), t[i].type = "patch"
             PROVE  IF i = 1 THEN seq[b] > 0 => Fits(Shows(b), t[1])
                    ELSE t[i - 1].type # "error" => Fits(Brings(t[i - 1]), t[i])
  BY <1>1 DEF PatchFits, Shows
<1>2. Joined(s, w, t, i)
  BY ConcatFacts
<1> HIDE DEF t
<1>3. CASE i \in 1 .. Len(s) /\ t[i] = s[i] /\ (i # 1 => t[i - 1] = s[i - 1])
  <2>1. PatchFits(b, i)
    BY <1>3
  <2> QED BY <2>1, <1>3 DEF PatchFits
<1>4. CASE /\ w # <<>> /\ t[i] = w[1]
           /\ i = 1 <=> s = <<>>
           /\ i # 1 => t[i - 1] = s[Len(s)]
  BY <1>4
<1>5. CASE i # 1 /\ \E j \in 2 .. Len(w) : t[i] = w[j] /\ t[i - 1] = w[j - 1]
  BY <1>5
<1> QED BY <1>2, <1>3, <1>4, <1>5 DEF Joined

\* What waits when a collection is over: what waited, and what its callers write.
LEMMA DeliverFacts ==
  ASSUME TypeOK, NEW event \in EventSet, NEW first \in EventSet, Deliver(event, first)
  PROVE  /\ inbox' \in [Conns -> Seq(EventSet)]
         /\ \A c \in Conns : \A i \in 1 .. Len(inbox'[c]) :
              \/ i \in 1 .. Len(inbox[c]) /\ inbox'[c][i] = inbox[c][i]
              \/ inbox'[c][i] \in {event, first}
<1>1. inbox \in [Conns -> Seq(EventSet)]
  BY DEF TypeOK, EventSet
<1>2. inbox' = [c \in Conns |-> IF Heard(c) THEN inbox[c] \o Written(c, event, first) ELSE inbox[c]]
  BY DEF Deliver
<1>3. ASSUME NEW c \in Conns
      PROVE  /\ inbox'[c] \in Seq(EventSet)
             /\ \A i \in 1 .. Len(inbox'[c]) :
                  \/ i \in 1 .. Len(inbox[c]) /\ inbox'[c][i] = inbox[c][i]
                  \/ inbox'[c][i] \in {event, first}
  <2> DEFINE w == Written(c, event, first)
             s == inbox[c]
  <2>1. w \in Seq({event, first}) /\ s \in Seq(EventSet)
    BY <1>1, WrittenFacts
  <2>2. inbox'[c] = IF Heard(c) THEN s \o w ELSE s
    BY <1>2
  <2> HIDE DEF w, s
  <2>3. CASE Heard(c)
    <3>1. w \in Seq(EventSet)
      BY <2>1
    <3>2. s \o w \in Seq(EventSet)
      BY <2>1, <3>1
    <3>3. ASSUME NEW i \in 1 .. Len(s \o w)
          PROVE  \/ i \in 1 .. Len(s) /\ (s \o w)[i] = s[i]
                 \/ (s \o w)[i] \in {event, first}
      <4>1. \A k \in 1 .. Len(w) : w[k] \in {event, first}
        BY <2>1
      <4>2. /\ Len(w) \in Nat
            /\ \A j \in 2 .. Len(w) : j \in 1 .. Len(w)
        BY <2>1
      <4> QED BY <2>1, <3>1, <3>3, <4>1, <4>2, ConcatFacts DEF Joined
    <3> QED BY <2>2, <2>3, <3>2, <3>3 DEF s
  <2>4. CASE ~Heard(c)
    BY <2>1, <2>2, <2>4 DEF s
  <2> QED BY <2>3, <2>4
<1> QED BY <1>2, <1>3

\* A patch made for the last update fits what was heard last, when that lies fewer
\* updates back than there are numbers.
LEMMA RecentFits ==
  ASSUME NEW old, state = {old}, old.sequence \in 1 .. MaxSequence,
         NEW w, w.sequence \in 1 .. MaxSequence, NEW d \in 0 .. MaxSequence - 1, Back(w, d),
         NEW e, e.base = old.sequence, Fits([sequence |-> old.sequence, fields |-> old.fields], e)
  PROVE  Fits(w, e)
<1>1. CASE w.sequence = e.base
  <2>1. d = 0
    BY <1>1, Bounds DEF Back
  <2>2. w.fields = old.fields
    BY <2>1 DEF Back
  <2> QED BY <2>2 DEF Fits
<1>2. CASE w.sequence # e.base
  BY <1>2 DEF Fits
<1> QED BY <1>1, <1>2

\* Another update is published, and what was heard last lies one more back.
LEMMA OneMoreBack ==
  ASSUME NEW old, state = {old}, old.sequence \in 1 .. MaxSequence,
         NEW u, state' = {u}, u.sequence = NextSequence(old.sequence),
         NEW w, w.sequence \in 1 .. MaxSequence, NEW d \in 0 .. MaxSequence - 1, Back(w, d)
  PROVE  Back(w, d + 1)'
<1>1. w.sequence + d = old.sequence \/ w.sequence + d = old.sequence + MaxSequence
  BY DEF Back
<1>2. w.sequence + (d + 1) = u.sequence \/ w.sequence + (d + 1) = u.sequence + MaxSequence
  BY <1>1, Bounds DEF NextSequence
<1>3. d + 1 # 0
  OBVIOUS
<1> QED BY <1>2, <1>3 DEF Back

\* What a browser will have taken in when it has heard all that waits.
Last(b, w) ==
  LET events == inbox[conn[b]]
  IN \/ events = <<>> /\ seq[b] > 0 /\ w = Shows(b)
     \/ events # <<>> /\ events[Len(events)].type # "error" /\ w = Brings(events[Len(events)])

LEMMA LastFacts ==
  ASSUME TypeOK, Recent, Wired, NEW b \in Browsers, conn[b] \in Conns \ cut, NEW w, Last(b, w)
  PROVE  w.sequence \in 1 .. MaxSequence /\ \E d \in 0 .. unsent : Back(w, d)
<1>1. RecentlyHeard(b)
  BY DEF Recent
<1> DEFINE s == inbox[conn[b]]
<1>2. s \in Seq(EventSet) /\ seq[b] \in 0 .. MaxSequence
  BY DEF TypeOK, EventSet
<1>3. CASE s = <<>> /\ seq[b] > 0 /\ w = Shows(b)
  BY <1>1, <1>2, <1>3, Bounds DEF RecentlyHeard, Shows
<1>4. CASE s # <<>> /\ s[Len(s)].type # "error" /\ w = Brings(s[Len(s)])
  <2>1. s[Len(s)] \in EventSet
    BY <1>2, <1>4, EmptySeq
  <2>2. s[Len(s)].update \in Updates
    BY <2>1, <1>4, EventTypes
  <2>3. w.sequence \in 1 .. MaxSequence
    BY <2>2, <1>4 DEF Updates, Brings
  <2> QED BY <1>1, <1>4, <2>3 DEF RecentlyHeard
<1> QED BY <1>3, <1>4 DEF Last

\* A broadcast patch fits what a browser will have taken in by then.
LEMMA BroadcastFits ==
  ASSUME TypeOK, Recent, Wired, NEW b \in Browsers, conn[b] \in Conns \ cut,
         NEW u \in Updates, NEW e \in BroadcastsOf(u), e.type = "patch", NEW w, Last(b, w)
  PROVE  Fits(w, e)
<1>1. PICK old \in state : /\ e.base = old.sequence
                           /\ Fits([sequence |-> old.sequence, fields |-> old.fields], e)
  BY BroadcastFacts
<1>2. state = {old} /\ old.sequence \in 1 .. MaxSequence
  BY DEF TypeOK, Wired, Updates
<1>3. w.sequence \in 1 .. MaxSequence /\ \E d \in 0 .. unsent : Back(w, d)
  BY LastFacts
<1>4. \A d \in 0 .. unsent : d \in 0 .. MaxSequence - 1
  BY Bounds DEF TypeOK, Wired
<1> QED BY <1>1, <1>2, <1>3, <1>4, RecentFits

\* What was published before goes one update further back.
LEMMA PublishedKeepsLast ==
  ASSUME TypeOK, Recent, Wired, NEW b \in Browsers, conn[b] \in Conns \ cut,
         NEW u, state' = {u}, \A old \in state : u.sequence = NextSequence(old.sequence),
         unsent' = unsent + 1, NEW w, Last(b, w)
  PROVE  \E d \in 0 .. unsent' : Back(w, d)'
<1>1. w.sequence \in 1 .. MaxSequence /\ \E d \in 0 .. unsent : Back(w, d)
  BY LastFacts
<1>2. PICK d \in 0 .. unsent : Back(w, d)
  BY <1>1
<1>3. PICK old \in state : TRUE
  BY <1>2 DEF Back
<1>4. state = {old} /\ old.sequence \in 1 .. MaxSequence /\ u.sequence = NextSequence(old.sequence)
  BY DEF TypeOK, Wired, Updates
<1>5. d \in 0 .. MaxSequence - 1 /\ d + 1 \in 0 .. unsent'
  BY Bounds DEF TypeOK, Wired
<1>6. Back(w, d + 1)'
  BY <1>1, <1>2, <1>4, <1>5, OneMoreBack
<1> QED BY <1>5, <1>6

\* Whoever waited for a collection writes w, of its update or its failure, behind what
\* waits on a connection that is heard.
Writes(c, w, event, first) ==
  /\ inbox[c] \in Seq(EventSet) /\ w \in Seq(EventSet)
  /\ \A i \in 1 .. Len(w) : w[i] \in {event, first}
  /\ c \in cut => inbox'[c] = inbox[c]
  /\ c \notin cut => inbox'[c] = inbox[c] \o w

LEMMA DeliverOn ==
  ASSUME TypeOK, NEW event \in EventSet, NEW first \in EventSet, Deliver(event, first),
         NEW b \in Browsers, conn[b] # NoConn
  PROVE  conn[b] \in Conns /\ Writes(conn[b], Written(conn[b], event, first), event, first)
<1> DEFINE c == conn[b]
           w == Written(c, event, first)
<1>1. c \in Conns /\ inbox[c] \in Seq(EventSet)
  BY DEF TypeOK, EventSet
<1>2. Heard(c) <=> c \notin cut
  BY DEF Heard
<1>3. inbox'[c] = IF Heard(c) THEN inbox[c] \o w ELSE inbox[c]
  BY <1>1 DEF Deliver
<1>4. w \in Seq({event, first})
  BY <1>1, WrittenFacts
<1> HIDE DEF w
<1>5. w \in Seq(EventSet) /\ \A i \in 1 .. Len(w) : w[i] \in {event, first}
  BY <1>4
<1> QED BY <1>1, <1>2, <1>3, <1>5 DEF w, Writes

LEMMA CollectedKeeps ==
  ASSUME TypeOK, Chained, Recent, Wired, NEW u \in Updates, NEW event \in BroadcastsOf(u),
         Deliver(event, Full(u)), state' = {u},
         \A old \in state : u.sequence = NextSequence(old.sequence) /\ u.sequence # old.sequence,
         unsent' = IF Broadcast \in Waiting THEN 0 ELSE unsent + 1,
         UNCHANGED <<conn, seq, shown, cut>>
  PROVE  Chained' /\ Recent'
<1>1. /\ event \in EventSet /\ Full(u) \in EventSet
      /\ \A e \in {event, Full(u)} : /\ e \in BroadcastsOf(u) /\ e.update = u
                                     /\ e.type = "patch" => \A old \in state : e.base = old.sequence
  <2>1. event \in Events /\ event.update = u /\ Full(u) \in Events /\ Full(u).update = u
        /\ Full(u).type = "snapshot" /\ Full(u) \in BroadcastsOf(u)
    BY BroadcastFacts DEF BroadcastsOf
  <2>2. event.type = "patch" => \E old \in state : event.base = old.sequence
    BY BroadcastFacts
  <2>3. \A old, o \in state : old = o
    BY DEF Wired
  <2> QED BY <2>1, <2>2, <2>3 DEF EventSet
<1>2. ASSUME NEW b \in Browsers, conn[b] # NoConn
      PROVE  /\ \A i \in 1 .. Len(inbox'[conn'[b]]) : PatchFits(b, i)'
             /\ conn'[b] \in Conns \ cut' => RecentlyHeard(b)'
  <2> DEFINE c == conn[b]
             s == inbox[c]
             w == Written(c, event, Full(u))
  <2>1. /\ c \in Conns /\ s \in Seq(EventSet) /\ w \in Seq(EventSet)
        /\ \A i \in 1 .. Len(w) : w[i] \in {event, Full(u)}
        /\ c \in cut => inbox'[c] = s
        /\ c \notin cut => inbox'[c] = s \o w
    <3>1. event \in EventSet /\ Full(u) \in EventSet
      BY <1>1
    <3>2. c \in Conns /\ Writes(c, w, event, Full(u))
      BY <1>2, <3>1, DeliverOn
    <3> QED BY <3>2 DEF Writes
  <2>2. \A i \in 1 .. Len(s) : PatchFits(b, i)
    BY <1>2 DEF Chained
  <2> HIDE DEF w
  <2>3. CASE c \in cut
    <3>1. inbox'[conn'[b]] = s /\ conn'[b] = c
      BY <2>1, <2>3
    <3>2. \A i \in 1 .. Len(inbox'[conn'[b]]) : PatchFits(b, i)'
      BY <3>1, <2>2 DEF PatchFits, Shows
    <3> QED BY <3>1, <3>2, <2>3
  <2>4. CASE c \notin cut
    <3>1. inbox'[c] = s \o w
      BY <2>1, <2>4
    <3>2. ASSUME NEW j \in 2 .. Len(w), w[j].type = "patch" PROVE Fits(Brings(w[j - 1]), w[j])
      <4>1. j - 1 \in 1 .. Len(w) /\ j \in 1 .. Len(w)
        BY <2>1
      <4>2. w[j - 1].update = u /\ w[j] \in BroadcastsOf(u)
        BY <4>1, <2>1, <1>1
      <4>3. \E old \in state : w[j].base = old.sequence
        BY ZenonT(40), <4>2, <3>2, BroadcastFacts
      <4> QED BY <4>2, <4>3 DEF Fits, Brings
    <3>3. ASSUME w # <<>>, w[1].type = "patch"
          PROVE  IF s = <<>> THEN seq[b] > 0 => Fits(Shows(b), w[1])
                 ELSE s[Len(s)].type # "error" => Fits(Brings(s[Len(s)]), w[1])
      <4>1. w[1] \in BroadcastsOf(u)
        BY <3>3, <2>1, <1>1, EmptySeq
      <4>2. \A x : Last(b, x) => Fits(x, w[1])
        BY <4>1, <3>3, <2>1, <2>4, BroadcastFits
      <4> QED BY <4>2 DEF Last
    <3>4. \A i \in 1 .. Len(inbox'[conn'[b]]) : PatchFits(b, i)'
      <4> HIDE DEF s
      <4> QED BY <2>1, <2>2, <3>1, <3>2, <3>3, WritingKeeps DEF s
    <3>5. RecentlyHeard(b)'
      <4>1. CASE w # <<>>
        <5>1. /\ Len(s \o w) = Len(s) + Len(w) /\ Len(s) \in Nat /\ Len(w) \in Nat \ {0}
              /\ s \o w # <<>> /\ (s \o w)[Len(s \o w)] = w[Len(w)]
          BY <2>1, <4>1, EmptySeq
        <5>2. w[Len(w)].update = u
          BY <5>1, <2>1, <1>1
        <5>3. \A x : x = Brings(w[Len(w)]) => Back(x, 0)'
          BY <5>2, Bounds DEF Back, Brings, Updates
        <5>4. unsent' \in Nat /\ 0 \in 0 .. unsent'
          BY Bounds DEF TypeOK
        <5>5. inbox'[conn'[b]] = s \o w
          BY <3>1
        <5> QED BY <5>1, <5>3, <5>4, <5>5 DEF RecentlyHeard, Brings
      <4>2. CASE w = <<>>
        <5>1. inbox'[conn'[b]] = s
          BY <3>1, <2>1, <4>2
        <5>2. c \in clients /\ Broadcast \notin Waiting
          <6>1. c \in clients
            BY <2>1, <2>4 DEF Wired
          <6>2. c \in clients /\ Broadcast \in Waiting => Len(w) # 0
            BY <2>1, WrittenFacts DEF w
          <6> QED BY <6>1, <6>2, <4>2, EmptySeq
        <5>3. unsent' = unsent + 1
          BY <5>2
        <5>4. \A x : Last(b, x) => \E d \in 0 .. unsent' : Back(x, d)'
          BY <5>3, <2>1, <2>4, PublishedKeepsLast
        <5> QED BY <5>1, <5>4 DEF Last, RecentlyHeard, Shows, Brings
      <4> QED BY <4>1, <4>2
    <3> QED BY <3>4, <3>5
  <2> QED BY <2>3, <2>4
<1>3. \A b \in Browsers : conn'[b] = conn[b] /\ (conn[b] \in Conns => conn[b] # NoConn)
  BY Bounds
<1> QED BY <1>2, <1>3 DEF Chained, Recent

LEMMA FailureKeeps ==
  ASSUME TypeOK, Chained, Recent, Wired, Deliver(ErrorEvent, ErrorEvent),
         UNCHANGED <<conn, seq, shown, cut, state, unsent>>
  PROVE  Chained' /\ Recent'
<1>1. ErrorEvent \in EventSet /\ ErrorEvent.type = "error"
  BY DEF EventSet, ErrorEvent
<1>2. ASSUME NEW b \in Browsers, conn[b] # NoConn
      PROVE  /\ \A i \in 1 .. Len(inbox'[conn'[b]]) : PatchFits(b, i)'
             /\ conn'[b] \in Conns \ cut' => RecentlyHeard(b)'
  <2> DEFINE c == conn[b]
             s == inbox[c]
             w == Written(c, ErrorEvent, ErrorEvent)
  <2>1. c \in Conns /\ Writes(c, w, ErrorEvent, ErrorEvent)
    BY <1>1, <1>2, DeliverOn
  <2>2. \A i \in 1 .. Len(s) : PatchFits(b, i)
    BY <1>2 DEF Chained
  <2> HIDE DEF w
  <2>3. /\ s \in Seq(EventSet) /\ w \in Seq(EventSet)
        /\ \A i \in 1 .. Len(w) : w[i].type = "error"
        /\ c \in cut => inbox'[c] = s
        /\ c \notin cut => inbox'[c] = s \o w
    BY <1>1, <2>1 DEF Writes
  <2>4. CASE inbox'[c] = s
    <3>1. /\ conn'[b] = conn[b] /\ inbox'[conn[b]] = inbox[conn[b]]
          /\ seq'[b] = seq[b] /\ shown'[b] = shown[b] /\ cut' = cut
          /\ state' = state /\ unsent' = unsent
      BY <2>4
    <3>2. conn'[b] # NoConn
      BY <1>2, <3>1
    <3> QED BY ONLY Chained, Recent, <3>1, <3>2, SameEvents
  <2>5. CASE inbox'[c] # s
    <3>0. w = <<>> => s \o w = s
      BY <2>3
    <3>1. c \notin cut /\ inbox'[c] = s \o w /\ w # <<>>
      BY <2>3, <2>5, <3>0
    <3>2. \A j \in 2 .. Len(w) : w[j].type # "patch"
      BY <2>3
    <3>3. 1 \in 1 .. Len(w) /\ Len(w) \in 1 .. Len(w)
      BY <2>3, <3>1, EmptySeq
    <3>4. w[1].type # "patch" /\ w[Len(w)].type = "error"
      BY <2>3, <3>3
    <3>5. \A i \in 1 .. Len(inbox'[conn'[b]]) : PatchFits(b, i)'
      <4> HIDE DEF s
      <4> QED BY <2>2, <2>3, <3>1, <3>2, <3>4, WritingKeeps DEF s
    <3>6. RecentlyHeard(b)'
      <4>1. Len(s \o w) = Len(s) + Len(w) /\ s \o w # <<>> /\ (s \o w)[Len(s \o w)] = w[Len(w)]
        BY <2>3, <3>3
      <4>2. inbox'[conn'[b]] = s \o w
        BY <3>1
      <4> QED BY <3>4, <4>1, <4>2 DEF RecentlyHeard
    <3> QED BY <3>5, <3>6
  <2> QED BY <2>4, <2>5
<1>3. \A b \in Browsers : conn'[b] = conn[b] /\ (conn[b] \in Conns => conn[b] # NoConn)
  BY Bounds
<1> QED BY <1>2, <1>3 DEF Chained, Recent

---------------------------------------------------------------------------
(* The steps of the server.                                                *)


LEMMA CollectedStep ==
  ASSUME StreamInv, Collected
  PROVE  StreamInv'
<1>0. PICK begin \in pending : \E fields \in Collections(begin) :
        \E event \in BroadcastsOf(UpdateOf(fields)) :
          /\ unsent' = IF Broadcast \in Waiting THEN 0 ELSE unsent + 1
          /\ unsent' < MaxSequence
          /\ state' = {UpdateOf(fields)} /\ cached' = {UpdateOf(fields)}
          /\ Deliver(event, Full(UpdateOf(fields)))
          /\ UNCHANGED <<hostVars, clients, cut, viewVars, browserVars, spent>>
  BY DEF Collected
<1>0a. PICK fields \in Collections(begin) : \E event \in BroadcastsOf(UpdateOf(fields)) :
          /\ unsent' = IF Broadcast \in Waiting THEN 0 ELSE unsent + 1
          /\ unsent' < MaxSequence
          /\ state' = {UpdateOf(fields)} /\ cached' = {UpdateOf(fields)}
          /\ Deliver(event, Full(UpdateOf(fields)))
          /\ UNCHANGED <<hostVars, clients, cut, viewVars, browserVars, spent>>
  BY <1>0
<1>1. PICK event \in BroadcastsOf(UpdateOf(fields)) :
        /\ unsent' = IF Broadcast \in Waiting THEN 0 ELSE unsent + 1
        /\ unsent' < MaxSequence
        /\ state' = {UpdateOf(fields)} /\ cached' = {UpdateOf(fields)}
        /\ Deliver(event, Full(UpdateOf(fields)))
        /\ UNCHANGED <<hostVars, clients, cut, viewVars, browserVars, spent>>
  BY <1>0a
<1> DEFINE u == UpdateOf(fields)
<1>2. TypeOK /\ Wired /\ Chained /\ Recent /\ Dated /\ ViewIsPublished /\ RefreshIsNewer
  BY DEF StreamInv
<1>3. fields \in Fields
  BY <1>2, CollectionIsTyped DEF TypeOK
<1>4. /\ u \in Updates /\ u.at = now
      /\ \A old \in state : u.sequence = NextSequence(old.sequence) /\ u.sequence # old.sequence
  BY <1>2, <1>3, UpdateFacts
<1> HIDE DEF u
<1>5. /\ event \in BroadcastsOf(u) /\ Deliver(event, Full(u)) /\ state' = {u} /\ cached' = {u}
      /\ UNCHANGED <<now, world, clients, cut, conn, view, seq, shown, asof, request, retrying,
                     polling, spent>>
  BY <1>1 DEF u, hostVars, viewVars, browserVars
<1>6. Chained' /\ Recent'
  BY <1>1, <1>2, <1>4, <1>5, CollectedKeeps
<1>7. event \in EventSet /\ Full(u) \in EventSet /\ event.update = u /\ Full(u).update = u
  BY <1>2, <1>4, <1>5, BroadcastFacts DEF EventSet
<1>8. /\ inbox' \in [Conns -> Seq(EventSet)]
      /\ \A c \in Conns : \A i \in 1 .. Len(inbox'[c]) :
           \/ i \in 1 .. Len(inbox[c]) /\ inbox'[c][i] = inbox[c][i]
           \/ inbox'[c][i] \in {event, Full(u)}
  BY <1>2, <1>5, <1>7, DeliverFacts
<1>9. pending' = {} /\ callers' = <<>> /\ timer' = Rescheduled
  BY <1>5 DEF Deliver
<1>10. unsent' \in 0 .. MaxSequence /\ Rescheduled \in BOOLEAN /\ callers' \in Seq(Conns \cup {Broadcast})
  BY <1>1, <1>2, <1>9, Bounds DEF TypeOK, Rescheduled, Awaited
<1>11. TypeOK'
  BY <1>2, <1>4, <1>5, <1>8, <1>9, <1>10 DEF TypeOK, EventSet
<1>12. Wired'
  BY <1>1, <1>2, <1>5 DEF Wired
<1>13. Dated'
  <2>1. now \in Nat /\ now' = now /\ asof' = asof
    BY <1>2, <1>5, Bounds DEF TypeOK
  <2>2. \A x \in state' : x.at <= now'
    BY <2>1, <1>4, <1>5
  <2>3. \A c \in Conns : \A i \in 1 .. Len(inbox'[c]) :
          inbox'[c][i].type # "error" => inbox'[c][i].update.at <= now'
    <3> TAKE c \in Conns
    <3> TAKE i \in 1 .. Len(inbox'[c])
    <3>1. CASE i \in 1 .. Len(inbox[c]) /\ inbox'[c][i] = inbox[c][i]
      BY <3>1, <1>2, <2>1 DEF Dated
    <3>2. CASE inbox'[c][i] \in {event, Full(u)}
      BY <3>2, <1>4, <1>7, <2>1
    <3> QED BY <3>1, <3>2, <1>8
  <2> QED BY <1>2, <2>1, <2>2, <2>3 DEF Dated
<1>14. ViewIsPublished' /\ RefreshIsNewer'
  BY <1>2, <1>5 DEF ViewIsPublished, RefreshIsNewer
<1> QED BY <1>6, <1>11, <1>12, <1>13, <1>14 DEF StreamInv

LEMMA CollectionFailsStep ==
  ASSUME StreamInv, CollectionFails
  PROVE  StreamInv'
<1>1. /\ Deliver(ErrorEvent, ErrorEvent) /\ Fails
      /\ UNCHANGED <<now, world, state, cached, clients, unsent, cut, view, seq, shown, asof,
                     request, conn, retrying, polling>>
  BY DEF CollectionFails, hostVars, viewVars, browserVars
<1>2. TypeOK /\ Wired /\ Chained /\ Recent /\ Dated /\ ViewIsPublished /\ RefreshIsNewer
  BY DEF StreamInv
<1>3. Chained' /\ Recent'
  BY <1>1, <1>2, FailureKeeps
<1>4. ErrorEvent \in EventSet /\ ErrorEvent.type = "error"
  BY DEF EventSet, ErrorEvent
<1>5. /\ inbox' \in [Conns -> Seq(EventSet)]
      /\ \A c \in Conns : \A i \in 1 .. Len(inbox'[c]) :
           \/ i \in 1 .. Len(inbox[c]) /\ inbox'[c][i] = inbox[c][i]
           \/ inbox'[c][i] = ErrorEvent
  BY <1>1, <1>2, <1>4, DeliverFacts
<1>6. pending' = {} /\ callers' = <<>> /\ timer' = Rescheduled
  BY <1>1 DEF Deliver
<1>7. Rescheduled \in BOOLEAN /\ callers' \in Seq(Conns \cup {Broadcast})
  BY <1>2, <1>6 DEF TypeOK, Rescheduled, Awaited
<1>8. spent' \in [refreshes : Nat, failures : Nat]
  BY <1>1, <1>2, FailsIsTyped
<1>9. TypeOK'
  BY <1>1, <1>2, <1>5, <1>6, <1>7, <1>8 DEF TypeOK, EventSet
<1>10. Wired'
  BY <1>1, <1>2 DEF Wired
<1>11. Dated'
  BY <1>1, <1>2, <1>4, <1>5 DEF Dated
<1>12. ViewIsPublished' /\ RefreshIsNewer'
  BY <1>1, <1>2 DEF ViewIsPublished, RefreshIsNewer
<1> QED BY <1>3, <1>9, <1>10, <1>11, <1>12 DEF StreamInv

LEMMA CacheExpiresStep ==
  ASSUME StreamInv, CacheExpires
  PROVE  StreamInv'
<1>1. /\ cached' = {}
      /\ UNCHANGED <<now, world, state, pending, timer, callers, clients, unsent, inbox, cut,
                     view, seq, shown, asof, request, conn, retrying, polling, spent>>
  BY DEF CacheExpires, hostVars, wireVars, viewVars, browserVars
<1>2. TypeOK /\ Wired /\ Chained /\ Recent /\ Dated /\ ViewIsPublished /\ RefreshIsNewer
  BY DEF StreamInv
<1>3. Chained' /\ Recent'
  BY <1>1, <1>2, QuietKeeps
<1>4. TypeOK'
  BY <1>1, <1>2 DEF TypeOK
<1>5. Wired' /\ Dated'
  BY <1>1, <1>2 DEF Wired, Dated
<1>6. ViewIsPublished' /\ RefreshIsNewer'
  BY <1>1, <1>2 DEF ViewIsPublished, RefreshIsNewer
<1> QED BY <1>3, <1>4, <1>5, <1>6 DEF StreamInv

\* Who joins a collection.
LEMMA JoinIsTyped ==
  ASSUME TypeOK, NEW x \in Conns \cup {Broadcast}
  PROVE  Join \in SUBSET Fields /\ Append(callers, x) \in Seq(Conns \cup {Broadcast})
BY DEF TypeOK, Join

LEMMA TimerFiresStep ==
  ASSUME StreamInv, TimerFires
  PROVE  StreamInv'
<1>1. /\ timer' = FALSE /\ callers' = Append(callers, Broadcast) /\ pending' = Join
      /\ UNCHANGED <<now, world, state, cached, clients, unsent, inbox, cut,
                     view, seq, shown, asof, request, conn, retrying, polling, spent>>
  BY DEF TimerFires, hostVars, wireVars, viewVars, browserVars
<1>2. TypeOK /\ Wired /\ Chained /\ Recent /\ Dated /\ ViewIsPublished /\ RefreshIsNewer
  BY DEF StreamInv
<1>3. Chained' /\ Recent'
  BY <1>1, <1>2, QuietKeeps
<1>4. pending' \in SUBSET Fields /\ callers' \in Seq(Conns \cup {Broadcast})
  BY <1>1, <1>2, JoinIsTyped
<1>5. TypeOK'
  BY <1>1, <1>2, <1>4 DEF TypeOK
<1>6. Wired' /\ Dated'
  BY <1>1, <1>2 DEF Wired, Dated
<1>7. ViewIsPublished' /\ RefreshIsNewer'
  BY <1>1, <1>2 DEF ViewIsPublished, RefreshIsNewer
<1> QED BY <1>3, <1>5, <1>6, <1>7 DEF StreamInv

LEMMA NoticeCloseStep ==
  ASSUME StreamInv, NEW c \in Conns, NoticeClose(c)
  PROVE  StreamInv'
<1>1. /\ ~Heard(c) /\ clients' = clients \ {c} /\ timer' = (timer /\ clients' # {})
      /\ UNCHANGED <<now, world, state, cached, pending, callers, unsent, inbox, cut,
                     view, seq, shown, asof, request, conn, retrying, polling, spent>>
  BY DEF NoticeClose, hostVars, wireVars, viewVars, browserVars
<1>2. TypeOK /\ Wired /\ Chained /\ Recent /\ Dated /\ ViewIsPublished /\ RefreshIsNewer
  BY DEF StreamInv
<1>3. Chained' /\ Recent'
  BY <1>1, <1>2, QuietKeeps
<1>4. TypeOK'
  BY <1>1, <1>2 DEF TypeOK
<1>5. Wired'
  BY <1>1, <1>2 DEF Wired, Heard
<1>6. Dated'
  BY <1>1, <1>2 DEF Dated
<1>7. ViewIsPublished' /\ RefreshIsNewer'
  BY <1>1, <1>2 DEF ViewIsPublished, RefreshIsNewer
<1> QED BY <1>3, <1>4, <1>5, <1>6, <1>7 DEF StreamInv

---------------------------------------------------------------------------
(* The steps of the host, the network and restarts.                        *)

LEMMA HostChangesStep ==
  ASSUME StreamInv, NEW k \in Keys, HostChanges(k)
  PROVE  StreamInv'
<1>1. /\ now < MaxNow /\ now' = now + 1
      /\ \E stamp \in {0, now + 1} : world' = [world EXCEPT ![k] = stamp]
      /\ UNCHANGED <<state, cached, pending, timer, callers, clients, unsent, inbox, cut,
                     view, seq, shown, asof, request, conn, retrying, polling, spent>>
  BY DEF HostChanges, serverVars, wireVars, viewVars, browserVars
<1>2. TypeOK /\ Wired /\ Chained /\ Recent /\ Dated /\ ViewIsPublished /\ RefreshIsNewer
  BY DEF StreamInv
<1>3. Chained' /\ Recent'
  BY <1>1, <1>2, QuietKeeps
<1>4. now \in 0 .. MaxNow /\ now' \in 0 .. MaxNow /\ 0 \in 0 .. MaxNow
  BY <1>1, <1>2, Bounds DEF TypeOK
<1>5. world' \in Fields
  BY <1>1, <1>2, <1>4 DEF TypeOK, Fields
<1>6. TypeOK'
  BY <1>1, <1>2, <1>4, <1>5 DEF TypeOK
<1>7. Wired'
  BY <1>1, <1>2 DEF Wired
<1>8. Dated'
  <2>1. \A t \in 0 .. MaxNow : t <= now => t <= now'
    BY <1>1, <1>4
  <2>2. \A u \in Updates : u.at \in 0 .. MaxNow
    BY DEF Updates
  <2>3. \A u \in state' : u.at <= now'
    BY <1>1, <1>2, <2>1, <2>2 DEF TypeOK, Dated
  <2>4. \A b \in Browsers : asof'[b] <= now'
    BY <1>1, <1>2, <2>1 DEF TypeOK, Dated
  <2>5. \A c \in Conns : \A i \in 1 .. Len(inbox'[c]) :
          inbox'[c][i].type # "error" => inbox'[c][i].update.at <= now'
    <3> TAKE c \in Conns
    <3> TAKE i \in 1 .. Len(inbox'[c])
    <3>1. inbox'[c] = inbox[c] /\ inbox[c] \in Seq(EventSet) /\ i \in 1 .. Len(inbox[c])
      BY <1>1, <1>2 DEF TypeOK, EventSet
    <3>2. inbox[c][i] \in EventSet
      BY <3>1
    <3> QED BY <1>2, <2>1, <2>2, <3>1, <3>2, EventTypes DEF Dated
  <2> QED BY <2>3, <2>4, <2>5 DEF Dated
<1>9. ViewIsPublished' /\ RefreshIsNewer'
  BY <1>1, <1>2 DEF ViewIsPublished, RefreshIsNewer
<1> QED BY <1>3, <1>6, <1>7, <1>8, <1>9 DEF StreamInv

LEMMA CutStep ==
  ASSUME StreamInv, NEW b \in Browsers, Cut(b)
  PROVE  StreamInv'
<1>1. /\ conn[b] # NoConn /\ Fails /\ cut' = cut \cup {conn[b]}
      /\ UNCHANGED <<now, world, state, cached, pending, timer, callers, clients, unsent, inbox,
                     view, seq, shown, asof, request, conn, retrying, polling>>
  BY DEF Cut, hostVars, serverVars, viewVars, browserVars
<1>2. TypeOK /\ Wired /\ Chained /\ Recent /\ Dated /\ ViewIsPublished /\ RefreshIsNewer
  BY DEF StreamInv
<1>3. Chained' /\ Recent'
  BY <1>1, <1>2, QuietKeeps
<1>4. spent' \in [refreshes : Nat, failures : Nat] /\ cut' \in SUBSET Conns
  BY <1>1, <1>2, FailsIsTyped DEF TypeOK
<1>5. TypeOK'
  BY <1>1, <1>2, <1>4 DEF TypeOK
<1>6. Wired' /\ Dated'
  BY <1>1, <1>2 DEF Wired, Dated
<1>7. ViewIsPublished' /\ RefreshIsNewer'
  BY <1>1, <1>2 DEF ViewIsPublished, RefreshIsNewer
<1> QED BY <1>3, <1>5, <1>6, <1>7 DEF StreamInv

\* After a restart no connection is heard.
LEMMA ServerRestartsStep ==
  ASSUME StreamInv, ServerRestarts
  PROVE  StreamInv'
<1>1. /\ Fails
      /\ state' = {} /\ cached' = {} /\ pending' = {} /\ timer' = FALSE /\ callers' = <<>>
      /\ clients' = {} /\ unsent' = 0 /\ cut' = Conns
      /\ request' = [b \in Browsers |-> {}]
      /\ UNCHANGED <<now, world, inbox, view, seq, shown, asof, conn, retrying, polling>>
  BY DEF ServerRestarts, hostVars, browserVars
<1>2. TypeOK /\ Wired /\ Chained /\ Recent /\ Dated /\ ViewIsPublished /\ RefreshIsNewer
  BY DEF StreamInv
<1>3. Chained'
  <2>1. \A b \in Browsers : \A i : PatchFits(b, i) => PatchFits(b, i)'
    BY <1>1 DEF PatchFits, Shows
  <2> QED BY <1>1, <1>2, <2>1 DEF Chained
<1>4. Recent'
  BY <1>1 DEF Recent
<1>5. spent' \in [refreshes : Nat, failures : Nat] /\ callers' \in Seq(Conns \cup {Broadcast})
  BY <1>1, <1>2, FailsIsTyped, EmptySeq
<1>6. TypeOK'
  <2>1. request' \in [Browsers -> SUBSET [fields : Fields, began : 0 .. MaxNow]]
    BY <1>1
  <2>2. unsent' \in 0 .. MaxSequence
    BY <1>1, Bounds
  <2> QED BY <1>1, <1>2, <1>5, <2>1, <2>2 DEF TypeOK
<1>7. Wired' /\ Dated'
  BY <1>1, <1>2, Bounds DEF Wired, Dated
<1>8. ViewIsPublished' /\ RefreshIsNewer'
  BY <1>1, <1>2 DEF ViewIsPublished, RefreshIsNewer
<1> QED BY <1>3, <1>4, <1>6, <1>7, <1>8 DEF StreamInv

---------------------------------------------------------------------------
(* The steps of a browser.                                                 *)

Requests == [fields : Fields, began : 0 .. MaxNow]

LEMMA AskFacts ==
  ASSUME StreamInv, NEW b \in Browsers, Ask(b), asof' = asof
  PROVE  request' \in [Browsers -> SUBSET Requests] /\ RefreshIsNewer'
<1>1. /\ request \in [Browsers -> SUBSET Requests] /\ world \in Fields /\ now \in 0 .. MaxNow
      /\ \A a \in Browsers : asof[a] <= now
      /\ \A a \in Browsers : \A r \in request[a] : asof[a] <= r.began
  BY DEF StreamInv, TypeOK, Dated, RefreshIsNewer, Requests
<1> DEFINE asked == [fields |-> world, began |-> now]
<1>2. asked \in Requests /\ asked.began = now
  BY <1>1 DEF Requests
<1>3. request' = [request EXCEPT ![b] = {asked}]
  BY DEF Ask
<1> HIDE DEF asked
<1>4. request' \in [Browsers -> SUBSET Requests]
  BY <1>1, <1>2, <1>3
<1>5. \A a \in Browsers : request'[a] = IF a = b THEN {asked} ELSE request[a]
  BY <1>1, <1>3
<1>6. RefreshIsNewer'
  BY <1>1, <1>2, <1>5 DEF RefreshIsNewer
<1> QED BY <1>4, <1>6

LEMMA ForgetFacts ==
  ASSUME StreamInv, NEW b \in Browsers, request' = [request EXCEPT ![b] = {}],
         \A a \in Browsers : a # b => asof'[a] = asof[a]
  PROVE  request' \in [Browsers -> SUBSET Requests] /\ RefreshIsNewer'
<1>1. /\ request \in [Browsers -> SUBSET Requests]
      /\ \A a \in Browsers : \A r \in request[a] : asof[a] <= r.began
  BY DEF StreamInv, TypeOK, RefreshIsNewer, Requests
<1>2. \A a \in Browsers : request'[a] = IF a = b THEN {} ELSE request[a]
  BY <1>1
<1>3. RefreshIsNewer'
  BY <1>1, <1>2 DEF RefreshIsNewer
<1> QED BY <1>1, <1>3

LEMMA ShowFacts ==
  ASSUME StreamInv, NEW b \in Browsers,
         NEW content \in Fields, NEW sequence \in 0 .. MaxSequence, NEW at \in 0 .. MaxNow,
         at <= now, now' = now, Show(b, content, sequence, content, at)
  PROVE  /\ view' \in [Browsers -> Fields] /\ shown' \in [Browsers -> Fields]
         /\ seq' \in [Browsers -> 0 .. MaxSequence] /\ asof' \in [Browsers -> 0 .. MaxNow]
         /\ request' \in [Browsers -> SUBSET Requests]
         /\ ViewIsPublished' /\ RefreshIsNewer' /\ \A a \in Browsers : asof'[a] <= now'
         /\ seq'[b] = sequence /\ shown'[b] = content
         /\ \A a \in Browsers : a # b => seq'[a] = seq[a] /\ shown'[a] = shown[a]
<1>1. /\ view \in [Browsers -> Fields] /\ shown \in [Browsers -> Fields]
      /\ seq \in [Browsers -> 0 .. MaxSequence] /\ asof \in [Browsers -> 0 .. MaxNow]
      /\ \A a \in Browsers : asof[a] <= now
      /\ \A a \in Browsers : seq[a] > 0 => view[a] = shown[a]
  BY DEF StreamInv, TypeOK, Dated, ViewIsPublished
<1>2. /\ view' = [view EXCEPT ![b] = content] /\ shown' = [shown EXCEPT ![b] = content]
      /\ seq' = [seq EXCEPT ![b] = sequence] /\ asof' = [asof EXCEPT ![b] = at]
      /\ request' = [request EXCEPT ![b] = {}]
  BY DEF Show
<1>3. /\ view' \in [Browsers -> Fields] /\ shown' \in [Browsers -> Fields]
      /\ seq' \in [Browsers -> 0 .. MaxSequence] /\ asof' \in [Browsers -> 0 .. MaxNow]
  BY <1>1, <1>2
<1>4. \A a \in Browsers :
        /\ view'[a] = IF a = b THEN content ELSE view[a]
        /\ shown'[a] = IF a = b THEN content ELSE shown[a]
        /\ seq'[a] = IF a = b THEN sequence ELSE seq[a]
        /\ asof'[a] = IF a = b THEN at ELSE asof[a]
  BY <1>1, <1>2
<1>5. request' \in [Browsers -> SUBSET Requests] /\ RefreshIsNewer'
  BY <1>2, <1>4, ForgetFacts
<1>6. ViewIsPublished' /\ \A a \in Browsers : asof'[a] <= now'
  BY <1>1, <1>4 DEF ViewIsPublished
<1> QED BY <1>3, <1>4, <1>5, <1>6

LEMMA RefreshStep ==
  ASSUME StreamInv, NEW b \in Browsers, Refresh(b) \/ Poll(b)
  PROVE  StreamInv'
<1>1. /\ Ask(b) /\ spent' \in [refreshes : Nat, failures : Nat]
      /\ UNCHANGED <<now, world, state, cached, pending, timer, callers, clients, unsent, inbox,
                     cut, view, seq, shown, asof, conn, retrying, polling>>
  <2>1. spent \in [refreshes : Nat, failures : Nat]
    BY DEF StreamInv, TypeOK
  <2> QED BY <2>1 DEF Refresh, Poll, hostVars, serverVars, wireVars, browserVars
<1>2. TypeOK /\ Wired /\ Chained /\ Recent /\ Dated /\ ViewIsPublished /\ RefreshIsNewer
  BY DEF StreamInv
<1>3. Chained' /\ Recent'
  BY <1>1, <1>2, QuietKeeps
<1>4. request' \in [Browsers -> SUBSET Requests] /\ RefreshIsNewer'
  BY <1>1, AskFacts
<1>5. TypeOK'
  BY <1>1, <1>2, <1>4 DEF TypeOK, Requests
<1>6. Wired' /\ Dated' /\ ViewIsPublished'
  BY <1>1, <1>2 DEF Wired, Dated, ViewIsPublished
<1> QED BY <1>3, <1>4, <1>5, <1>6 DEF StreamInv

LEMMA RequestFailsStep ==
  ASSUME StreamInv, NEW b \in Browsers, RequestFails(b)
  PROVE  StreamInv'
<1>1. /\ Fails /\ request' = [request EXCEPT ![b] = {}]
      /\ UNCHANGED <<now, world, state, cached, pending, timer, callers, clients, unsent, inbox,
                     cut, view, seq, shown, asof, conn, retrying, polling>>
  BY DEF RequestFails, hostVars, serverVars, wireVars, browserVars
<1>2. TypeOK /\ Wired /\ Chained /\ Recent /\ Dated /\ ViewIsPublished /\ RefreshIsNewer
  BY DEF StreamInv
<1>3. Chained' /\ Recent'
  BY <1>1, <1>2, QuietKeeps
<1>4. request' \in [Browsers -> SUBSET Requests] /\ RefreshIsNewer'
  BY <1>1, ForgetFacts
<1>5. spent' \in [refreshes : Nat, failures : Nat]
  BY <1>1, <1>2, FailsIsTyped
<1>6. TypeOK'
  BY <1>1, <1>2, <1>4, <1>5 DEF TypeOK, Requests
<1>7. Wired' /\ Dated' /\ ViewIsPublished'
  BY <1>1, <1>2 DEF Wired, Dated, ViewIsPublished
<1> QED BY <1>3, <1>4, <1>6, <1>7 DEF StreamInv

LEMMA AnsweredStep ==
  ASSUME StreamInv, NEW b \in Browsers, Answered(b)
  PROVE  StreamInv'
<1>1. PICK r \in request[b] : \E fields \in Collections(r.fields) :
        /\ Show(b, fields, 0, fields, now)
        /\ UNCHANGED <<hostVars, serverVars, wireVars, browserVars, spent>>
  BY DEF Answered
<1>2. PICK fields \in Collections(r.fields) :
        /\ Show(b, fields, 0, fields, now)
        /\ UNCHANGED <<hostVars, serverVars, wireVars, browserVars, spent>>
  BY <1>1
<1>3. /\ Show(b, fields, 0, fields, now)
      /\ UNCHANGED <<now, world, state, cached, pending, timer, callers, clients, unsent, inbox,
                     cut, conn, retrying, polling, spent>>
  BY <1>2 DEF hostVars, serverVars, wireVars, browserVars
<1>4. TypeOK /\ Wired /\ Chained /\ Recent /\ Dated /\ ViewIsPublished /\ RefreshIsNewer
  BY DEF StreamInv
<1>5. fields \in Fields
  BY DEF Collections
<1>6. now \in 0 .. MaxNow /\ now <= now /\ 0 \in 0 .. MaxSequence
  BY <1>4, Bounds DEF TypeOK
<1>7. /\ view' \in [Browsers -> Fields] /\ shown' \in [Browsers -> Fields]
      /\ seq' \in [Browsers -> 0 .. MaxSequence] /\ asof' \in [Browsers -> 0 .. MaxNow]
      /\ request' \in [Browsers -> SUBSET Requests]
      /\ ViewIsPublished' /\ RefreshIsNewer' /\ \A a \in Browsers : asof'[a] <= now'
      /\ seq'[b] = 0
      /\ \A a \in Browsers : a # b => seq'[a] = seq[a] /\ shown'[a] = shown[a]
  BY <1>3, <1>5, <1>6, ShowFacts
<1>8. Chained' /\ Recent'
  BY <1>3, <1>4, <1>7, QuietKeeps
<1>9. TypeOK'
  BY <1>3, <1>4, <1>7 DEF TypeOK, Requests
<1>10. Wired' /\ Dated'
  BY <1>3, <1>4, <1>7 DEF Wired, Dated
<1> QED BY <1>7, <1>8, <1>9, <1>10 DEF StreamInv

LEMMA ConnectStep ==
  ASSUME StreamInv, NEW b \in Browsers, NEW c \in Conns, Connect(b, c)
  PROVE  StreamInv'
<1>1. /\ conn[b] = NoConn /\ Free(c) /\ conn' = [conn EXCEPT ![b] = c]
      /\ retrying' = retrying \ {b} /\ seq' = [seq EXCEPT ![b] = 0]
      /\ clients' = clients \cup {c} /\ cut' = cut \ {c}
      /\ \/ /\ cached # {} /\ inbox' = [inbox EXCEPT ![c] = <<Full(CHOOSE u \in cached : TRUE)>>]
            /\ timer' = TRUE /\ UNCHANGED <<pending, callers>>
         \/ /\ inbox' = [inbox EXCEPT ![c] = <<>>] /\ pending' = Join
            /\ callers' = Append(callers, c) /\ UNCHANGED timer
      /\ UNCHANGED <<now, world, state, cached, unsent, view, shown, asof, request, polling, spent>>
  BY DEF Connect, hostVars
<1>2. TypeOK /\ Wired /\ Chained /\ Recent /\ Dated /\ ViewIsPublished /\ RefreshIsNewer
  BY DEF StreamInv
<1>3. /\ inbox \in [Conns -> Seq(EventSet)] /\ conn \in [Browsers -> Conns \cup {NoConn}]
      /\ seq \in [Browsers -> 0 .. MaxSequence]
  BY <1>2 DEF TypeOK, EventSet
<1>4. PICK first \in Seq(EventSet) :
        /\ inbox' = [inbox EXCEPT ![c] = first]
        /\ \/ first = <<>>
           \/ \E u \in state : first = <<Full(u)>> /\ Full(u) \in Events
  <2>1. CASE cached # {} /\ inbox' = [inbox EXCEPT ![c] = <<Full(CHOOSE u \in cached : TRUE)>>]
    <3> DEFINE u == CHOOSE x \in cached : TRUE
    <3>1. u \in state /\ u \in Updates
      BY <2>1, <1>2 DEF Wired, TypeOK
    <3>2. Full(u) \in Events
      BY <3>1, Bounds DEF Full, Events
    <3>3. <<Full(u)>> \in Seq(EventSet)
      BY <3>2 DEF EventSet
    <3> QED BY <2>1, <3>1, <3>2, <3>3
  <2>2. CASE inbox' = [inbox EXCEPT ![c] = <<>>]
    BY <2>2, EmptySeq
  <2> QED BY <1>1, <2>1, <2>2
<1>5. inbox'[c] = first /\ \A x \in Conns : x # c => inbox'[x] = inbox[x]
  BY <1>3, <1>4
<1>6. \A a \in Browsers : /\ conn'[a] = IF a = b THEN c ELSE conn[a]
                          /\ seq'[a] = IF a = b THEN 0 ELSE seq[a]
                          /\ conn[a] # c
  BY <1>1, <1>3 DEF Free
<1>7. Chained' /\ Recent'
  <2>1. ASSUME NEW a \in Browsers, a # b
        PROVE  /\ conn'[a] # NoConn => \A i \in 1 .. Len(inbox'[conn'[a]]) : PatchFits(a, i)'
               /\ conn'[a] \in Conns \ cut' => RecentlyHeard(a)'
    <3>1. /\ conn'[a] = conn[a] /\ seq'[a] = seq[a] /\ shown'[a] = shown[a]
          /\ conn[a] # NoConn => inbox'[conn[a]] = inbox[conn[a]]
          /\ conn'[a] \in Conns \ cut' => conn[a] \in Conns \ cut
      BY <2>1, <1>1, <1>3, <1>5, <1>6
    <3> QED BY <1>1, <1>2, <3>1, SameEvents
  <2>2. \A i \in 1 .. Len(inbox'[conn'[b]]) : PatchFits(b, i)'
    <3>1. inbox'[conn'[b]] = first /\ seq'[b] = 0
      BY <1>5, <1>6
    <3>2. \A i \in 1 .. Len(first) : first[i].type # "patch"
      <4>1. CASE first = <<>>
        BY <4>1
      <4>2. CASE \E u \in state : first = <<Full(u)>>
        BY <4>2 DEF Full
      <4> QED BY <4>1, <4>2, <1>4
    <3> QED BY <3>1, <3>2 DEF PatchFits
  <2>3. RecentlyHeard(b)'
    <3>1. inbox'[conn'[b]] = first /\ seq'[b] = 0
      BY <1>5, <1>6
    <3>2. CASE first = <<>>
      BY <3>1, <3>2 DEF RecentlyHeard
    <3>3. CASE \E u \in state : first = <<Full(u)>> /\ Full(u) \in Events
      <4>1. PICK u \in state : first = <<Full(u)>>
        BY <3>3
      <4>2. u.sequence \in 1 .. MaxSequence /\ Full(u).update = u /\ state' = state
        BY <1>1, <1>2 DEF TypeOK, Updates, Full
      <4>3. first # <<>> /\ Len(first) = 1 /\ first[1] = Full(u)
        BY <4>1
      <4>4. Back(Brings(Full(u)), 0)'
        BY <4>2, Bounds DEF Back, Brings
      <4>5. 0 \in 0 .. unsent'
        BY <1>1, <1>2, Bounds DEF TypeOK
      <4> QED BY <3>1, <4>3, <4>4, <4>5 DEF RecentlyHeard, Brings
    <3> QED BY <1>4, <3>2, <3>3
  <2> QED BY <2>1, <2>2, <2>3 DEF Chained, Recent
<1>8. pending' \in SUBSET Fields /\ callers' \in Seq(Conns \cup {Broadcast}) /\ timer' \in BOOLEAN
  <2>1. Join \in SUBSET Fields /\ Append(callers, c) \in Seq(Conns \cup {Broadcast})
    BY <1>2, JoinIsTyped
  <2>2. pending \in SUBSET Fields /\ callers \in Seq(Conns \cup {Broadcast}) /\ timer \in BOOLEAN
    BY <1>2 DEF TypeOK
  <2> QED BY <1>1, <2>1, <2>2, Zenon
<1>9. TypeOK'
  <2>1. inbox' \in [Conns -> Seq(EventSet)]
    BY <1>3, <1>4
  <2>2. conn' \in [Browsers -> Conns \cup {NoConn}] /\ seq' \in [Browsers -> 0 .. MaxSequence]
    BY <1>1, <1>3, Bounds
  <2> QED BY <1>1, <1>2, <1>8, <2>1, <2>2 DEF TypeOK, EventSet
<1>10. Wired'
  <2>1. \A a \in Browsers : conn'[a] \in Conns \ cut' => conn'[a] \in clients'
    BY <1>1, <1>2, <1>6 DEF Wired
  <2>2. \A a, x \in Browsers : a # x /\ conn'[a] # NoConn => conn'[a] # conn'[x]
    BY <1>1, <1>2, <1>6 DEF Wired
  <2> QED BY <1>1, <1>2, <2>1, <2>2 DEF Wired
<1>11. Dated'
  <2>1. ASSUME NEW x \in Conns, NEW i \in 1 .. Len(inbox'[x]), inbox'[x][i].type # "error"
        PROVE  inbox'[x][i].update.at <= now'
    <3>1. CASE x # c
      BY <3>1, <2>1, <1>1, <1>2, <1>5 DEF Dated
    <3>2. CASE x = c
      <4>1. first # <<>>
        BY <3>2, <2>1, <1>5
      <4>2. PICK u \in state : first = <<Full(u)>>
        BY <4>1, <1>4
      <4>3. inbox'[x][i] = Full(u)
        BY <3>2, <2>1, <1>5, <4>2
      <4> QED BY <4>3, <1>1, <1>2 DEF Dated, Full
    <3> QED BY <3>1, <3>2
  <2> QED BY <2>1, <1>1, <1>2 DEF Dated
<1>12. ViewIsPublished' /\ RefreshIsNewer'
  BY <1>1, <1>2, <1>6 DEF ViewIsPublished, RefreshIsNewer
<1> QED BY <1>7, <1>9, <1>10, <1>11, <1>12 DEF StreamInv

LEMMA ReceiveSnapshotStep ==
  ASSUME StreamInv, NEW b \in Browsers, ReceiveSnapshot(b)
  PROVE  StreamInv'
<1> DEFINE u == Event(b).update
<1>1. /\ Arrived(b) /\ Event(b).type = "snapshot" /\ Consume(b)
      /\ Show(b, u.fields, u.sequence, u.fields, u.at)
      /\ polling' = polling \ {b}
      /\ UNCHANGED <<now, world, state, cached, pending, timer, callers, clients, unsent,
                     cut, conn, retrying, spent>>
  BY DEF ReceiveSnapshot, hostVars, serverVars
<1>2. TypeOK /\ Wired /\ Chained /\ Recent /\ Dated /\ ViewIsPublished /\ RefreshIsNewer
  BY DEF StreamInv
<1>3. u \in Updates /\ u.at <= now
  BY <1>1, <1>2, EventFacts
<1>4. u.fields \in Fields /\ u.sequence \in 0 .. MaxSequence /\ u.at \in 0 .. MaxNow
  BY <1>3, Bounds DEF Updates
<1> HIDE DEF u
<1>5. /\ view' \in [Browsers -> Fields] /\ shown' \in [Browsers -> Fields]
      /\ seq' \in [Browsers -> 0 .. MaxSequence] /\ asof' \in [Browsers -> 0 .. MaxNow]
      /\ request' \in [Browsers -> SUBSET Requests]
      /\ ViewIsPublished' /\ RefreshIsNewer' /\ \A a \in Browsers : asof'[a] <= now'
      /\ seq'[b] = u.sequence /\ shown'[b] = u.fields
      /\ \A a \in Browsers : a # b => seq'[a] = seq[a] /\ shown'[a] = shown[a]
  BY <1>1, <1>3, <1>4, ShowFacts
<1>6. /\ Chained' /\ Recent' /\ inbox' \in [Conns -> Seq(EventSet)]
      /\ \A c \in Conns : \A i \in 1 .. Len(inbox'[c]) :
           \E j \in 1 .. Len(inbox[c]) : inbox'[c][i] = inbox[c][j]
  BY <1>1, <1>2, <1>5, ConsumingKeeps DEF u
<1>7. TypeOK'
  BY <1>1, <1>2, <1>5, <1>6 DEF TypeOK, EventSet, Requests
<1>8. Wired'
  BY <1>1, <1>2 DEF Wired
<1>9. Dated'
  <2>1. ASSUME NEW c \in Conns, NEW i \in 1 .. Len(inbox'[c]), inbox'[c][i].type # "error"
        PROVE  inbox'[c][i].update.at <= now'
    <3>1. PICK j \in 1 .. Len(inbox[c]) : inbox'[c][i] = inbox[c][j]
      BY <1>6
    <3> QED BY <2>1, <3>1, <1>1, <1>2 DEF Dated
  <2> QED BY <2>1, <1>1, <1>2, <1>5 DEF Dated
<1> QED BY <1>5, <1>6, <1>7, <1>8, <1>9 DEF StreamInv

\* A patch that applies makes the content the server published.
LEMMA PatchedIsPublished ==
  ASSUME TypeOK, ViewIsPublished, Chained, Dated, NEW b \in Browsers,
         Arrived(b), Event(b).type = "patch", Applies(b, Event(b))
  PROVE  Patched(b, Event(b)) = Event(b).update.fields
<1> DEFINE e == Event(b)
           s == inbox[conn[b]]
<1>1. /\ conn[b] \in Conns /\ conn[b] # NoConn /\ e.update \in Updates
      /\ 1 \in 1 .. Len(s) /\ e = s[1]
  BY EventFacts, Bounds
<1>2. PatchFits(b, 1)
  BY <1>1 DEF Chained
<1>3. seq[b] > 0 /\ seq[b] = e.base /\ e.type = "patch"
  BY DEF Applies
<1>4. Fits(Shows(b), e)
  BY <1>1, <1>2, <1>3 DEF PatchFits
<1>5. view[b] = shown[b]
  BY <1>3 DEF ViewIsPublished
<1> HIDE DEF e
<1>6. \A k \in Keys \ e.changes : e.update.fields[k] = IF k \in e.removed THEN 0 ELSE view[b][k]
  BY <1>3, <1>4, <1>5 DEF Fits, Shows
<1>7. e.update.fields \in [Keys -> 0 .. MaxNow]
  BY <1>1 DEF Updates, Fields
<1>8. Patched(b, e) = [k \in Keys |-> e.update.fields[k]]
  BY <1>6 DEF Patched
<1> QED BY <1>7, <1>8 DEF e

LEMMA PatchAppliesStep ==
  ASSUME StreamInv, NEW b \in Browsers, ReceivePatch(b), Applies(b, Event(b))
  PROVE  StreamInv'
<1> DEFINE u == Event(b).update
<1>1. TypeOK /\ Wired /\ Chained /\ Recent /\ Dated /\ ViewIsPublished /\ RefreshIsNewer
  BY DEF StreamInv
<1>2. /\ Arrived(b) /\ Event(b).type = "patch" /\ Consume(b)
      /\ Show(b, Patched(b, Event(b)), u.sequence, u.fields, u.at)
      /\ polling' = polling \ {b}
      /\ UNCHANGED <<now, world, state, cached, pending, timer, callers, clients, unsent,
                     cut, conn, retrying, spent>>
  BY DEF ReceivePatch, hostVars, serverVars
<1>3. Show(b, u.fields, u.sequence, u.fields, u.at)
  BY <1>1, <1>2, PatchedIsPublished
<1>4. u \in Updates /\ u.at <= now
  BY <1>1, <1>2, EventFacts
<1>5. u.fields \in Fields /\ u.sequence \in 0 .. MaxSequence /\ u.at \in 0 .. MaxNow
  BY <1>4, Bounds DEF Updates
<1> HIDE DEF u
<1>6. /\ view' \in [Browsers -> Fields] /\ shown' \in [Browsers -> Fields]
      /\ seq' \in [Browsers -> 0 .. MaxSequence] /\ asof' \in [Browsers -> 0 .. MaxNow]
      /\ request' \in [Browsers -> SUBSET Requests]
      /\ ViewIsPublished' /\ RefreshIsNewer' /\ \A a \in Browsers : asof'[a] <= now'
      /\ seq'[b] = u.sequence /\ shown'[b] = u.fields
      /\ \A a \in Browsers : a # b => seq'[a] = seq[a] /\ shown'[a] = shown[a]
  BY <1>2, <1>3, <1>4, <1>5, ShowFacts
<1>7. /\ Chained' /\ Recent' /\ inbox' \in [Conns -> Seq(EventSet)]
      /\ \A c \in Conns : \A i \in 1 .. Len(inbox'[c]) :
           \E j \in 1 .. Len(inbox[c]) : inbox'[c][i] = inbox[c][j]
  BY <1>1, <1>2, <1>6, ConsumingKeeps DEF u
<1>8. TypeOK'
  BY <1>1, <1>2, <1>6, <1>7 DEF TypeOK, EventSet, Requests
<1>9. Wired'
  BY <1>1, <1>2 DEF Wired
<1>10. Dated'
  <2>1. ASSUME NEW c \in Conns, NEW i \in 1 .. Len(inbox'[c]), inbox'[c][i].type # "error"
        PROVE  inbox'[c][i].update.at <= now'
    <3>1. PICK j \in 1 .. Len(inbox[c]) : inbox'[c][i] = inbox[c][j]
      BY <1>7
    <3> QED BY <2>1, <3>1, <1>1, <1>2 DEF Dated
  <2> QED BY <2>1, <1>1, <1>2, <1>6 DEF Dated
<1> QED BY <1>6, <1>7, <1>8, <1>9, <1>10 DEF StreamInv

\* What is left of the invariant when a browser left its connection.
LEMMA LeavingFrame ==
  ASSUME StreamInv, NEW b \in Browsers, conn[b] # NoConn, Leave(b), polling' \in SUBSET Browsers,
         UNCHANGED <<now, world, state, cached, pending, timer, callers, clients, unsent, cut,
                     view, shown, asof, spent>>,
         seq' = seq \/ seq' = [seq EXCEPT ![b] = 0],
         request' \in [Browsers -> SUBSET Requests], RefreshIsNewer'
  PROVE  StreamInv'
<1>1. TypeOK /\ Wired /\ Chained /\ Recent /\ Dated /\ ViewIsPublished /\ RefreshIsNewer
  BY DEF StreamInv
<1>2. seq \in [Browsers -> 0 .. MaxSequence]
  BY <1>1 DEF TypeOK
<1>3. seq' \in [Browsers -> 0 .. MaxSequence] /\ \A a \in Browsers : seq'[a] \in {seq[a], 0}
  BY <1>2, Bounds
<1>4. \A a \in Browsers : a # b => seq'[a] = seq[a] /\ shown'[a] = shown[a]
  BY <1>2
<1>5. /\ Chained' /\ Recent'
      /\ \A a \in Browsers : conn'[a] \in {conn[a], NoConn}
      /\ inbox' \in [Conns -> Seq(EventSet)] /\ conn' \in [Browsers -> Conns \cup {NoConn}]
      /\ \A c \in Conns : inbox'[c] = inbox[c] \/ inbox'[c] = <<>>
  BY <1>1, <1>4, LeavingKeeps
<1>6. retrying' \in SUBSET Browsers
  BY <1>1 DEF TypeOK, Leave
<1>7. TypeOK'
  BY <1>1, <1>3, <1>5, <1>6 DEF TypeOK, EventSet, Requests
<1>8. Wired'
  <2>1. \A a \in Browsers : conn'[a] \in Conns \ cut' => conn'[a] \in clients'
    BY <1>1, <1>5, Bounds DEF Wired
  <2>2. \A a, x \in Browsers : a # x /\ conn'[a] # NoConn => conn'[a] # conn'[x]
    BY <1>1, <1>5 DEF Wired
  <2> QED BY <1>1, <2>1, <2>2 DEF Wired
<1>9. Dated'
  <2>1. ASSUME NEW c \in Conns, NEW i \in 1 .. Len(inbox'[c]), inbox'[c][i].type # "error"
        PROVE  inbox'[c][i].update.at <= now'
    <3>1. inbox'[c] = inbox[c]
      BY <2>1, <1>5, EmptySeq
    <3> QED BY <2>1, <3>1, <1>1 DEF Dated
  <2> QED BY <2>1, <1>1 DEF Dated
<1>10. ViewIsPublished'
  BY <1>1, <1>3 DEF ViewIsPublished
<1> QED BY <1>5, <1>7, <1>8, <1>9, <1>10 DEF StreamInv

LEMMA ReceivePatchStep ==
  ASSUME StreamInv, NEW b \in Browsers, ReceivePatch(b)
  PROVE  StreamInv'
<1>1. CASE Applies(b, Event(b))
  BY <1>1, PatchAppliesStep
<1>2. CASE ~Applies(b, Event(b))
  <2>1. /\ conn[b] # NoConn /\ Leave(b) /\ seq' = [seq EXCEPT ![b] = 0]
        /\ polling' = polling \ {b}
        /\ UNCHANGED <<now, world, state, cached, pending, timer, callers, clients, unsent, cut,
                       view, shown, asof, request, spent>>
    BY <1>2 DEF ReceivePatch, Arrived, hostVars, serverVars
  <2>2. polling' \in SUBSET Browsers /\ request' \in [Browsers -> SUBSET Requests] /\ RefreshIsNewer'
    BY <2>1 DEF StreamInv, TypeOK, RefreshIsNewer, Requests
  <2> QED BY <2>1, <2>2, LeavingFrame
<1> QED BY <1>1, <1>2

LEMMA InterruptedStep ==
  ASSUME StreamInv, NEW b \in Browsers, ReceiveError(b) \/ ConnectionBroken(b)
  PROVE  StreamInv'
<1>1. /\ conn[b] # NoConn /\ Leave(b) /\ polling' = polling \cup {b}
      /\ UNCHANGED <<now, world, state, cached, pending, timer, callers, clients, unsent, cut,
                     view, seq, shown, asof, spent>>
      /\ Ask(b) \/ UNCHANGED request
  BY Bounds DEF ReceiveError, ConnectionBroken, Interrupted, Arrived, hostVars, serverVars,
                StreamInv, TypeOK
<1>2. request' \in [Browsers -> SUBSET Requests] /\ RefreshIsNewer'
  <2>1. CASE Ask(b)
    BY <1>1, <2>1, AskFacts
  <2>2. CASE UNCHANGED request
    BY <1>1, <2>2 DEF StreamInv, TypeOK, RefreshIsNewer, Requests
  <2> QED BY <1>1, <2>1, <2>2
<1>3. polling' \in SUBSET Browsers
  BY <1>1 DEF StreamInv, TypeOK
<1> QED BY <1>1, <1>2, <1>3, LeavingFrame

---------------------------------------------------------------------------
(* The theorems.                                                           *)

LEMMA StreamInvInitially == Init => StreamInv
<1> SUFFICES ASSUME Init PROVE StreamInv
  OBVIOUS
<1>1. TypeOK
  <2>1. /\ world \in Fields /\ Empty \in Fields /\ 0 \in 0 .. MaxNow /\ now \in 0 .. MaxNow
        /\ 0 \in 0 .. MaxSequence
    BY Bounds DEF Init, Empty, Fields
  <2>2. /\ view \in [Browsers -> Fields] /\ shown \in [Browsers -> Fields]
        /\ seq \in [Browsers -> 0 .. MaxSequence] /\ asof \in [Browsers -> 0 .. MaxNow]
        /\ conn \in [Browsers -> Conns \cup {NoConn}]
    BY <2>1 DEF Init
  <2>3. request \in [Browsers -> SUBSET [fields : Fields, began : 0 .. MaxNow]]
    BY <2>1 DEF Init
  <2>4. inbox \in [Conns -> Seq(Events \cup {ErrorEvent})] /\ callers \in Seq(Conns \cup {Broadcast})
    BY EmptySeq DEF Init
  <2>5. spent \in [refreshes : Nat, failures : Nat]
    BY DEF Init
  <2> QED BY <2>1, <2>2, <2>3, <2>4, <2>5 DEF Init, TypeOK
<1>2. Chained /\ Recent
  <2>1. \A b \in Browsers : conn[b] = NoConn /\ conn[b] \notin Conns
    BY Bounds DEF Init
  <2> QED BY <2>1 DEF Chained, Recent
<1>3. Wired /\ Dated
  BY Bounds DEF Init, Wired, Dated
<1>4. ViewIsPublished /\ RefreshIsNewer
  BY DEF Init, ViewIsPublished, RefreshIsNewer
<1> QED BY <1>1, <1>2, <1>3, <1>4 DEF StreamInv

LEMMA StreamInvIsKept == StreamInv /\ [Next]_vars => StreamInv'
<1> SUFFICES ASSUME StreamInv, [Next]_vars PROVE StreamInv'
  OBVIOUS
<1>1. ASSUME NEW b \in Browsers, Browse(b) PROVE StreamInv'
  BY <1>1, ConnectStep, ReceiveSnapshotStep, ReceivePatchStep, InterruptedStep, RefreshStep,
     AnsweredStep, RequestFailsStep, CutStep DEF Browse
<1>2. CASE Collected
  BY <1>2, CollectedStep
<1>3. CASE CollectionFails
  BY <1>3, CollectionFailsStep
<1>4. CASE CacheExpires
  BY <1>4, CacheExpiresStep
<1>5. CASE TimerFires
  BY <1>5, TimerFiresStep
<1>6. CASE \E c \in Conns : NoticeClose(c)
  BY <1>6, NoticeCloseStep
<1>7. CASE \E k \in Keys : HostChanges(k)
  BY <1>7, HostChangesStep
<1>8. CASE ServerRestarts
  BY <1>8, ServerRestartsStep
<1>9. CASE UNCHANGED vars
  <2>1. TypeOK' /\ ViewIsPublished' /\ RefreshIsNewer' /\ Wired' /\ Dated'
    BY <1>9 DEF StreamInv, vars, TypeOK, ViewIsPublished, RefreshIsNewer, Wired, Dated
  <2>2. Chained' /\ Recent'
    BY <1>9, QuietKeeps DEF StreamInv, vars
  <2> QED BY <2>1, <2>2 DEF StreamInv
<1> QED BY <1>1, <1>2, <1>3, <1>4, <1>5, <1>6, <1>7, <1>8, <1>9 DEF Next

\* The invariant is one.
THEOREM StreamInvariant == Spec => []StreamInv
<1> QED BY StreamInvInitially, StreamInvIsKept, PTL DEF Spec

\* What a browser shows under a sequence is what the server published under it: no
\* patch is applied to something else than it was made from, for any number of
\* browsers, although the numbers begin again.
THEOREM StreamIsSoundHolds == Spec => []StreamIsSound
<1>1. StreamInv => StreamIsSound
  BY DEF StreamInv, StreamIsSound
<1> QED BY <1>1, StreamInvariant, PTL

\* The answer to a refresh or a poll never replaces something newer.
THEOREM RefreshIsNewerHolds == Spec => []RefreshIsNewer
<1>1. StreamInv => RefreshIsNewer
  BY DEF StreamInv
<1> QED BY <1>1, StreamInvariant, PTL
=============================================================================
