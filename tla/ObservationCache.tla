--------------------------- MODULE ObservationCache ---------------------------
(*****************************************************************************)
(* observation-cache.js: the results of slow observations (ps, ss, session   *)
(* telemetry) by key, kept for a short time, at most a few of them, with     *)
(* one load in progress shared by all that ask for it.                       *)
(*                                                                           *)
(* Loads are numbered in the order in which they begin.  A call is an event  *)
(* of its own, and so are the end of a load, which answers all that wait for *)
(* it, and what a caller does with its answer: a result that is no use       *)
(* removes the key (observedTopProcessResult).                               *)
(*****************************************************************************)
EXTENDS Naturals, Sequences, SequencesExt

CONSTANTS
  Keys, Callers,
  TTL,         \* ttlMs
  MaxEntries,  \* maxEntries
  MaxLoads,    \* bound: loads
  MaxNow       \* bound: time

VARIABLES
  now,
  entries,  \* the Map, in its order: key, load, and whether that is in progress
  loads,    \* every load: its key, when it ended and how
  dropped,  \* ghost: loads whose entry was evicted or deleted before they ended
  caller    \* what each caller asked, when, and which load it waits for or got

vars == <<now, entries, loads, dropped, caller>>

Entries == [key : Keys, load : 1 .. MaxLoads, pending : BOOLEAN]
Loads   == [key : Keys, ended : 0 .. MaxNow, result : {"running", "useful", "useless", "error"}]
Calls   == [at : {"idle", "waiting", "answered"}, key : Keys, fresh : BOOLEAN,
            asked : 0 .. MaxNow, load : 0 .. MaxLoads]

Resting == [at |-> "idle", key |-> CHOOSE k \in Keys : TRUE, fresh |-> FALSE,
            asked |-> 0, load |-> 0]

TypeOK ==
  /\ now \in 0 .. MaxNow
  /\ entries \in Seq(Entries) /\ Len(entries) <= MaxEntries
  /\ loads \in Seq(Loads) /\ Len(loads) <= MaxLoads
  /\ dropped \in SUBSET (1 .. MaxLoads)
  /\ caller \in [Callers -> Calls]

Current(k)  == {e \in ToSet(entries) : e.key = k}
Without(k)  == IF Current(k) = {} THEN entries ELSE RemoveAt(entries, CHOOSE i \in DOMAIN entries : entries[i].key = k)
Running(l)  == loads[l].result = "running"
InFlight(s) == {e.load : e \in {e \in ToSet(s) : e.pending}}

\* Mistake: a result is good for one moment too many.
UnexpiredAt(e) == loads[e.load].ended + TTL >= now

\* expiresAt > clock().
Unexpired(e) == loads[e.load].ended + TTL > now

\* trim.
Trimmed(s) == IF Len(s) > MaxEntries THEN SubSeq(s, Len(s) - MaxEntries + 1, Len(s)) ELSE s

\* Of the entries s only some are kept.
Kept(s, some) == entries' = some /\ dropped' = dropped \cup (InFlight(s) \ InFlight(some))

Asks(c, k, fresh, at, l) ==
  /\ caller[c].at = "idle"
  /\ caller' = [caller EXCEPT ![c] = [at |-> at, key |-> k, fresh |-> fresh,
                                      asked |-> now, load |-> l]]
  /\ UNCHANGED now

Shared(e, fresh) == e.pending
Usable(e, fresh) == ~e.pending /\ ~fresh /\ Unexpired(e)

\* get: the load in progress is shared, also with a caller that wants a fresh one.
Join(c, k, fresh) ==
  \E e \in Current(k) :
    /\ Shared(e, fresh)
    /\ Asks(c, k, fresh, "waiting", e.load)
    /\ UNCHANGED <<entries, loads, dropped>>

\* get: a result that is recent enough; its entry becomes the last to be evicted.
Hit(c, k, fresh) ==
  \E e \in Current(k) :
    /\ Usable(e, fresh)
    /\ Asks(c, k, fresh, "answered", e.load)
    /\ entries' = Append(Without(k), e)
    /\ UNCHANGED <<loads, dropped>>

\* get: otherwise a new load begins.
Miss(c, k, fresh) ==
  /\ \A e \in Current(k) : ~Shared(e, fresh) /\ ~Usable(e, fresh)
  /\ Len(loads) < MaxLoads
  /\ loads' = Append(loads, [key |-> k, ended |-> 0, result |-> "running"])
  /\ LET added == Append(Without(k), [key |-> k, load |-> Len(loads'), pending |-> TRUE])
     IN Kept(added, Trimmed(added))
  /\ Asks(c, k, fresh, "waiting", Len(loads'))

Answered(l) ==
  [c \in Callers |-> IF caller[c].at = "waiting" /\ caller[c].load = l
                     THEN [caller[c] EXCEPT !.at = "answered"] ELSE caller[c]]

\* What an ended load leaves, if its entry is still there.
Stored(l, result) ==
  IF result = "error"
  THEN IF \E e \in Current(loads[l].key) : e.load = l THEN Without(loads[l].key) ELSE entries
  ELSE [i \in DOMAIN entries |-> IF entries[i].load = l
                                 THEN [entries[i] EXCEPT !.pending = FALSE] ELSE entries[i]]

LoadEnds(l, result) ==
  /\ Running(l) /\ result # "running"
  /\ loads' = [loads EXCEPT ![l].ended = now, ![l].result = result]
  /\ entries' = Stored(l, result)
  /\ caller' = Answered(l)
  /\ UNCHANGED <<now, dropped>>

\* The caller goes on; a result that is no use is deleted, whichever load the key
\* has by now.
Goes(c) ==
  /\ caller[c].at = "answered"
  /\ Kept(entries, IF loads[caller[c].load].result = "useless" THEN Without(caller[c].key)
                    ELSE entries)
  /\ caller' = [caller EXCEPT ![c] = Resting]
  /\ UNCHANGED <<now, loads>>

Tick == now < MaxNow /\ now' = now + 1 /\ UNCHANGED <<entries, loads, dropped, caller>>

Init ==
  /\ now = 0 /\ entries = <<>> /\ loads = <<>> /\ dropped = {}
  /\ caller = [c \in Callers |-> Resting]

Next ==
  \/ \E c \in Callers :
       \/ \E k \in Keys, fresh \in BOOLEAN : Join(c, k, fresh) \/ Hit(c, k, fresh) \/ Miss(c, k, fresh)
       \/ Goes(c)
  \/ \E l \in DOMAIN loads, result \in {"useful", "useless", "error"} : LoadEnds(l, result)
  \/ Tick

Spec == Init /\ [][Next]_vars

---------------------------------------------------------------------------
(* Properties.                                                             *)

\* What a caller gets was still being loaded when it asked, or, unless it asked
\* for a fresh one, had ended less than the time to live before.
AnswersAreRecent ==
  \A c \in Callers : caller[c].at = "answered" =>
    LET ended == loads[caller[c].load].ended
    IN IF caller[c].fresh THEN ended >= caller[c].asked
       ELSE ended >= caller[c].asked \/ ended + TTL > caller[c].asked

\* There is one load in progress for a key, except next to loads whose entry was
\* evicted or deleted: the same observation is not made twice at a time.
OneInProgress ==
  \A l, m \in DOMAIN loads :
    l < m /\ Running(l) /\ Running(m) /\ loads[l].key = loads[m].key => l \in dropped

\* No entry waits for a load that ended, or every later caller of the key would
\* get its failure.
NoneIsPoisoned == \A e \in ToSet(entries) : e.pending <=> Running(e.load)

\* An entry is of the load of its key that began last: an older one that ends
\* later does not replace a newer result.
LatestIsKept ==
  \A e \in ToSet(entries) : \A l \in DOMAIN loads : l > e.load => loads[l].key # e.key

\* All of this: what the cache promises whoever shares it.
CacheIsSound == TypeOK /\ AnswersAreRecent /\ OneInProgress /\ NoneIsPoisoned /\ LatestIsKept
=============================================================================
