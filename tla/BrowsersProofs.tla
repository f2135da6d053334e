---------------------------- MODULE BrowsersProofs ----------------------------
(****************************************************************************)
(* What operators see, for every number of windows, panes, terminals,       *)
(* missions and notices: proofs about TerminalWindows, ProjectDesk and      *)
(* Notifications, the parameters of whose instances in MCBrowsers are       *)
(* constants.                                                               *)
(****************************************************************************)
EXTENDS MCBrowsers, FiniteSetTheorems, FunctionTheorems, SequenceTheorems, TLAPS

---------------------------------------------------------------------------
(* TerminalWindows.                                                        *)

SomePanes == WindowPanes \cup {Terminals!None}
SomeTexts == WindowTexts \cup {Terminals!None}
Results   == {"output", "pane_not_found", "error"}
Items     == [at : {"new", "open", "closed"}, token : Nat, pane : SomePanes, pollInFlight : BOOLEAN,
              timer : BOOLEAN, minimized : BOOLEAN, paused : BOOLEAN, failures : 0 .. 3,
              unavailable : BOOLEAN, shown : SomePanes, text : SomeTexts]
Captures  == [window : Windows, token : Nat, pane : SomePanes]
Answers   == [token : Nat, pane : SomePanes, result : Results]

WindowsTyped ==
  /\ window \in [Windows -> Items] /\ polls \subseteq Captures
  /\ hidden \in BOOLEAN /\ windowsSelecting \in BOOLEAN
  /\ windowsDeferred \in [Windows -> SUBSET Answers]
  /\ sends \subseteq [window : Windows, text : SomeTexts] /\ draft \in SomeTexts

\* A capture, or its answer, that is of the window's last turn is of the pane it is turned to.
OfItsTurn(i, x) == x.token <= i.token /\ (x.token = i.token => x.pane = i.pane)

\* What was of its window's last turn stays so.
Follows(i, j) == j.token > i.token \/ (j.token = i.token /\ j.pane = i.pane)

AskedFor(P, w, i) == \E p \in P : p.window = w /\ p.token = i.token

\* A window that says that it awaits a capture does, and one that can be seen awaits one or will.
GoesOn(P, w, i, hid) ==
  i.at = "open" =>
    /\ i.pollInFlight => AskedFor(P, w, i)
    /\ Terminals!Polls(i) /\ ~hid => i.timer \/ AskedFor(P, w, i)

ShowsOwn(i) == i.at = "open" => i.shown \in {Terminals!None, i.pane}

\* What was answered while text is selected is of a window that has not stopped.
NothingStopped(w) ==
  window[w].unavailable => windowsDeferred[w] = {} /\ \A p \in polls : p.window # w

WindowsInv ==
  /\ WindowsTyped
  /\ \A w \in Windows : /\ window[w].at = "new" => window[w].token = 0 /\ ~window[w].timer
                        /\ ShowsOwn(window[w])
                        /\ \A a \in windowsDeferred[w] : OfItsTurn(window[w], a)
  /\ \A p \in polls : OfItsTurn(window[p.window], p)

NeverStallsInv ==
  /\ \A w \in Windows : GoesOn(polls, w, window[w], hidden)
  /\ ~windowsSelecting => \A w \in Windows : windowsDeferred[w] = {}
  /\ windowsSelecting => \A w \in Windows : NothingStopped(w)

LEMMA UpdateFacts ==
  ASSUME NEW i \in Items, NEW a \in Answers, NEW u, u = Terminals!Update(i, a)
  PROVE  /\ u \in Items /\ u.at = i.at /\ u.token = i.token /\ u.pane = i.pane
         /\ u.pollInFlight = i.pollInFlight /\ u.timer = i.timer /\ u.minimized = i.minimized
         /\ u.paused = i.paused
         /\ u.shown \in {i.shown, Terminals!None} \/ (a.token = i.token /\ u.shown = a.pane)
         /\ ~i.unavailable /\ Terminals!Polls(u) => Terminals!Polls(i)
<1>1. CASE u = i
  BY <1>1
<1>2. ASSUME NEW b \in BOOLEAN, NEW n \in 0 .. 3, NEW q \in SomePanes,
             u = [i EXCEPT !.shown = q, !.failures = n, !.unavailable = b], a.token = i.token
      PROVE  /\ u \in Items /\ u.at = i.at /\ u.token = i.token /\ u.pane = i.pane
             /\ u.pollInFlight = i.pollInFlight /\ u.timer = i.timer /\ u.minimized = i.minimized
             /\ u.paused = i.paused /\ u.shown = q
  BY <1>2, ZenonT(60) DEF Items
<1>3. ASSUME NEW b \in BOOLEAN, NEW n \in 0 .. 3,
             u = [i EXCEPT !.failures = n, !.unavailable = b, !.shown = Terminals!None]
      PROVE  /\ u \in Items /\ u.at = i.at /\ u.token = i.token /\ u.pane = i.pane
             /\ u.pollInFlight = i.pollInFlight /\ u.timer = i.timer /\ u.minimized = i.minimized
             /\ u.paused = i.paused /\ u.shown = Terminals!None
  <2> DEFINE none == Terminals!None
  <2>1. none \in SomePanes
    BY DEF SomePanes
  <2> HIDE DEF none
  <2>2. u = [i EXCEPT !.failures = n, !.unavailable = b, !.shown = none]
    BY <1>3 DEF none
  <2> QED BY <2>1, <2>2, ZenonT(60) DEF Items, none
<1>5. (u.paused = i.paused) /\ (u.minimized = i.minimized) /\ ~i.unavailable /\ Terminals!Polls(u)
        => Terminals!Polls(i)
  BY DEF Terminals!Polls
<1>4. CASE Terminals!Wanted(i, a.token)
  <2>1. CASE a.result = "output" /\ ~i.minimized
    <3>1. u = [i EXCEPT !.shown = a.pane, !.failures = 0, !.unavailable = FALSE]
      BY <1>4, <2>1 DEF Terminals!Update
    <3>2. a.token = i.token /\ FALSE \in BOOLEAN /\ 0 \in 0 .. 3 /\ a.pane \in SomePanes
      BY <1>4 DEF Terminals!Wanted, Answers
    <3> QED BY <1>2, <1>5, <3>1, <3>2
  <2>4. CASE a.result = "output" /\ i.minimized
    <3>1. u = i
      BY <1>4, <2>4 DEF Terminals!Update
    <3> QED BY <1>1, <3>1
  <2>2. CASE a.result = "pane_not_found"
    <3> DEFINE n == IF i.failures < 3 THEN i.failures + 1 ELSE 3
               b == i.failures >= 2
    <3>1. u = [i EXCEPT !.failures = n, !.unavailable = b, !.shown = Terminals!None]
      BY <1>4, <2>2 DEF Terminals!Update
    <3>2. n \in 0 .. 3 /\ b \in BOOLEAN
      BY DEF Items
    <3> QED BY <1>3, <1>5, <3>1, <3>2
  <2>3. CASE a.result = "error"
    <3>1. u = [i EXCEPT !.failures = 0, !.unavailable = FALSE, !.shown = Terminals!None]
      BY <1>4, <2>3 DEF Terminals!Update
    <3>2. 0 \in 0 .. 3 /\ FALSE \in BOOLEAN
      OBVIOUS
    <3> QED BY <1>3, <1>5, <3>1, <3>2
  <2> QED BY <2>1, <2>2, <2>3, <2>4 DEF Answers, Results
<1> QED BY <1>1, <1>4 DEF Terminals!Update

LEMMA RefreshedFacts ==
  ASSUME NEW i \in Items, NEW w \in Windows, NEW r, r = Terminals!Refreshed(i), i.at # "new",
         NEW P, P = Terminals!Asked(w, i)
  PROVE  /\ r \in Items /\ r.at = i.at /\ r.token = i.token /\ r.pane = i.pane /\ r.shown = i.shown
         /\ r.unavailable = i.unavailable
         /\ P = polls \/ (P = polls \cup {[window |-> w, token |-> r.token, pane |-> r.pane]}
                          /\ ~r.unavailable)
         /\ (i.at = "open" /\ i.pollInFlight => AskedFor(polls, w, i)) => GoesOn(P, w, r, hidden)
<1>1. CASE ~Terminals!Refreshes(i)
  <2>1. r = i /\ P = polls
    BY <1>1 DEF Terminals!Refreshed, Terminals!Asked
  <2> QED BY <1>1, <2>1 DEF GoesOn, Terminals!Refreshes
<1>2. CASE Terminals!Refreshes(i)
  <2> DEFINE asks == [window |-> w, token |-> i.token, pane |-> i.pane]
  <2>1. r = [i EXCEPT !.pollInFlight = TRUE, !.timer = FALSE] /\ P = polls \cup {asks}
    BY <1>2 DEF Terminals!Refreshed, Terminals!Asked
  <2>2. TRUE \in BOOLEAN /\ FALSE \in BOOLEAN
    OBVIOUS
  <2>3. /\ r \in Items /\ r.at = i.at /\ r.token = i.token /\ r.pane = i.pane /\ r.shown = i.shown
        /\ r.unavailable = i.unavailable
    BY <2>1, <2>2 DEF Items
  <2>4. ~r.unavailable
    BY <1>2, <2>3 DEF Terminals!Refreshes, Terminals!Polls
  <2>5. asks \in P /\ asks.window = w /\ asks.token = r.token
    BY <2>1, <2>3
  <2>6. AskedFor(P, w, r)
    BY <2>5 DEF AskedFor
  <2> QED BY <2>1, <2>3, <2>4, <2>6 DEF GoesOn
<1> QED BY <1>1, <1>2

LEMMA ScheduledFacts ==
  ASSUME hidden \in BOOLEAN, NEW i \in Items, NEW r, r = Terminals!Scheduled(i)
  PROVE  /\ r \in Items /\ r.at = i.at /\ r.token = i.token /\ r.pane = i.pane /\ r.shown = i.shown
         /\ r.unavailable = i.unavailable /\ r.pollInFlight = i.pollInFlight
         /\ Terminals!Polls(r) /\ ~hidden => r.timer
BY DEF Items, Terminals!Scheduled, Terminals!Polls

\* One window changes, and it may ask for a capture.
Asks(w, item) ==
  polls' = polls \/ (polls' = polls \cup {[window |-> w, token |-> item.token, pane |-> item.pane]}
                     /\ ~item.unavailable)
Changes(w, item) ==
  /\ Terminals!Become(w, item) /\ Asks(w, item)
  /\ UNCHANGED <<hidden, windowsSelecting, windowsDeferred>>
  /\ sends' \subseteq [window : Windows, text : SomeTexts] /\ draft' \in SomeTexts

LEMMA ChangesKeepsInv ==
  ASSUME WindowsInv, NEW w0 \in Windows, NEW item \in Items, Changes(w0, item),
         Follows(window[w0], item), ShowsOwn(item), item.at = "new" => item.token = 0 /\ ~item.timer
  PROVE  WindowsInv'
<1> DEFINE asks == [window |-> w0, token |-> item.token, pane |-> item.pane]
<1>1. window' = [window EXCEPT ![w0] = item] /\ window \in [Windows -> Items] /\ polls \subseteq Captures
  BY DEF Changes, Terminals!Become, WindowsInv, WindowsTyped
<1>2. /\ window' \in [Windows -> Items] /\ window'[w0] = item
      /\ \A w \in Windows : w # w0 => window'[w] = window[w]
  BY <1>1
<1>3. polls' \subseteq polls \cup {asks} /\ asks \in Captures
  BY DEF Changes, Asks, Captures, Items
<1>4. WindowsTyped'
  BY <1>1, <1>2, <1>3 DEF WindowsInv, WindowsTyped, Changes
<1>5. ASSUME NEW w \in Windows, NEW x, x.token \in Nat, OfItsTurn(window[w], x)
      PROVE  OfItsTurn(window'[w], x)
  <2>1. CASE w = w0
    <3>1. window[w0].token \in Nat /\ item.token \in Nat
      BY <1>1 DEF Items
    <3> QED BY <1>5, <2>1, <1>2, <3>1 DEF OfItsTurn, Follows
  <2> QED BY <2>1, <1>2, <1>5
<1>6. ASSUME NEW w \in Windows
      PROVE  /\ window'[w].at = "new" => window'[w].token = 0 /\ ~window'[w].timer
             /\ ShowsOwn(window'[w])
             /\ \A a \in windowsDeferred'[w] : OfItsTurn(window'[w], a)
  <2>1. \A a \in windowsDeferred[w] : a.token \in Nat /\ OfItsTurn(window[w], a)
    BY DEF WindowsInv, WindowsTyped, Answers
  <2>2. windowsDeferred' = windowsDeferred
    BY DEF Changes
  <2>3. \A a \in windowsDeferred'[w] : OfItsTurn(window'[w], a)
    BY <1>5, <2>1, <2>2
  <2> QED BY <2>3, <1>2 DEF WindowsInv
<1>7. ASSUME NEW p \in polls'
      PROVE  OfItsTurn(window'[p.window], p)
  <2>1. CASE p = asks
    BY <2>1, <1>1, <1>2 DEF OfItsTurn, Items
  <2>2. CASE p \in polls
    BY <2>2, <1>1, <1>5 DEF WindowsInv, Captures
  <2> QED BY <2>1, <2>2, <1>3
<1> QED BY <1>4, <1>6, <1>7 DEF WindowsInv

LEMMA ChangesGoesOn ==
  ASSUME WindowsTyped, NeverStallsInv, NEW w0 \in Windows, NEW item \in Items, Changes(w0, item),
         GoesOn(polls', w0, item, hidden), item.unavailable => window[w0].unavailable
  PROVE  NeverStallsInv'
<1> DEFINE asks == [window |-> w0, token |-> item.token, pane |-> item.pane]
<1>1. window' = [window EXCEPT ![w0] = item] /\ window \in [Windows -> Items]
  BY DEF Changes, Terminals!Become, WindowsTyped
<1>2. /\ window'[w0] = item
      /\ \A w \in Windows : w # w0 => window'[w] = window[w]
  BY <1>1
<1>3. /\ polls \subseteq polls' /\ asks.window = w0
      /\ item.unavailable => polls' = polls
      /\ \A p \in polls' : p \in polls \/ p = asks
      /\ hidden' = hidden /\ windowsSelecting' = windowsSelecting /\ windowsDeferred' = windowsDeferred
  BY DEF Changes, Asks
<1>4. ASSUME NEW w \in Windows PROVE GoesOn(polls', w, window'[w], hidden)
  <2>1. CASE w # w0
    <3>1. AskedFor(polls, w, window[w]) => AskedFor(polls', w, window[w])
      BY <1>3 DEF AskedFor
    <3>2. GoesOn(polls, w, window[w], hidden)
      BY DEF NeverStallsInv
    <3> QED BY <1>2, <2>1, <3>1, <3>2 DEF GoesOn
  <2> QED BY <2>1, <1>2
<1>5. ASSUME NEW w \in Windows, windowsSelecting, window'[w].unavailable
      PROVE  windowsDeferred[w] = {} /\ \A p \in polls' : p.window # w
  <2>1. window[w].unavailable
    BY <1>2, <1>5
  <2>2. windowsDeferred[w] = {} /\ \A p \in polls : p.window # w
    BY <1>5, <2>1 DEF NeverStallsInv, NothingStopped
  <2>3. w = w0 => polls' = polls
    BY <1>2, <1>3, <1>5
  <2> QED BY <2>2, <2>3, <1>3
<1> QED BY <1>3, <1>4, <1>5 DEF NeverStallsInv, NothingStopped

LEMMA OpenKeepsInv ==
  ASSUME WindowsInv, NEW pane \in WindowPanes, Terminals!Open(pane)
  PROVE  WindowsInv' /\ (NeverStallsInv => NeverStallsInv')
<1>1. PICK w \in Windows :
        LET item == [Terminals!Unopened EXCEPT !.at = "open", !.token = 1, !.pane = pane, !.text = draft]
        IN  /\ window[w].at = "new" /\ Terminals!Become(w, Terminals!Refreshed(item))
            /\ polls' = Terminals!Asked(w, item)
  BY DEF Terminals!Open
<1> DEFINE item == [Terminals!Unopened EXCEPT !.at = "open", !.token = 1, !.pane = pane, !.text = draft]
           r == Terminals!Refreshed(item)
           P == Terminals!Asked(w, item)
<1>2. draft \in SomeTexts /\ pane \in SomePanes /\ Terminals!None \in SomePanes
  BY DEF WindowsInv, WindowsTyped, SomePanes
<1> DEFINE new == Terminals!Unopened
<1>11. /\ new \in Items /\ new.shown = Terminals!None /\ ~new.unavailable /\ ~new.pollInFlight
  BY <1>2 DEF Items, Terminals!Unopened, SomeTexts
<1>12. item = [new EXCEPT !.at = "open", !.token = 1, !.pane = pane, !.text = draft]
  OBVIOUS
<1> HIDE DEF new, item
<1>3. /\ item \in Items /\ item.at = "open" /\ item.token = 1 /\ item.shown = Terminals!None
      /\ ~item.unavailable /\ ~item.pollInFlight
  BY <1>2, <1>11, <1>12 DEF Items
<1>4. /\ r \in Items /\ r.at = item.at /\ r.token = item.token /\ r.pane = item.pane /\ r.shown = item.shown
      /\ r.unavailable = item.unavailable
      /\ P = polls \/ (P = polls \cup {[window |-> w, token |-> r.token, pane |-> r.pane]} /\ ~r.unavailable)
      /\ (item.at = "open" /\ item.pollInFlight => AskedFor(polls, w, item)) => GoesOn(P, w, r, hidden)
  BY <1>3, RefreshedFacts
<1>5. Terminals!Become(w, r) /\ polls' = P
  BY <1>1 DEF item
<1> HIDE DEF r, P
<1>6. Changes(w, r)
  BY <1>4, <1>5 DEF Changes, Asks, Terminals!Open, WindowsInv, WindowsTyped
<1>7. window[w].token = 0
  BY <1>1 DEF WindowsInv
<1>8. WindowsInv'
  BY <1>3, <1>4, <1>6, <1>7, ChangesKeepsInv DEF Follows, ShowsOwn
<1>9. GoesOn(polls', w, r, hidden) /\ ~r.unavailable
  BY <1>3, <1>4, <1>5
<1>10. NeverStallsInv => NeverStallsInv'
  BY <1>4, <1>6, <1>9, ChangesGoesOn DEF WindowsInv
<1> QED BY <1>8, <1>10

\* An open window gets another pane, or another state with the same pane, and asks at once.
LEMMA AsksAtOnce ==
  ASSUME WindowsInv, NEW w \in Windows, NEW item \in Items, item.at # "new",
         Terminals!Become(w, Terminals!Refreshed(item)), polls' = Terminals!Asked(w, item),
         UNCHANGED <<hidden, windowsSelecting, windowsDeferred, sends, draft>>,
         Follows(window[w], item), ShowsOwn(item), item.unavailable => window[w].unavailable,
         item.at = "open" /\ item.pollInFlight /\ NeverStallsInv => AskedFor(polls, w, item)
  PROVE  WindowsInv' /\ (NeverStallsInv => NeverStallsInv')
<1> DEFINE r == Terminals!Refreshed(item)
           P == Terminals!Asked(w, item)
<1>4. /\ r \in Items /\ r.at = item.at /\ r.token = item.token /\ r.pane = item.pane /\ r.shown = item.shown
      /\ r.unavailable = item.unavailable
      /\ P = polls \/ (P = polls \cup {[window |-> w, token |-> r.token, pane |-> r.pane]} /\ ~r.unavailable)
      /\ (item.at = "open" /\ item.pollInFlight => AskedFor(polls, w, item)) => GoesOn(P, w, r, hidden)
  BY RefreshedFacts
<1>5. Terminals!Become(w, r) /\ polls' = P
  OBVIOUS
<1> HIDE DEF r, P
<1>6. Changes(w, r)
  BY <1>4, <1>5 DEF Changes, Asks, WindowsInv, WindowsTyped
<1>8. WindowsInv'
  BY <1>4, <1>6, ChangesKeepsInv DEF Follows, ShowsOwn
<1>9. NeverStallsInv => GoesOn(polls', w, r, hidden)
  BY <1>4, <1>5
<1>10. NeverStallsInv => NeverStallsInv'
  BY <1>4, <1>6, <1>9, ChangesGoesOn DEF WindowsInv
<1> QED BY <1>8, <1>10

\* An open window changes and asks for nothing.
LEMMA AsksNothing ==
  ASSUME WindowsInv, NEW w \in Windows, NEW item \in Items, Terminals!Become(w, item),
         item.at = "new" => item.token = 0 /\ ~item.timer,
         UNCHANGED <<polls, hidden, windowsSelecting, windowsDeferred>>,
         sends' \subseteq [window : Windows, text : SomeTexts], draft' \in SomeTexts,
         Follows(window[w], item), ShowsOwn(item), item.unavailable => window[w].unavailable,
         NeverStallsInv => GoesOn(polls, w, item, hidden)
  PROVE  WindowsInv' /\ (NeverStallsInv => NeverStallsInv')
<1>1. Changes(w, item)
  BY DEF Changes, Asks
<1>2. WindowsInv'
  BY <1>1, ChangesKeepsInv
<1>3. NeverStallsInv => NeverStallsInv'
  BY <1>1, ChangesGoesOn DEF WindowsInv
<1> QED BY <1>2, <1>3

LEMMA TurnKeepsInv ==
  ASSUME WindowsInv, NEW pane \in WindowPanes, NEW w \in Windows, Terminals!Turn(w, pane)
  PROVE  WindowsInv' /\ (NeverStallsInv => NeverStallsInv')
<1> DEFINE i == window[w]
           t == Terminals!Turned(i, pane)
           item == Terminals!Scheduled(t)
<1>1. i \in Items /\ hidden \in BOOLEAN /\ i.at = "open"
  BY DEF WindowsInv, WindowsTyped, Terminals!Turn, Terminals!IsOpen
<1>2. pane \in SomePanes /\ "none" \in SomePanes /\ i.token + 1 \in Nat /\ FALSE \in BOOLEAN /\ 0 \in 0 .. 3
  BY <1>1 DEF SomePanes, Terminals!None, Items
<1>3. /\ t \in Items /\ t.at = "open" /\ t.token = i.token + 1 /\ t.shown = Terminals!None
      /\ ~t.unavailable /\ ~t.pollInFlight
  BY <1>1, <1>2 DEF Items, Terminals!Turned, Terminals!None
<1> HIDE DEF t
<1>4. /\ item \in Items /\ item.at = t.at /\ item.token = t.token /\ item.pane = t.pane /\ item.shown = t.shown
      /\ item.unavailable = t.unavailable /\ item.pollInFlight = t.pollInFlight
  BY <1>1, <1>3, ScheduledFacts
<1>5. /\ Terminals!Become(w, Terminals!Refreshed(item)) /\ polls' = Terminals!Asked(w, item)
      /\ UNCHANGED <<hidden, windowsSelecting, windowsDeferred, sends, draft>>
  BY DEF Terminals!Turn, t
<1> HIDE DEF item
<1>6. Follows(i, item) /\ ShowsOwn(item)
  BY <1>1, <1>3, <1>4 DEF Follows, ShowsOwn, Items
<1> QED BY <1>3, <1>4, <1>5, <1>6, AsksAtOnce

LEMMA ResumeKeepsInv ==
  ASSUME WindowsInv, NEW w \in Windows, Terminals!Resume(w)
  PROVE  WindowsInv' /\ (NeverStallsInv => NeverStallsInv')
<1> DEFINE i == window[w]
           n == IF i.unavailable THEN 0 ELSE i.failures
           item == [i EXCEPT !.paused = FALSE, !.unavailable = FALSE, !.failures = n]
<1>1. i \in Items /\ i.at = "open" /\ ShowsOwn(i)
  BY DEF WindowsInv, WindowsTyped, Terminals!Resume, Terminals!IsOpen
<1>2. n \in 0 .. 3 /\ FALSE \in BOOLEAN
  BY <1>1 DEF Items
<1>3. /\ Terminals!Become(w, Terminals!Refreshed(item)) /\ polls' = Terminals!Asked(w, item)
      /\ UNCHANGED <<hidden, windowsSelecting, windowsDeferred, sends, draft>>
  BY DEF Terminals!Resume
<1> HIDE DEF n
<1>4. /\ item \in Items /\ item.at = "open" /\ item.token = i.token /\ item.pane = i.pane
      /\ item.shown = i.shown /\ ~item.unavailable /\ item.pollInFlight = i.pollInFlight
  BY <1>1, <1>2 DEF Items
<1> HIDE DEF item
<1>5. Follows(i, item) /\ ShowsOwn(item)
  BY <1>1, <1>4 DEF Follows, ShowsOwn
<1>6. item.pollInFlight /\ NeverStallsInv => AskedFor(polls, w, item)
  <2>1. NeverStallsInv => GoesOn(polls, w, i, hidden)
    BY DEF NeverStallsInv
  <2>2. AskedFor(polls, w, i) => AskedFor(polls, w, item)
    BY <1>4 DEF AskedFor
  <2> QED BY <1>1, <1>4, <2>1, <2>2 DEF GoesOn
<1> QED BY <1>3, <1>4, <1>5, <1>6, AsksAtOnce

LEMMA TimerFiresKeepsInv ==
  ASSUME WindowsInv, NEW w \in Windows, Terminals!TimerFires(w)
  PROVE  WindowsInv' /\ (NeverStallsInv => NeverStallsInv')
<1> DEFINE i == window[w]
           item == [i EXCEPT !.timer = FALSE]
<1>1. i \in Items /\ ShowsOwn(i) /\ i.at # "new"
  BY DEF WindowsInv, WindowsTyped, Terminals!TimerFires
<1>2. FALSE \in BOOLEAN
  OBVIOUS
<1>3. /\ Terminals!Become(w, Terminals!Refreshed(item)) /\ polls' = Terminals!Asked(w, item)
      /\ UNCHANGED <<hidden, windowsSelecting, windowsDeferred, sends, draft>>
  BY DEF Terminals!TimerFires
<1>4. /\ item \in Items /\ item.at = i.at /\ item.token = i.token /\ item.pane = i.pane
      /\ item.shown = i.shown /\ item.unavailable = i.unavailable /\ item.pollInFlight = i.pollInFlight
  BY <1>1, <1>2 DEF Items
<1> HIDE DEF item
<1>5. Follows(i, item) /\ ShowsOwn(item)
  BY <1>1, <1>4 DEF Follows, ShowsOwn
<1>6. item.at = "open" /\ item.pollInFlight /\ NeverStallsInv => AskedFor(polls, w, item)
  <2>1. NeverStallsInv => GoesOn(polls, w, i, hidden)
    BY DEF NeverStallsInv
  <2>2. AskedFor(polls, w, i) => AskedFor(polls, w, item)
    BY <1>4 DEF AskedFor
  <2> QED BY <1>1, <1>4, <2>1, <2>2 DEF GoesOn
<1> QED BY <1>1, <1>3, <1>4, <1>5, <1>6, AsksAtOnce

\* Close, Minimize, Pause, Type and Sent: a window keeps the answers that it waits for, or waits no more.
LEMMA RestsKeepsInv ==
  ASSUME WindowsInv, NEW w \in Windows, NEW i, i = window[w], NEW item \in Items, Terminals!Become(w, item),
         UNCHANGED <<polls, hidden, windowsSelecting, windowsDeferred>>,
         sends' \subseteq [window : Windows, text : SomeTexts], draft' \in SomeTexts,
         item.at = "new" => i.at = "new" /\ item.token = i.token /\ item.timer = i.timer,
         item.at = "open" => i.at = "open" /\ item.token = i.token,
         item.token >= i.token, item.pane = i.pane, item.shown = i.shown,
         item.unavailable = i.unavailable, item.pollInFlight = i.pollInFlight,
         item.at = "open" /\ Terminals!Polls(item) /\ ~item.timer => ~i.timer /\ Terminals!Polls(i)
  PROVE  WindowsInv' /\ (NeverStallsInv => NeverStallsInv')
<1>1. i \in Items /\ ShowsOwn(i) /\ (i.at = "new" => i.token = 0 /\ ~i.timer)
  BY DEF WindowsInv, WindowsTyped
<1>4. Follows(i, item) /\ ShowsOwn(item)
  BY <1>1 DEF Follows, ShowsOwn, Items
<1>5. ASSUME NeverStallsInv PROVE GoesOn(polls, w, item, hidden)
  <2>1. GoesOn(polls, w, i, hidden)
    BY <1>5 DEF NeverStallsInv
  <2>2. item.at = "open" => (AskedFor(polls, w, item) <=> AskedFor(polls, w, i))
    BY DEF AskedFor
  <2> QED BY <2>1, <2>2 DEF GoesOn
<1> QED BY <1>1, <1>4, <1>5, AsksNothing

LEMMA CloseKeepsInv ==
  ASSUME WindowsInv, NEW w \in Windows, Terminals!Close(w)
  PROVE  WindowsInv' /\ (NeverStallsInv => NeverStallsInv')
<1> DEFINE i == window[w]
           item == [i EXCEPT !.at = "closed", !.timer = FALSE, !.token = @ + 1]
<1>1. i \in Items /\ sends \subseteq [window : Windows, text : SomeTexts] /\ draft \in SomeTexts
  BY DEF WindowsInv, WindowsTyped
<1>2. FALSE \in BOOLEAN /\ i.token \in Nat /\ i.token + 1 \in Nat /\ i.token + 1 >= i.token
  BY <1>1 DEF Items
<1>3. Terminals!Become(w, item) /\ UNCHANGED <<polls, hidden, windowsSelecting, windowsDeferred, sends, draft>>
  BY DEF Terminals!Close
<1>4. /\ item \in Items /\ item.at = "closed" /\ item.token = i.token + 1 /\ item.pane = i.pane
      /\ item.shown = i.shown /\ item.unavailable = i.unavailable /\ item.pollInFlight = i.pollInFlight
  BY <1>1, <1>2 DEF Items
<1> HIDE DEF item
<1> QED BY <1>1, <1>2, <1>3, <1>4, RestsKeepsInv

LEMMA MinimizeKeepsInv ==
  ASSUME WindowsInv, NEW w \in Windows, Terminals!Minimize(w)
  PROVE  WindowsInv' /\ (NeverStallsInv => NeverStallsInv')
<1> DEFINE i == window[w]
           item == [i EXCEPT !.minimized = TRUE, !.timer = FALSE]
<1>1. /\ i \in Items /\ i.at = "open" /\ sends \subseteq [window : Windows, text : SomeTexts]
      /\ draft \in SomeTexts
  BY DEF WindowsInv, WindowsTyped, Terminals!Minimize, Terminals!IsOpen
<1>2. FALSE \in BOOLEAN /\ TRUE \in BOOLEAN /\ i.token >= i.token
  BY <1>1 DEF Items
<1>3. Terminals!Become(w, item) /\ UNCHANGED <<polls, hidden, windowsSelecting, windowsDeferred, sends, draft>>
  BY DEF Terminals!Minimize
<1>4. /\ item \in Items /\ item.at = "open" /\ item.token = i.token /\ item.pane = i.pane /\ item.minimized
      /\ item.shown = i.shown /\ item.unavailable = i.unavailable /\ item.pollInFlight = i.pollInFlight
  BY <1>1, <1>2 DEF Items
<1>5. ~Terminals!Polls(item)
  BY <1>4 DEF Terminals!Polls
<1> HIDE DEF item
<1> QED BY <1>1, <1>2, <1>3, <1>4, <1>5, RestsKeepsInv

LEMMA PauseKeepsInv ==
  ASSUME WindowsInv, NEW w \in Windows, Terminals!Pause(w)
  PROVE  WindowsInv' /\ (NeverStallsInv => NeverStallsInv')
<1> DEFINE i == window[w]
           item == [i EXCEPT !.paused = TRUE, !.timer = FALSE]
<1>1. /\ i \in Items /\ i.at = "open" /\ sends \subseteq [window : Windows, text : SomeTexts]
      /\ draft \in SomeTexts
  BY DEF WindowsInv, WindowsTyped, Terminals!Pause, Terminals!IsOpen
<1>2. FALSE \in BOOLEAN /\ TRUE \in BOOLEAN /\ i.token >= i.token
  BY <1>1 DEF Items
<1>3. Terminals!Become(w, item) /\ UNCHANGED <<polls, hidden, windowsSelecting, windowsDeferred, sends, draft>>
  BY DEF Terminals!Pause
<1>4. /\ item \in Items /\ item.at = "open" /\ item.token = i.token /\ item.pane = i.pane /\ item.paused
      /\ item.shown = i.shown /\ item.unavailable = i.unavailable /\ item.pollInFlight = i.pollInFlight
  BY <1>1, <1>2 DEF Items
<1>5. ~Terminals!Polls(item)
  BY <1>4 DEF Terminals!Polls
<1> HIDE DEF item
<1> QED BY <1>1, <1>2, <1>3, <1>4, <1>5, RestsKeepsInv

\* What is typed, and what is cleared once it has been sent.
LEMMA TextKeepsInv ==
  ASSUME WindowsInv, NEW w \in Windows, NEW text \in SomeTexts,
         Terminals!Become(w, [window[w] EXCEPT !.text = text]),
         UNCHANGED <<polls, hidden, windowsSelecting, windowsDeferred>>,
         sends' \subseteq [window : Windows, text : SomeTexts], draft' \in SomeTexts
  PROVE  WindowsInv' /\ (NeverStallsInv => NeverStallsInv')
<1> DEFINE i == window[w]
           item == [i EXCEPT !.text = text]
<1>1. i \in Items
  BY DEF WindowsInv, WindowsTyped
<1>2. /\ item \in Items /\ item.at = i.at /\ item.token = i.token /\ item.pane = i.pane
      /\ item.shown = i.shown /\ item.unavailable = i.unavailable /\ item.pollInFlight = i.pollInFlight
      /\ item.timer = i.timer /\ item.minimized = i.minimized /\ item.paused = i.paused
      /\ i.token >= i.token
  BY <1>1 DEF Items
<1>3. Terminals!Become(w, item)
  OBVIOUS
<1>4. Terminals!Polls(item) <=> Terminals!Polls(i)
  BY <1>2 DEF Terminals!Polls
<1> HIDE DEF item
<1> QED BY <1>2, <1>3, <1>4, RestsKeepsInv

LEMMA DraftsKeepInv ==
  ASSUME WindowsInv,
         \/ \E w \in Windows, text \in WindowTexts : Terminals!Type(w, text)
         \/ \E w \in Windows : Terminals!Send(w)
         \/ \E s \in sends : Terminals!Sent(s) \/ Terminals!NotSent(s)
  PROVE  WindowsInv' /\ (NeverStallsInv => NeverStallsInv')
<1>1. /\ sends \subseteq [window : Windows, text : SomeTexts] /\ draft \in SomeTexts
      /\ window \in [Windows -> Items]
  BY DEF WindowsInv, WindowsTyped
<1>2. CASE \E w \in Windows, text \in WindowTexts : Terminals!Type(w, text)
  <2>1. PICK w \in Windows, text \in WindowTexts : Terminals!Type(w, text)
    BY <1>2
  <2>2. text \in SomeTexts /\ draft' = text
    BY <2>1 DEF SomeTexts, Terminals!Type
  <2> QED BY <1>1, <2>1, <2>2, TextKeepsInv DEF Terminals!Type
<1>3. ASSUME UNCHANGED <<window, polls, hidden, windowsSelecting, windowsDeferred, draft>>,
             sends' \subseteq [window : Windows, text : SomeTexts]
      PROVE  WindowsInv' /\ (NeverStallsInv => NeverStallsInv')
  BY <1>3 DEF WindowsInv, WindowsTyped, NeverStallsInv, NothingStopped
<1>4. CASE \E w \in Windows : Terminals!Send(w)
  <2>1. PICK w \in Windows : Terminals!Send(w)
    BY <1>4
  <2>2. [window |-> w, text |-> window[w].text] \in [window : Windows, text : SomeTexts]
    BY <1>1 DEF Items
  <2> QED BY <1>1, <1>3, <2>1, <2>2 DEF Terminals!Send
<1>5. CASE \E s \in sends : Terminals!NotSent(s)
  BY <1>1, <1>3, <1>5 DEF Terminals!NotSent
<1>6. CASE \E s \in sends : Terminals!Sent(s)
  <2> DEFINE none == Terminals!None
  <2>1. PICK s \in sends : Terminals!Sent(s)
    BY <1>6
  <2>2. /\ none \in SomeTexts /\ s.window \in Windows
        /\ UNCHANGED <<polls, hidden, windowsSelecting, windowsDeferred>>
        /\ sends' \subseteq [window : Windows, text : SomeTexts]
    BY <1>1, <2>1 DEF SomeTexts, Terminals!Sent
  <2>3. \/ Terminals!Become(s.window, [window[s.window] EXCEPT !.text = none]) /\ draft' = none
        \/ UNCHANGED <<window, draft>>
    BY <2>1 DEF Terminals!Sent
  <2> HIDE DEF none
  <2>4. CASE UNCHANGED <<window, draft>>
    BY <1>3, <2>2, <2>4
  <2> QED BY <2>2, <2>3, <2>4, TextKeepsInv
<1> QED BY <1>2, <1>4, <1>5, <1>6

LEMMA RestoreKeepsInv ==
  ASSUME WindowsInv, NEW w \in Windows, Terminals!Restore(w)
  PROVE  WindowsInv' /\ (NeverStallsInv => NeverStallsInv')
<1> DEFINE i == window[w]
           t == [i EXCEPT !.minimized = FALSE]
           item == Terminals!Scheduled(t)
<1>1. /\ i \in Items /\ hidden \in BOOLEAN /\ i.at = "open" /\ ShowsOwn(i)
      /\ sends \subseteq [window : Windows, text : SomeTexts] /\ draft \in SomeTexts
  BY DEF WindowsInv, WindowsTyped, Terminals!Restore, Terminals!IsOpen
<1>2. FALSE \in BOOLEAN
  OBVIOUS
<1>3. /\ t \in Items /\ t.at = "open" /\ t.token = i.token /\ t.pane = i.pane /\ t.shown = i.shown
      /\ t.unavailable = i.unavailable /\ t.pollInFlight = i.pollInFlight
  BY <1>1, <1>2 DEF Items
<1>4. Terminals!Become(w, item) /\ UNCHANGED <<polls, hidden, windowsSelecting, windowsDeferred, sends, draft>>
  BY DEF Terminals!Restore
<1> HIDE DEF t
<1>5. /\ item \in Items /\ item.at = t.at /\ item.token = t.token /\ item.pane = t.pane /\ item.shown = t.shown
      /\ item.unavailable = t.unavailable /\ item.pollInFlight = t.pollInFlight
      /\ Terminals!Polls(item) /\ ~hidden => item.timer
  BY <1>1, <1>3, ScheduledFacts
<1> HIDE DEF item
<1>6. item.at # "new" /\ Follows(i, item) /\ ShowsOwn(item)
  BY <1>1, <1>3, <1>5 DEF Follows, ShowsOwn
<1>7. NeverStallsInv => GoesOn(polls, w, item, hidden)
  BY <1>1, <1>3, <1>5 DEF NeverStallsInv, GoesOn, AskedFor
<1> QED BY <1>1, <1>3, <1>4, <1>5, <1>6, <1>7, AsksNothing

LEMMA FollowsKeepsInv ==
  ASSUME WindowsInv, WindowsTyped', polls' \subseteq polls,
         \A w \in Windows : /\ Follows(window[w], window'[w]) /\ ShowsOwn(window'[w])
                            /\ window'[w].at = "new" => window'[w].token = 0 /\ ~window'[w].timer,
         \A w \in Windows : \A a \in windowsDeferred'[w] :
           \/ a \in windowsDeferred[w]
           \/ \E p \in polls : p.window = w /\ a.token = p.token /\ a.pane = p.pane
  PROVE  WindowsInv'
<1>1. ASSUME NEW w \in Windows, NEW x, x.token \in Nat, OfItsTurn(window[w], x)
      PROVE  OfItsTurn(window'[w], x)
  <2>1. window[w] \in Items /\ window'[w] \in Items
    BY DEF WindowsInv, WindowsTyped
  <2>2. window[w].token \in Nat /\ window'[w].token \in Nat
    BY <2>1 DEF Items
  <2> QED BY <1>1, <2>2 DEF OfItsTurn, Follows
<1>2. ASSUME NEW p \in polls
      PROVE  OfItsTurn(window'[p.window], p) /\ p.token \in Nat
  BY <1>1 DEF WindowsInv, WindowsTyped, Captures
<1>3. ASSUME NEW w \in Windows, NEW a \in windowsDeferred'[w]
      PROVE  OfItsTurn(window'[w], a)
  <2>1. CASE a \in windowsDeferred[w]
    BY <1>1, <2>1 DEF WindowsInv, WindowsTyped, Answers
  <2>2. CASE \E p \in polls : p.window = w /\ a.token = p.token /\ a.pane = p.pane
    BY <1>2, <2>2 DEF OfItsTurn
  <2> QED BY <2>1, <2>2
<1> QED BY <1>2, <1>3 DEF WindowsInv

LEMMA HideKeepsInv ==
  ASSUME WindowsInv, Terminals!Hide
  PROVE  WindowsInv' /\ (NeverStallsInv => NeverStallsInv')
<1>1. ASSUME NEW w \in Windows
      PROVE  /\ window'[w] \in Items /\ window'[w].at = window[w].at
             /\ window'[w].token = window[w].token /\ window'[w].pane = window[w].pane
             /\ window'[w].shown = window[w].shown /\ window'[w].unavailable = window[w].unavailable
             /\ window'[w].pollInFlight = window[w].pollInFlight
             /\ window'[w].at = "new" => window'[w].timer = window[w].timer
  <2>1. window[w] \in Items /\ FALSE \in BOOLEAN
    BY DEF WindowsInv, WindowsTyped
  <2>2. window'[w] = IF Terminals!IsOpen(w) THEN [window[w] EXCEPT !.timer = FALSE] ELSE window[w]
    BY DEF Terminals!Hide
  <2> QED BY <2>1, <2>2 DEF Items, Terminals!IsOpen
<1>2. hidden' = TRUE /\ UNCHANGED <<polls, windowsSelecting, windowsDeferred, sends, draft>>
  BY DEF Terminals!Hide
<1>3. DOMAIN window' = Windows /\ window' = [w \in Windows |-> window'[w]]
  BY DEF Terminals!Hide
<1>4. WindowsTyped'
  BY <1>1, <1>2, <1>3 DEF WindowsInv, WindowsTyped
<1>5. WindowsInv'
  BY <1>1, <1>2, <1>4, FollowsKeepsInv DEF Follows, ShowsOwn, WindowsInv
<1>6. NeverStallsInv => NeverStallsInv'
  BY <1>1, <1>2 DEF NeverStallsInv, NothingStopped, GoesOn, AskedFor
<1> QED BY <1>5, <1>6

LEMMA SeenKeepsInv ==
  ASSUME WindowsInv, Terminals!Seen
  PROVE  WindowsInv' /\ (NeverStallsInv => NeverStallsInv')
<1>1. ASSUME NEW w \in Windows
      PROVE  /\ window'[w] \in Items /\ window'[w].at = window[w].at
             /\ window'[w].token = window[w].token /\ window'[w].pane = window[w].pane
             /\ window'[w].shown = window[w].shown /\ window'[w].unavailable = window[w].unavailable
             /\ window'[w].pollInFlight = window[w].pollInFlight
             /\ window'[w].at = "new" => window'[w].timer = window[w].timer
             /\ window'[w].at = "open" /\ Terminals!Polls(window'[w]) => window'[w].timer
  <2>1. window[w] \in Items /\ TRUE \in BOOLEAN
    BY DEF WindowsInv, WindowsTyped
  <2>2. window'[w] = IF Terminals!IsOpen(w) /\ Terminals!Polls(window[w])
                     THEN [window[w] EXCEPT !.timer = TRUE] ELSE window[w]
    BY DEF Terminals!Seen
  <2> QED BY <2>1, <2>2 DEF Items, Terminals!IsOpen, Terminals!Polls
<1>2. hidden' = FALSE /\ UNCHANGED <<polls, windowsSelecting, windowsDeferred, sends, draft>>
  BY DEF Terminals!Seen
<1>3. DOMAIN window' = Windows /\ window' = [w \in Windows |-> window'[w]]
  BY DEF Terminals!Seen
<1>4. WindowsTyped'
  BY <1>1, <1>2, <1>3 DEF WindowsInv, WindowsTyped
<1>5. WindowsInv'
  BY <1>1, <1>2, <1>4, FollowsKeepsInv DEF Follows, ShowsOwn, WindowsInv
<1>6. NeverStallsInv => NeverStallsInv'
  BY <1>1, <1>2 DEF NeverStallsInv, NothingStopped, GoesOn, AskedFor
<1> QED BY <1>5, <1>6

LEMMA SelectKeepsInv ==
  ASSUME WindowsInv, Terminals!Select
  PROVE  WindowsInv' /\ (~Reselects /\ NeverStallsInv => NeverStallsInv')
<1>1. WindowsInv'
  BY DEF WindowsInv, WindowsTyped, Terminals!Select
<1>2. ~Reselects /\ NeverStallsInv => NeverStallsInv'
  BY DEF NeverStallsInv, NothingStopped, Terminals!Select
<1> QED BY <1>1, <1>2

LEMMA UnselectKeepsInv ==
  ASSUME WindowsInv, Terminals!Unselect
  PROVE  WindowsInv' /\ (NeverStallsInv => NeverStallsInv')
<1>1. ASSUME NEW w \in Windows
      PROVE  /\ window'[w] \in Items /\ window'[w].at = window[w].at
             /\ window'[w].token = window[w].token /\ window'[w].pane = window[w].pane
             /\ window'[w].pollInFlight = window[w].pollInFlight /\ window'[w].timer = window[w].timer
             /\ ShowsOwn(window'[w])
             /\ NothingStopped(w) /\ Terminals!Polls(window'[w]) => Terminals!Polls(window[w])
  <2> DEFINE i == window[w]
             u == window'[w]
  <2>1. i \in Items /\ ShowsOwn(i)
    BY DEF WindowsInv, WindowsTyped
  <2>2. u = IF windowsDeferred[w] = {} THEN i
            ELSE Terminals!Update(i, CHOOSE answer \in windowsDeferred[w] : TRUE)
    BY DEF Terminals!Unselect
  <2>3. CASE windowsDeferred[w] = {}
    BY <2>1, <2>2, <2>3
  <2>4. CASE windowsDeferred[w] # {}
    <3>1. PICK a \in windowsDeferred[w] : u = Terminals!Update(i, a)
      BY <2>2, <2>4
    <3>2. a \in Answers /\ OfItsTurn(i, a)
      BY DEF WindowsInv, WindowsTyped
    <3> HIDE DEF u
    <3>3. /\ u \in Items /\ u.at = i.at /\ u.token = i.token /\ u.pane = i.pane
          /\ u.pollInFlight = i.pollInFlight /\ u.timer = i.timer
          /\ u.shown \in {i.shown, Terminals!None} \/ (a.token = i.token /\ u.shown = a.pane)
          /\ ~i.unavailable /\ Terminals!Polls(u) => Terminals!Polls(i)
      BY <2>1, <3>1, <3>2, UpdateFacts
    <3>4. ShowsOwn(u)
      BY <2>1, <3>2, <3>3 DEF ShowsOwn, OfItsTurn
    <3>5. NothingStopped(w) => ~i.unavailable
      BY <2>4 DEF NothingStopped
    <3> QED BY <3>3, <3>4, <3>5 DEF u
  <2> QED BY <2>3, <2>4
<1>2. /\ windowsSelecting = TRUE /\ windowsSelecting' = FALSE
      /\ windowsDeferred' = [w \in Windows |-> {}] /\ UNCHANGED <<polls, hidden, sends, draft>>
  BY DEF Terminals!Unselect, WindowsInv, WindowsTyped
<1>3. DOMAIN window' = Windows /\ window' = [w \in Windows |-> window'[w]]
  BY DEF Terminals!Unselect
<1>4. WindowsTyped'
  BY <1>1, <1>2, <1>3 DEF WindowsInv, WindowsTyped
<1>5. WindowsInv'
  BY <1>1, <1>2, <1>4, FollowsKeepsInv DEF Follows, WindowsInv
<1>6. NeverStallsInv => NeverStallsInv'
  BY <1>1, <1>2 DEF NeverStallsInv, GoesOn, AskedFor
<1> QED BY <1>5, <1>6

LEMMA AnsweredKeepsInv ==
  ASSUME WindowsInv, NEW p \in polls, NEW result \in Results, Terminals!Answered(p, result)
  PROVE  WindowsInv' /\ (NeverStallsInv => NeverStallsInv')
<1> DEFINE w == p.window
           i == window[w]
           answer == [token |-> p.token, pane |-> p.pane, result |-> result]
           u == IF windowsSelecting THEN i ELSE Terminals!Update(i, answer)
           ends == i.at = "open" /\ p.token = i.token
           rests == [u EXCEPT !.pollInFlight = FALSE]
           item == IF ends THEN Terminals!Scheduled(rests) ELSE u
<1>1. w \in Windows /\ i \in Items /\ answer \in Answers /\ hidden \in BOOLEAN /\ ShowsOwn(i) /\ OfItsTurn(i, answer)
  BY DEF WindowsInv, WindowsTyped, Captures, Answers, OfItsTurn
<1>2. /\ polls' = polls \ {p} /\ UNCHANGED <<hidden, windowsSelecting, sends, draft>>
      /\ window' = [window EXCEPT ![w] = item]
      /\ \E D \in {{answer}, windowsDeferred[w], {}} :
           /\ windowsDeferred' = [windowsDeferred EXCEPT ![w] = D]
           /\ ~windowsSelecting => D = {}
  BY DEF Terminals!Answered, Terminals!Become, Terminals!IsOpen
<1>3. /\ u \in Items /\ u.at = i.at /\ u.token = i.token /\ u.pane = i.pane
      /\ u.pollInFlight = i.pollInFlight /\ u.timer = i.timer
      /\ u.shown \in {i.shown, Terminals!None} \/ (answer.token = i.token /\ u.shown = answer.pane)
      /\ windowsSelecting => u = i
      /\ ~ends /\ i.at = "open" => u = i
  <2>1. CASE windowsSelecting
    BY <1>1, <2>1
  <2>2. CASE ~windowsSelecting
    <3>1. u = Terminals!Update(i, answer)
      BY <2>2
    <3>2. ~ends /\ i.at = "open" => u = i
      BY <3>1 DEF Terminals!Update, Terminals!Wanted
    <3> HIDE DEF u, answer, ends
    <3> QED BY <1>1, <2>2, <3>1, <3>2, UpdateFacts
  <2> QED BY <2>1, <2>2
<1>4. u.at = "open" => u.shown \in {Terminals!None, u.pane}
  BY <1>1, <1>3 DEF ShowsOwn, OfItsTurn
<1> HIDE DEF u
<1>5. /\ rests \in Items /\ rests.at = u.at /\ rests.token = u.token /\ rests.pane = u.pane
      /\ rests.shown = u.shown /\ ~rests.pollInFlight /\ rests.timer = u.timer
      /\ rests.unavailable = u.unavailable
  <2>1. FALSE \in BOOLEAN
    OBVIOUS
  <2> QED BY <1>3, <2>1 DEF Items
<1> HIDE DEF rests
<1>6. /\ item \in Items /\ item.at = i.at /\ item.token = i.token /\ item.pane = i.pane /\ item.shown = u.shown
      /\ item.unavailable = u.unavailable
      /\ ~ends => item = u
      /\ ends => ~item.pollInFlight /\ (Terminals!Polls(item) /\ ~hidden => item.timer)
  BY <1>1, <1>3, <1>5, ScheduledFacts
<1> HIDE DEF item
<1>7. /\ window \in [Windows -> Items] /\ window' \in [Windows -> Items] /\ window'[w] = item
      /\ \A v \in Windows : v # w => window'[v] = window[v]
  BY <1>1, <1>2, <1>6 DEF WindowsInv, WindowsTyped
<1>8. /\ windowsDeferred' \in [Windows -> SUBSET Answers]
      /\ \A v \in Windows : v # w => windowsDeferred'[v] = windowsDeferred[v]
      /\ windowsDeferred'[w] \subseteq windowsDeferred[w] \cup {answer}
      /\ ~windowsSelecting => windowsDeferred'[w] = {}
  BY <1>1, <1>2 DEF WindowsInv, WindowsTyped
<1>9. WindowsTyped'
  BY <1>2, <1>7, <1>8 DEF WindowsInv, WindowsTyped
<1>10. ASSUME NEW v \in Windows
       PROVE  /\ Follows(window[v], window'[v]) /\ ShowsOwn(window'[v])
              /\ window'[v].at = "new" => window'[v].token = 0 /\ ~window'[v].timer
  <2>1. CASE v = w
    <3>1. i.at = "new" => i.token = 0 /\ ~i.timer
      BY <1>1 DEF WindowsInv
    <3> QED BY <1>3, <1>4, <1>6, <1>7, <2>1, <3>1 DEF Follows, ShowsOwn
  <2>2. CASE v # w
    BY <1>7, <2>2 DEF Follows, WindowsInv
  <2> QED BY <2>1, <2>2
<1>11. ASSUME NEW v \in Windows, NEW a \in windowsDeferred'[v]
       PROVE  \/ a \in windowsDeferred[v]
              \/ \E q \in polls : q.window = v /\ a.token = q.token /\ a.pane = q.pane
  <2>1. CASE a = answer /\ v = w
    BY <2>1
  <2> QED BY <1>8, <1>11, <2>1
<1>12. WindowsInv'
  BY <1>2, <1>9, <1>10, <1>11, FollowsKeepsInv
<1>13. ASSUME NeverStallsInv PROVE NeverStallsInv'
  <2>1. ASSUME NEW v \in Windows PROVE GoesOn(polls', v, window'[v], hidden)
    <3>1. ASSUME AskedFor(polls, v, window[v]), v # w \/ ~ends, v = w => i.at = "open"
          PROVE  AskedFor(polls', v, window[v])
      <4>1. PICK q \in polls : q.window = v /\ q.token = window[v].token
        BY <3>1 DEF AskedFor
      <4>2. q # p
        BY <3>1, <4>1
      <4> QED BY <1>2, <4>1, <4>2 DEF AskedFor
    <3>2. GoesOn(polls, v, window[v], hidden)
      BY <1>13 DEF NeverStallsInv
    <3>3. CASE v # w
      BY <1>7, <3>1, <3>2, <3>3 DEF GoesOn
    <3>4. CASE v = w /\ ends
      BY <1>6, <1>7, <3>4 DEF GoesOn
    <3>5. CASE v = w /\ ~ends /\ i.at = "open"
      BY <1>3, <1>6, <1>7, <3>1, <3>2, <3>5 DEF GoesOn
    <3>6. CASE v = w /\ i.at # "open"
      BY <1>6, <1>7, <3>6 DEF GoesOn
    <3> QED BY <3>3, <3>4, <3>5, <3>6
  <2>2. ~windowsSelecting => \A v \in Windows : windowsDeferred'[v] = {}
    BY <1>8, <1>13 DEF NeverStallsInv
  <2>3. ASSUME windowsSelecting, NEW v \in Windows, window'[v].unavailable
        PROVE  windowsDeferred'[v] = {} /\ \A q \in polls' : q.window # v
    <3>1. window[v].unavailable
      BY <1>3, <1>6, <1>7, <2>3
    <3>2. windowsDeferred[v] = {} /\ \A q \in polls : q.window # v
      BY <1>13, <2>3, <3>1 DEF NeverStallsInv, NothingStopped
    <3>3. v # w
      BY <3>2
    <3> QED BY <1>2, <1>8, <3>2, <3>3
  <2>4. /\ \A v \in Windows : GoesOn(polls, v, window[v], hidden)'
        /\ ~windowsSelecting' => \A v \in Windows : windowsDeferred'[v] = {}
    BY <1>2, <2>1, <2>2
  <2>5. windowsSelecting' => \A v \in Windows : NothingStopped(v)'
    BY <1>2, <2>3 DEF NothingStopped
  <2> QED BY <2>4, <2>5 DEF NeverStallsInv
<1> QED BY <1>12, <1>13

LEMMA WindowsInit ==
  ASSUME Terminals!Init
  PROVE  WindowsInv /\ NeverStallsInv
<1> DEFINE new == Terminals!Unopened
<1>1. Terminals!None \in SomePanes /\ Terminals!None \in SomeTexts
  BY DEF SomePanes, SomeTexts
<1>2. /\ new \in Items /\ new.at = "new" /\ new.token = 0 /\ ~new.timer /\ ~new.unavailable
  BY <1>1 DEF Items, Terminals!Unopened
<1>3. window = [w \in Windows |-> new]
  BY DEF Terminals!Init
<1> HIDE DEF new
<1>4. window \in [Windows -> Items] /\ \A w \in Windows : window[w] = new
  BY <1>2, <1>3
<1>5. /\ polls = {} /\ hidden = FALSE /\ windowsSelecting = FALSE
      /\ windowsDeferred = [w \in Windows |-> {}] /\ sends = {} /\ draft = Terminals!None
  BY DEF Terminals!Init
<1>6. WindowsInv
  BY <1>1, <1>2, <1>4, <1>5 DEF WindowsInv, WindowsTyped, ShowsOwn
<1>7. NeverStallsInv
  BY <1>2, <1>4, <1>5 DEF NeverStallsInv, GoesOn
<1> QED BY <1>6, <1>7

LEMMA WindowsStep ==
  ASSUME WindowsInv, [Terminals!Next]_windowsVars
  PROVE  WindowsInv' /\ (~Reselects /\ NeverStallsInv => NeverStallsInv')
<1>1. CASE UNCHANGED windowsVars
  BY <1>1 DEF windowsVars, WindowsInv, WindowsTyped, NeverStallsInv, NothingStopped
<1>2. CASE Terminals!Hide \/ Terminals!Seen \/ Terminals!Select \/ Terminals!Unselect
  BY <1>2, HideKeepsInv, SeenKeepsInv, SelectKeepsInv, UnselectKeepsInv
<1>3. CASE \E pane \in WindowPanes : Terminals!Open(pane) \/ \E w \in Windows : Terminals!Turn(w, pane)
  BY <1>3, OpenKeepsInv, TurnKeepsInv
<1>4. CASE \E w \in Windows : \/ Terminals!Close(w) \/ Terminals!Minimize(w) \/ Terminals!Restore(w)
                              \/ Terminals!Pause(w) \/ Terminals!Resume(w) \/ Terminals!TimerFires(w)
                              \/ Terminals!Send(w)
  BY <1>4, CloseKeepsInv, MinimizeKeepsInv, RestoreKeepsInv, PauseKeepsInv, ResumeKeepsInv,
     TimerFiresKeepsInv, DraftsKeepInv
<1>5. CASE \E w \in Windows, text \in WindowTexts : Terminals!Type(w, text)
  BY <1>5, DraftsKeepInv
<1>6. CASE \E p \in polls, result \in Results : Terminals!Answered(p, result)
  BY <1>6, AnsweredKeepsInv
<1>7. CASE \E s \in sends : Terminals!Sent(s) \/ Terminals!NotSent(s)
  BY <1>7, DraftsKeepInv
<1> QED BY <1>1, <1>2, <1>3, <1>4, <1>5, <1>6, <1>7 DEF Terminals!Next, Results

\* A browser's windows, of whatever number: what is in one is of the pane that it is turned to, and it
\* goes on to ask for it, whatever is late, deferred or overtaken, if no text is selected while a stopped
\* window awaits an answer.
THEOREM FollowsPaneHolds == ~Reselects => (Terminals!Spec => []FollowsPane)
<1> SUFFICES ASSUME ~Reselects PROVE Terminals!Spec => []FollowsPane
  OBVIOUS
<1>1. Terminals!Init => WindowsInv /\ NeverStallsInv
  BY WindowsInit
<1>2. WindowsInv /\ NeverStallsInv /\ [Terminals!Next]_Terminals!vars => WindowsInv' /\ NeverStallsInv'
  BY WindowsStep DEF Terminals!vars, windowsVars
<1>3. WindowsInv /\ NeverStallsInv => FollowsPane
  <2> SUFFICES ASSUME WindowsInv, NeverStallsInv PROVE FollowsPane
    OBVIOUS
  <2>1. Terminals!NeverStalls
    BY DEF Terminals!NeverStalls, Terminals!Opened, Terminals!IsOpen, NeverStallsInv, GoesOn, AskedFor
  <2>2. Terminals!ShowsOwnPane
    BY DEF Terminals!ShowsOwnPane, Terminals!Opened, Terminals!IsOpen, WindowsInv, ShowsOwn
  <2> QED BY <2>1, <2>2 DEF FollowsPane, Terminals!FollowsPane
<1> QED BY <1>1, <1>2, <1>3, PTL DEF Terminals!Spec

---------------------------------------------------------------------------
(* Notifications.                                                          *)

Kinds == {"failure", "stale", "needs_you", "verification_ready", "none"}
NoticeEvents == [id : Nat, mission : Missions, kind : Kinds]

\* An event is the mission's at the time, and the last one of a mission says why it has its status.
OfItsMission(e, status, last) ==
  /\ e.id <= last[e.mission]
  /\ \A m \in Missions : e.id = last[m] => e.mission = m
  /\ e.id = last[e.mission] => e.kind \in Notices!KindsOf(status[e.mission])

NoticesInv ==
  /\ statusOf \in [Missions -> Notices!Troubles \cup {"running"}] /\ entered \in [Missions -> Nat]
  /\ eventLog \in Seq(NoticeEvents) /\ Len(eventLog) <= EventLimit
  /\ \A i, j \in DOMAIN eventLog : i < j => eventLog[i].id < eventLog[j].id
  /\ \A i \in DOMAIN eventLog : OfItsMission(eventLog[i], statusOf, entered)
  /\ \A m \in Missions : entered[m] <= Notices!Made

LEMMA NoticesCount == ASSUME NEW S PROVE Notices!Cardinality(S) = Cardinality(S)
BY Zenon DEF Notices!Cardinality, Cardinality

LEMMA UpTo ==
  ASSUME NEW n \in Nat
  PROVE  IsFiniteSet(1 .. n) /\ Cardinality(1 .. n) = n
<1>1. 1 \in Int /\ n \in Int
  OBVIOUS
<1>2. IsFiniteSet(1 .. n) /\ Cardinality(1 .. n) = IF 1 > n THEN 0 ELSE n - 1 + 1
  BY <1>1, FS_Interval
<1>3. (IF 1 > n THEN 0 ELSE n - 1 + 1) = n
  OBVIOUS
<1> QED BY <1>2, <1>3

LEMMA KindsOfFacts ==
  ASSUME NEW status \in Notices!Troubles \cup {"running"}, NEW kind \in Notices!KindsOf(status)
  PROVE  kind \in Kinds /\ (status \in Notices!Troubles => Notices!StillRelevant(kind, status))
<1>1. CASE status = "needs_you"
  BY <1>1 DEF Notices!KindsOf, Notices!StillRelevant, Kinds
<1>2. CASE status = "verifying"
  BY <1>2 DEF Notices!KindsOf, Notices!StillRelevant, Kinds
<1>3. CASE status \in {"failed", "reconcile_required"}
  BY <1>3 DEF Notices!KindsOf, Notices!StillRelevant, Kinds
<1>4. CASE status = "running"
  BY <1>4 DEF Notices!KindsOf, Notices!Troubles, Kinds
<1> QED BY <1>1, <1>2, <1>3, <1>4 DEF Notices!Troubles

LEMMA RelevantKinds ==
  ASSUME NEW kind \in Kinds, NEW status, Notices!StillRelevant(kind, status)
  PROVE  kind # "none" /\ (kind = "verification_ready" <=> status = "verifying")
<1>1. CASE kind = "verification_ready"
  BY <1>1 DEF Notices!StillRelevant
<1>2. CASE kind = "failure"
  BY <1>2 DEF Notices!StillRelevant
<1>3. CASE kind \in {"needs_you", "stale"}
  BY <1>3 DEF Notices!StillRelevant
<1>4. CASE kind = "none"
  BY <1>4 DEF Notices!StillRelevant
<1> QED BY <1>1, <1>2, <1>3, <1>4 DEF Kinds

LEMMA NoticesInit == Notices!Init => NoticesInv
<1> SUFFICES ASSUME Notices!Init PROVE NoticesInv
  OBVIOUS
<1>1. /\ statusOf = [m \in Missions |-> "running"] /\ eventLog = <<>> /\ entered = [m \in Missions |-> 0]
  BY DEF Notices!Init
<1>2. Notices!Made = 0
  BY <1>1 DEF Notices!Made
<1>3. DOMAIN eventLog = {} /\ Len(eventLog) = 0 /\ eventLog \in Seq(NoticeEvents)
  BY <1>1, EmptySeq
<1> QED BY <1>1, <1>2, <1>3, NoticesBounds DEF NoticesInv

LEMMA MadeFacts ==
  ASSUME NoticesInv
  PROVE  /\ Notices!Made \in Nat
         /\ \A i \in DOMAIN eventLog : eventLog[i].id <= Notices!Made /\ eventLog[i] \in NoticeEvents
<1>1. eventLog \in Seq(NoticeEvents)
  BY DEF NoticesInv
<1>2. DOMAIN eventLog = 1 .. Len(eventLog) /\ Len(eventLog) \in Nat
  BY <1>1
<1>3. \A i \in DOMAIN eventLog : eventLog[i] \in NoticeEvents
  BY <1>1
<1>4. CASE eventLog = <<>>
  BY <1>4, EmptySeq DEF Notices!Made
<1>5. CASE eventLog # <<>>
  <2> DEFINE n == Len(eventLog)
  <2>1. n \in 1 .. Len(eventLog)
    BY <1>1, <1>2, <1>5, EmptySeq
  <2>2. Notices!Made = eventLog[n].id
    BY <1>5 DEF Notices!Made, Notices!Last
  <2>3. \A i \in DOMAIN eventLog : i < n => eventLog[i].id < eventLog[n].id
    BY <1>2, <2>1 DEF NoticesInv
  <2>4. \A i \in DOMAIN eventLog : i = n \/ i < n
    BY <1>2
  <2>5. \A i \in DOMAIN eventLog : eventLog[i].id \in Nat
    BY <1>3 DEF NoticeEvents
  <2> QED BY <1>2, <1>3, <2>1, <2>2, <2>3, <2>4, <2>5
<1> QED BY <1>4, <1>5

LEMMA MissionMovesKeepsInv ==
  ASSUME NoticesInv, NEW m \in Missions, NEW to \in Notices!Troubles \cup {"running"},
         Notices!MissionMoves(m, to)
  PROVE  NoticesInv'
<1> DEFINE n == Notices!Made + 1
<1>1. PICK kind \in Notices!KindsOf(to) :
        LET longer == Append(eventLog, [id |-> n, mission |-> m, kind |-> kind])
        IN  eventLog' = IF Len(longer) > EventLimit THEN Tail(longer) ELSE longer
  BY DEF Notices!MissionMoves
<1> DEFINE event == [id |-> n, mission |-> m, kind |-> kind]
           longer == Append(eventLog, event)
<1>2. /\ statusOf' = [statusOf EXCEPT ![m] = to] /\ entered' = [entered EXCEPT ![m] = n]
      /\ to # statusOf[m]
  BY DEF Notices!MissionMoves
<1>3. /\ statusOf \in [Missions -> Notices!Troubles \cup {"running"}] /\ entered \in [Missions -> Nat]
      /\ eventLog \in Seq(NoticeEvents) /\ Len(eventLog) <= EventLimit /\ Len(eventLog) \in Nat
      /\ EventLimit \in Nat \ {0} /\ n \in Nat /\ \A x \in Missions : entered[x] < n
  <2>1. Notices!Made \in Nat
    BY MadeFacts
  <2> QED BY <2>1, NoticesBounds DEF NoticesInv
<1>4. event \in NoticeEvents /\ kind \in Kinds
  BY <1>3, KindsOfFacts DEF NoticeEvents
<1>5. /\ longer \in Seq(NoticeEvents) /\ Len(longer) = Len(eventLog) + 1
      /\ longer[Len(longer)] = event /\ \A i \in 1 .. Len(eventLog) : longer[i] = eventLog[i]
  BY <1>3, <1>4, AppendProperties
<1>6. eventLog' = IF Len(longer) > EventLimit THEN Tail(longer) ELSE longer
  BY <1>1
<1>7. /\ statusOf'[m] = to /\ entered'[m] = n
      /\ \A x \in Missions : x # m => statusOf'[x] = statusOf[x] /\ entered'[x] = entered[x]
  BY <1>2, <1>3
<1>8. OfItsMission(event, statusOf', entered')
  BY <1>3, <1>7 DEF OfItsMission
<1>9. ASSUME NEW e \in NoticeEvents, OfItsMission(e, statusOf, entered), e.id < n
      PROVE  OfItsMission(e, statusOf', entered')
  <2>1. e.mission \in Missions /\ e.id \in Nat
    BY DEF NoticeEvents
  <2>2. CASE e.mission = m
    BY <1>3, <1>7, <1>9, <2>1, <2>2 DEF OfItsMission
  <2>3. CASE e.mission # m
    BY <1>3, <1>7, <1>9, <2>1, <2>3 DEF OfItsMission
  <2> QED BY <2>2, <2>3
<1>10. \A i \in 1 .. Len(eventLog) :
         /\ eventLog[i].id < n /\ eventLog[i] \in NoticeEvents
         /\ OfItsMission(eventLog[i], statusOf, entered)
  <2>1. \A i \in DOMAIN eventLog : eventLog[i].id <= Notices!Made /\ eventLog[i] \in NoticeEvents
    BY MadeFacts
  <2>2. \A i \in DOMAIN eventLog : eventLog[i].id \in Nat
    BY <2>1 DEF NoticeEvents
  <2>3. Notices!Made \in Nat /\ DOMAIN eventLog = 1 .. Len(eventLog)
    BY <1>3, MadeFacts
  <2> QED BY <2>1, <2>2, <2>3 DEF NoticesInv
<1> HIDE DEF longer, n
<1>11. /\ \A i \in 1 .. Len(longer) : OfItsMission(longer[i], statusOf', entered') /\ longer[i].id <= n
       /\ \A i, j \in 1 .. Len(longer) : i < j => longer[i].id < longer[j].id
  <2>1. \A i \in 1 .. Len(eventLog) : OfItsMission(longer[i], statusOf', entered') /\ longer[i].id < n
    BY <1>5, <1>9, <1>10
  <2>2. \A i \in 1 .. Len(longer) : i \in 1 .. Len(eventLog) \/ i = Len(longer)
    BY <1>3, <1>5
  <2>3. longer[Len(longer)].id = n
    BY <1>5
  <2>4. \A i, j \in 1 .. Len(eventLog) : i < j => longer[i].id < longer[j].id
    <3>1. DOMAIN eventLog = 1 .. Len(eventLog)
      BY <1>3
    <3>2. \A i, j \in 1 .. Len(eventLog) : i < j => eventLog[i].id < eventLog[j].id
      BY <3>1 DEF NoticesInv
    <3> QED BY <1>5, <3>2
  <2>5. \A i \in 1 .. Len(longer) : longer[i].id \in Nat
    <3>1. \A i \in 1 .. Len(longer) : longer[i] \in NoticeEvents
      BY <1>5
    <3> QED BY <3>1 DEF NoticeEvents
  <2>6. ASSUME NEW i \in 1 .. Len(longer), NEW j \in 1 .. Len(longer), i < j
        PROVE  longer[i].id < longer[j].id
    <3>1. CASE j = Len(longer)
      <4>1. i \in 1 .. Len(eventLog)
        BY <1>3, <1>5, <2>6, <3>1
      <4> QED BY <2>1, <2>3, <3>1, <4>1
    <3>2. CASE j # Len(longer)
      BY <1>3, <1>5, <2>2, <2>4, <2>6, <3>2
    <3> QED BY <3>1, <3>2
  <2>7. \A i \in 1 .. Len(longer) : OfItsMission(longer[i], statusOf', entered') /\ longer[i].id <= n
    <3>1. OfItsMission(longer[Len(longer)], statusOf', entered') /\ longer[Len(longer)].id <= n
      BY <1>3, <1>5, <1>8, <2>3
    <3>2. \A i \in 1 .. Len(eventLog) : longer[i].id <= n
      <4>1. \A i \in 1 .. Len(eventLog) : longer[i].id \in Nat
        BY <1>3, <1>5, <2>5
      <4> QED BY <1>3, <2>1, <4>1
    <3> QED BY <2>1, <2>2, <3>1, <3>2
  <2> QED BY <2>6, <2>7
<1>12. /\ eventLog' \in Seq(NoticeEvents) /\ Len(eventLog') <= EventLimit /\ eventLog' # <<>>
       /\ eventLog'[Len(eventLog')] = event
       /\ \A i, j \in DOMAIN eventLog' : i < j => eventLog'[i].id < eventLog'[j].id
       /\ \A i \in DOMAIN eventLog' : OfItsMission(eventLog'[i], statusOf', entered')
  <2>1. CASE ~(Len(longer) > EventLimit)
    <3>1. eventLog' = longer /\ DOMAIN longer = 1 .. Len(longer) /\ longer # <<>>
      BY <1>3, <1>5, <1>6, <2>1, EmptySeq
    <3> QED BY <1>3, <1>5, <1>11, <2>1, <3>1
  <2>2. CASE Len(longer) > EventLimit
    <3> DEFINE s == Tail(longer)
    <3>1. longer # <<>> /\ Len(longer) \in Nat \ {0}
      BY <1>3, <1>5, EmptySeq
    <3>2. s \in Seq(NoticeEvents) /\ Len(s) = Len(longer) - 1 /\ \A i \in 1 .. Len(s) : s[i] = longer[i + 1]
      BY <1>5, <3>1, HeadTailProperties
    <3>3. eventLog' = s
      BY <1>6, <2>2
    <3> HIDE DEF s
    <3>4. Len(s) = Len(eventLog) /\ Len(s) \in Nat \ {0} /\ DOMAIN s = 1 .. Len(s)
      BY <1>3, <1>5, <2>2, <3>2
    <3>5. s # <<>> /\ s[Len(s)] = event /\ Len(s) <= EventLimit
      <4>1. s[Len(s)] = longer[Len(s) + 1] /\ Len(s) + 1 = Len(longer)
        BY <1>3, <1>5, <3>2, <3>4
      <4> QED BY <1>3, <1>5, <3>4, <4>1, EmptySeq
    <3>6. \A i \in 1 .. Len(s) : i + 1 \in 1 .. Len(longer)
      BY <1>3, <1>5, <3>4
    <3>7. \A i, j \in 1 .. Len(s) : i < j => i + 1 < j + 1
      BY <3>4
    <3>8. \A i, j \in 1 .. Len(s) : i < j => s[i].id < s[j].id
      BY <1>11, <3>2, <3>6, <3>7
    <3>9. \A i \in 1 .. Len(s) : OfItsMission(s[i], statusOf', entered')
      BY <1>11, <3>2, <3>6
    <3> QED BY <3>2, <3>3, <3>4, <3>5, <3>8, <3>9
  <2> QED BY <2>1, <2>2
<1>13. Notices!Made' = n
  BY <1>12 DEF Notices!Made, Notices!Last
<1>14. /\ statusOf' \in [Missions -> Notices!Troubles \cup {"running"}] /\ entered' \in [Missions -> Nat]
       /\ \A x \in Missions : entered'[x] <= n
  BY <1>2, <1>3, <1>7
<1> QED BY <1>12, <1>13, <1>14 DEF NoticesInv

LEMMA NoticesStep == NoticesInv /\ [Notices!Next]_noticesVars => NoticesInv'
<1> SUFFICES ASSUME NoticesInv, [Notices!Next]_noticesVars PROVE NoticesInv'
  OBVIOUS
<1>1. ASSUME UNCHANGED <<statusOf, eventLog, entered>> PROVE NoticesInv'
  BY <1>1 DEF NoticesInv, OfItsMission, Notices!Made, Notices!Last
<1>2. CASE \E m \in Missions, to \in Notices!Troubles \cup {"running"} : Notices!MissionMoves(m, to)
  BY <1>2, MissionMovesKeepsInv
<1>3. CASE \E id \in 1 .. MaxEvents : Notices!Open(id) \/ Notices!Snooze(id)
  BY <1>1, <1>3 DEF Notices!Open, Notices!Snooze, Notices!Answer
<1>4. CASE Notices!TimePasses
  BY <1>1, <1>4 DEF Notices!TimePasses
<1>5. CASE UNCHANGED noticesVars
  BY <1>1, <1>5 DEF noticesVars
<1> QED BY <1>2, <1>3, <1>4, <1>5 DEF Notices!Next

LEMMA EventsFacts ==
  ASSUME NoticesInv
  PROVE  /\ Notices!Events = {eventLog[i] : i \in DOMAIN eventLog} /\ Notices!Events \subseteq NoticeEvents
         /\ \A e \in Notices!Events : OfItsMission(e, statusOf, entered)
         /\ \A e, f \in Notices!Events : e = f \/ e.id < f.id \/ f.id < e.id
         /\ IsFiniteSet(Notices!Events) /\ Cardinality(Notices!Events) <= EventLimit
<1>1. /\ eventLog \in Seq(NoticeEvents) /\ Len(eventLog) \in Nat /\ DOMAIN eventLog = 1 .. Len(eventLog)
      /\ Len(eventLog) <= EventLimit /\ EventLimit \in Nat
  BY NoticesBounds DEF NoticesInv
<1>2. Notices!Events = {eventLog[i] : i \in DOMAIN eventLog}
  BY DEF Notices!Events, Notices!ToSet
<1>3. Notices!Events \subseteq NoticeEvents
  BY <1>1, <1>2
<1>4. \A e \in Notices!Events : OfItsMission(e, statusOf, entered)
  BY <1>2 DEF NoticesInv
<1>5. ASSUME NEW e \in Notices!Events, NEW f \in Notices!Events
      PROVE  e = f \/ e.id < f.id \/ f.id < e.id
  <2>1. PICK i \in DOMAIN eventLog : e = eventLog[i]
    BY <1>2
  <2>2. PICK j \in DOMAIN eventLog : f = eventLog[j]
    BY <1>2
  <2>3. i = j \/ i < j \/ j < i
    BY <1>1
  <2> QED BY <2>1, <2>2, <2>3 DEF NoticesInv
<1>6. IsFiniteSet(Notices!Events) /\ Cardinality(Notices!Events) <= EventLimit
  <2> DEFINE E == Notices!Events
             number == [e \in E |-> CHOOSE i \in 1 .. Len(eventLog) : e = eventLog[i]]
  <2>1. \A e \in E : number[e] \in 1 .. Len(eventLog) /\ e = eventLog[number[e]]
    BY <1>1, <1>2
  <2>2. number \in [E -> 1 .. Len(eventLog)]
    BY <2>1
  <2>3. \A e, f \in E : number[e] = number[f] => e = f
    BY <2>1
  <2> HIDE DEF E, number
  <2>4. number \in Injection(E, 1 .. Len(eventLog))
    BY <2>2, <2>3, Fun_IsInj
  <2>5. IsFiniteSet(1 .. Len(eventLog)) /\ Cardinality(1 .. Len(eventLog)) = Len(eventLog)
    BY <1>1, UpTo
  <2>6. IsFiniteSet(E) /\ Cardinality(E) <= Cardinality(1 .. Len(eventLog))
    BY <2>4, <2>5, FS_Injection
  <2>7. Cardinality(E) \in Nat
    BY <2>6, FS_CardinalityType
  <2> QED BY <1>1, <2>5, <2>6, <2>7 DEF E
<1> QED BY <1>2, <1>3, <1>4, <1>5, <1>6

\* What is pending is no more than a snapshot holds.
Fits == Cardinality(Notices!Pending) <= OutboxLimit

LEMMA PendingFacts ==
  ASSUME NoticesInv
  PROVE  /\ Notices!Pending \subseteq Notices!Latest /\ Notices!Latest \subseteq Notices!Relevant
         /\ Notices!Relevant \subseteq Notices!Events /\ IsFiniteSet(Notices!Pending)
         /\ Cardinality(Notices!Pending) \in Nat
<1>1. /\ Notices!Pending \subseteq Notices!Latest /\ Notices!Latest \subseteq Notices!Relevant
      /\ Notices!Relevant \subseteq Notices!Events
  BY DEF Notices!Pending, Notices!Latest, Notices!Relevant
<1>2. IsFiniteSet(Notices!Events) /\ Notices!Pending \in SUBSET Notices!Events
  BY <1>1, EventsFacts
<1>3. IsFiniteSet(Notices!Pending)
  BY <1>2, FS_Subset
<1> QED BY <1>1, <1>3, FS_CardinalityType

LEMMA FittingNoticesAreDue == NoticesInv /\ Fits => NoticesAreDue
<1> SUFFICES ASSUME NoticesInv, Fits PROVE NoticesAreDue
  OBVIOUS
<1>1. Notices!AnsweredIsQuiet
  BY DEF Notices!AnsweredIsQuiet, Notices!Outbox, Notices!Pending, Notices!Latest
<1>2. ASSUME NEW m \in Missions, statusOf[m] \in Notices!Troubles, NEW e \in Notices!Events, e.id = entered[m],
             ~Notices!Opened(e.id), ~Notices!Snoozed(e.id)
      PROVE  e \in Notices!Outbox
  <2>1. /\ e \in NoticeEvents /\ OfItsMission(e, statusOf, entered) /\ e.mission = m
        /\ statusOf[m] \in Notices!Troubles \cup {"running"}
    <3>1. OfItsMission(e, statusOf, entered) /\ e \in NoticeEvents
      BY EventsFacts
    <3> QED BY <1>2, <3>1 DEF OfItsMission, NoticesInv
  <2>2. e.kind \in Notices!KindsOf(statusOf[m])
    BY <1>2, <2>1 DEF OfItsMission
  <2>3. Notices!StillRelevant(e.kind, statusOf[e.mission])
    BY <1>2, <2>1, <2>2, KindsOfFacts
  <2>4. e \in Notices!Relevant
    BY <2>3 DEF Notices!Relevant
  <2>5. ASSUME NEW f \in Notices!Relevant, f.mission = e.mission PROVE ~(f.id > e.id)
    <3>1. f \in NoticeEvents /\ f.id <= entered[f.mission]
      BY EventsFacts DEF Notices!Relevant, OfItsMission
    <3>2. f.id \in Nat /\ e.id \in Nat
      BY <2>1, <3>1 DEF NoticeEvents
    <3> QED BY <1>2, <2>1, <2>5, <3>1, <3>2
  <2>6. e \in Notices!Pending
    BY <1>2, <2>4, <2>5 DEF Notices!Latest, Notices!Pending
  <2> DEFINE later == {f \in Notices!Pending : f.id > e.id}
             P == Notices!Pending
  <2>7. later \in SUBSET (P \ {e}) /\ e \in P
    <3>1. e.id \in Nat
      BY <2>1 DEF NoticeEvents
    <3> QED BY <2>6, <3>1
  <2>8. IsFiniteSet(P) /\ Cardinality(P) \in Nat
    BY PendingFacts
  <2> HIDE DEF later, P
  <2>9. IsFiniteSet(P \ {e}) /\ Cardinality(P \ {e}) = Cardinality(P) - 1
    BY <2>7, <2>8, FS_RemoveElement
  <2>10. Cardinality(later) <= Cardinality(P \ {e}) /\ Cardinality(later) \in Nat
    BY <2>7, <2>9, FS_Subset, FS_CardinalityType
  <2>11. Cardinality(later) < OutboxLimit
    <3>1. Cardinality(P) <= OutboxLimit
      BY DEF Fits, P
    <3> QED BY <2>8, <2>9, <2>10, <3>1, NoticesBounds
  <2>12. Notices!Cardinality(later) < OutboxLimit
    BY <2>11, NoticesCount
  <2> QED BY <2>6, <2>12 DEF Notices!Outbox, later
<1>3. Notices!TroubleIsNoticed
  BY <1>2 DEF Notices!TroubleIsNoticed
<1> QED BY <1>1, <1>3 DEF NoticesAreDue, Notices!NoticesAreDue

\* The log, or the missions with three kinds of notice each, are no more than a snapshot holds.
Roomy == EventLimit <= OutboxLimit \/ 3 * Cardinality(Missions) <= OutboxLimit

LEMMA RoomyFits == Roomy /\ NoticesInv => Fits
<1> SUFFICES ASSUME Roomy, NoticesInv PROVE Fits
  OBVIOUS
<1> DEFINE P == Notices!Pending
           E == Notices!Events
<1>1. /\ IsFiniteSet(P) /\ Cardinality(P) \in Nat /\ P \in SUBSET E /\ IsFiniteSet(E)
      /\ Cardinality(E) <= EventLimit
  BY PendingFacts, EventsFacts
<1>2. CASE EventLimit <= OutboxLimit
  <2> HIDE DEF P, E
  <2>1. Cardinality(P) <= Cardinality(E) /\ Cardinality(E) \in Nat
    BY <1>1, FS_Subset, FS_CardinalityType
  <2>2. Cardinality(P) <= OutboxLimit
    BY <1>1, <1>2, <2>1, NoticesBounds
  <2> QED BY <2>2 DEF Fits, P
<1>3. CASE 3 * Cardinality(Missions) <= OutboxLimit
  <2> DEFINE sort(kind) == IF kind = "needs_you" THEN 2 ELSE IF kind = "stale" THEN 3 ELSE 1
             T == Missions \X (1 .. 3)
             at == [e \in P |-> <<e.mission, sort(e.kind)>>]
  <2>1. \A e \in P : /\ e \in NoticeEvents /\ e \in Notices!Latest /\ e \in Notices!Relevant
                     /\ Notices!StillRelevant(e.kind, statusOf[e.mission]) /\ e \in E
    BY EventsFacts, PendingFacts DEF Notices!Relevant
  <2>2. at \in [P -> T]
    BY <2>1 DEF NoticeEvents
  <2>3. ASSUME NEW e \in P, NEW f \in P, at[e] = at[f]
        PROVE  e = f
    <3>1. e.mission = f.mission /\ sort(e.kind) = sort(f.kind)
      BY <2>3
    <3>2. e.kind \in Kinds /\ f.kind \in Kinds
      BY <2>1 DEF NoticeEvents
    <3>3. /\ e.kind # "none" /\ (e.kind = "verification_ready" <=> statusOf[e.mission] = "verifying")
          /\ f.kind # "none" /\ (f.kind = "verification_ready" <=> statusOf[f.mission] = "verifying")
      BY <2>1, <3>2, RelevantKinds
    <3>4. e.kind = f.kind
      BY <3>1, <3>2, <3>3 DEF Kinds
    <3>5. ~(f.id > e.id) /\ ~(e.id > f.id)
      BY <2>1, <3>1, <3>4 DEF Notices!Latest
    <3>6. e.id \in Nat /\ f.id \in Nat /\ (e = f \/ e.id < f.id \/ f.id < e.id)
      BY <2>1, EventsFacts DEF NoticeEvents
    <3> QED BY <3>5, <3>6
  <2> HIDE DEF at, P, T
  <2>4. at \in Injection(P, T)
    BY <2>2, <2>3, Fun_IsInj
  <2>5. IsFiniteSet(T) /\ Cardinality(T) = 3 * Cardinality(Missions)
    <3>1. IsFiniteSet(1 .. 3) /\ Cardinality(1 .. 3) = 3
      BY UpTo
    <3>2. IsFiniteSet(Missions \X (1 .. 3)) /\ Cardinality(Missions \X (1 .. 3)) = Cardinality(Missions) * 3
      BY <3>1, NoticesBounds, FS_Product
    <3>3. Cardinality(Missions) \in Nat
      BY NoticesBounds, FS_CardinalityType
    <3> QED BY <3>2, <3>3 DEF T
  <2>6. Cardinality(P) <= Cardinality(T) /\ Cardinality(T) \in Nat
    BY <2>4, <2>5, FS_Injection, FS_CardinalityType
  <2>7. Cardinality(P) <= OutboxLimit
    BY <1>1, <1>3, <2>5, <2>6, NoticesBounds
  <2> QED BY <2>7 DEF Fits, P
<1> QED BY <1>2, <1>3 DEF Roomy

\* Every mission in trouble whose event is in the log has its notice in the snapshot, unless it was answered,
\* and an answer brings up no older one, as long as no more is pending than a snapshot holds.
THEOREM NoticesAreDueIfTheyFit == Notices!Spec => [](Fits => NoticesAreDue)
<1>1. NoticesInv /\ [Notices!Next]_Notices!vars => NoticesInv'
  BY NoticesStep DEF Notices!vars, noticesVars
<1> QED BY <1>1, NoticesInit, FittingNoticesAreDue, PTL DEF Notices!Spec

\* With so few missions, or so short a log, that what is pending always fits, this is so in every state.
THEOREM NoticesAreDueHolds == Roomy => (Notices!Spec => []NoticesAreDue)
<1> SUFFICES ASSUME Roomy PROVE Notices!Spec => []NoticesAreDue
  OBVIOUS
<1>1. NoticesInv /\ [Notices!Next]_Notices!vars => NoticesInv'
  BY NoticesStep DEF Notices!vars, noticesVars
<1>2. NoticesInv => NoticesAreDue
  BY RoomyFits, FittingNoticesAreDue
<1> QED BY <1>1, <1>2, NoticesInit, PTL DEF Notices!Spec

---------------------------------------------------------------------------
(* ProjectDesk.                                                            *)

DeskFields == {"target", "context", "failed", "loading", "review", "scope", "dirty", "notes", "draft"}
Requests == [of : DeskPanes, fallback : BOOLEAN, current : BOOLEAN]
Targets  == DeskPanes \cup {Desk!None}

\* Scope and notes are those of a terminal, or of one in its project.
OfPane(d, p) == d.scope \in {Workspace[p], Project[p]} /\ d.notes \in {Project[p], Desk!None}

\* Notes are those of the project they are kept for.
OwnNotes(kept) ==
  /\ DOMAIN kept = Desk!Scopes
  /\ \A p \in DeskPanes : {kept[Workspace[p]], kept[Project[p]]} \subseteq {Project[p], Desk!None}

\* A desk that shows a terminal shows what is that terminal's.
OfTarget(d) ==
  d.target # Desk!None => d.context \in {Desk!None, d.target} /\ OfPane(d, d.target)

\* The last request is of the terminal that the desk shows, or showed before its windows were closed.
OfRequests(d, Q) == \A r \in Q : r.current => d.target \in {Desk!None, r.of} /\ OfPane(d, r.of)

Awaits(d, waits, Q) == d.target # Desk!None /\ d.loading => waits.ended \/ \E r \in Q : r.current

Reviews(d) ==
  d.review # Desk!Nothing =>
    d.review = [of |-> d.target, text |-> d.draft] /\ d.draft # Desk!None

DeskTyped ==
  /\ DOMAIN desk = DeskFields /\ desk.target \in Targets /\ focus \in Targets
  /\ DOMAIN deferred = {"render", "ended"} /\ requests \subseteq Requests

DeskInv ==
  /\ DeskTyped /\ OwnNotes(notes)
  /\ OfTarget(desk) /\ OfRequests(desk, requests) /\ Awaits(desk, deferred, requests) /\ Reviews(desk)

LEMMA ScopesShared ==
  ASSUME NEW p \in DeskPanes, NEW q \in DeskPanes, NEW s \in {Workspace[p], Project[p]},
         s \in {Workspace[q], Project[q]}
  PROVE  Project[p] = Project[q]
BY DeskAssumption

LEMMA ScopeOfPane ==
  ASSUME NEW p \in DeskPanes
  PROVE  Workspace[p] \in Desk!Scopes /\ Project[p] \in Desk!Scopes
BY DEF Desk!Scopes

\* Notes that are written beside a terminal are its project's.
LEMMA WrittenNotes ==
  ASSUME OwnNotes(notes), NEW p \in DeskPanes, NEW s \in {Workspace[p], Project[p]},
         NEW text \in {Project[p], Desk!None}
  PROVE  OwnNotes([notes EXCEPT ![s] = text])
<1> DEFINE kept == [notes EXCEPT ![s] = text]
<1>1. DOMAIN notes = Desk!Scopes /\ s \in Desk!Scopes
  BY ScopeOfPane DEF OwnNotes
<1>2. DOMAIN kept = Desk!Scopes /\ \A x \in Desk!Scopes : kept[x] = IF x = s THEN text ELSE notes[x]
  BY <1>1
<1> HIDE DEF kept
<1>3. ASSUME NEW q \in DeskPanes, NEW x \in {Workspace[q], Project[q]}
      PROVE  kept[x] \in {Project[q], Desk!None}
  <2>1. CASE x = s
    BY <1>2, <1>3, <2>1, ScopeOfPane, ScopesShared
  <2>2. CASE x # s
    BY <1>2, <1>3, <2>2, ScopeOfPane DEF OwnNotes
  <2> QED BY <2>1, <2>2
<1>4. OwnNotes(kept)
  BY <1>2, <1>3 DEF OwnNotes
<1> QED BY <1>4 DEF kept

LEMMA DeskInit == Desk!Init => DeskInv
<1> SUFFICES ASSUME Desk!Init PROVE DeskInv
  OBVIOUS
<1>1. /\ focus = Desk!None /\ requests = {} /\ deferred = [render |-> FALSE, ended |-> FALSE]
      /\ DOMAIN desk = DeskFields /\ desk.target = Desk!None /\ desk.review = Desk!Nothing
  BY DEF Desk!Init, DeskFields
<1>2. PICK kept \in StartNotes : notes = Desk!NotesOf(kept)
  BY DEF Desk!Init
<1>3. DOMAIN notes = Desk!Scopes /\ \A s \in Desk!Scopes : notes[s] \in {Desk!ProjectOf(s), Desk!None}
  BY <1>2 DEF Desk!NotesOf
<1>4. ASSUME NEW p \in DeskPanes, NEW s \in {Workspace[p], Project[p]}
      PROVE  notes[s] \in {Project[p], Desk!None}
  <2>1. \E x \in {Project[q] : q \in DeskPanes} : \E q \in DeskPanes : x = Project[q] /\ s \in {x, Workspace[q]}
    BY <1>4
  <2>2. \E q \in DeskPanes : Desk!ProjectOf(s) = Project[q] /\ s \in {Workspace[q], Project[q]}
    BY <2>1 DEF Desk!ProjectOf
  <2>3. Desk!ProjectOf(s) = Project[p]
    BY <1>4, <2>2, ScopesShared
  <2> QED BY <1>3, <1>4, <2>3, ScopeOfPane
<1>5. OwnNotes(notes)
  BY <1>3, <1>4 DEF OwnNotes
<1> QED BY <1>1, <1>5 DEF DeskInv, DeskTyped, Targets, OfTarget, OfRequests, Awaits, Reviews

LEMMA MovedFacts ==
  ASSUME DeskInv, NEW next \in Targets, NEW m, m = Desk!Moved(next)
  PROVE  /\ DOMAIN m = DeskFields /\ m.target = next /\ m.loading = FALSE /\ m.review = Desk!Nothing
         /\ OfTarget(m)
<1>1. DOMAIN desk = DeskFields
  BY DEF DeskInv, DeskTyped
<1>2. /\ DOMAIN m = DeskFields /\ m.target = next /\ m.loading = FALSE /\ m.review = Desk!Nothing
      /\ m.context = IF next \in contexts THEN next ELSE Desk!None
      /\ m.scope = IF next = Desk!None THEN Desk!None ELSE Desk!Scope(next, next \in contexts)
      /\ m.notes = IF next = Desk!None THEN Desk!None ELSE notes[Desk!Scope(next, next \in contexts)]
  BY <1>1 DEF Desk!Moved, DeskFields
<1>3. CASE next # Desk!None
  <2>1. next \in DeskPanes /\ Desk!Scope(next, next \in contexts) \in {Workspace[next], Project[next]}
    BY <1>3 DEF Targets, Desk!Scope
  <2>2. OfPane(m, next) /\ m.context \in {Desk!None, next}
    BY <1>2, <1>3, <2>1 DEF OfPane, DeskInv, OwnNotes
  <2> QED BY <1>2, <2>2 DEF OfTarget
<1> QED BY <1>2, <1>3 DEF OfTarget

LEMMA LoadingFacts ==
  ASSUME NEW d, DOMAIN d = DeskFields, NEW m, m = Desk!Loading(d), OfTarget(d)
  PROVE  /\ DOMAIN m = DeskFields /\ m.target = d.target /\ m.review = d.review /\ m.draft = d.draft
         /\ m.scope = d.scope /\ m.notes = d.notes /\ OfTarget(m)
<1>1. /\ DOMAIN m = DeskFields /\ m.target = d.target /\ m.review = d.review /\ m.draft = d.draft
      /\ m.scope = d.scope /\ m.notes = d.notes /\ m.context \in {d.target, d.context}
  BY DEF Desk!Loading, DeskFields
<1> QED BY <1>1 DEF OfTarget, OfPane

LEMMA StaleFacts ==
  ASSUME requests \subseteq Requests
  PROVE  Desk!Stale \subseteq Requests /\ \A r \in Desk!Stale : ~r.current
<1>1. FALSE \in BOOLEAN
  OBVIOUS
<1> QED BY <1>1 DEF Desk!Stale, Requests

LEMMA SyncKeepsInv ==
  ASSUME DeskInv, NEW seen, NEW p \in Targets, NEW agents, NEW refresh, NEW waiting,
         DOMAIN waiting = {"render", "ended"}, waiting.ended = deferred.ended,
         Desk!Sync(seen, p, agents, refresh, waiting), focus' \in Targets, notes' = notes
  PROVE  DeskInv'
<1> DEFINE next == Desk!Live(p, agents)
           d    == IF next # desk.target THEN Desk!Moved(next) ELSE desk
           load == /\ next # Desk!None /\ ~d.loading
                   /\ refresh \/ (next \notin fresh /\ ~d.failed)
<1>1. /\ DOMAIN desk = DeskFields /\ desk.target \in Targets /\ requests \subseteq Requests
      /\ OwnNotes(notes) /\ OfTarget(desk) /\ OfRequests(desk, requests)
      /\ Awaits(desk, deferred, requests) /\ Reviews(desk)
  BY DEF DeskInv, DeskTyped
<1>2. next \in Targets
  BY DEF Desk!Live, Targets
<1>3. ASSUME DOMAIN desk' = DeskFields, desk'.target \in Targets,
             DOMAIN deferred' = {"render", "ended"}, requests' \subseteq Requests,
             OfTarget(desk'), OfRequests(desk', requests'), Awaits(desk', deferred', requests'), Reviews(desk')
      PROVE  DeskInv'
  BY <1>1, <1>3 DEF DeskInv, DeskTyped, OwnNotes, OfTarget, OfRequests, Awaits, Reviews
<1>4. CASE ~seen
  <2>1. /\ desk' = [desk EXCEPT !.target = Desk!None, !.review = Desk!Nothing]
        /\ deferred' = waiting /\ requests' = requests
    BY <1>4 DEF Desk!Sync
  <2>2. /\ DOMAIN desk' = DeskFields /\ desk'.target = Desk!None /\ desk'.review = Desk!Nothing
        /\ desk'.scope = desk.scope /\ desk'.notes = desk.notes
    BY <1>1, <2>1 DEF DeskFields
  <2>3. OfRequests(desk', requests')
    BY <1>1, <2>1, <2>2 DEF OfRequests, OfPane
  <2> QED BY <1>1, <1>3, <2>1, <2>2, <2>3 DEF OfTarget, Awaits, Reviews, Targets
<1>5. CASE seen
  <2>1. /\ desk' = IF load THEN Desk!Loading(d) ELSE d
        /\ requests' = IF load THEN Desk!Stale \cup {Desk!Asked(d)}
                       ELSE IF next # desk.target THEN Desk!Stale ELSE requests
        /\ deferred' = IF load \/ next # desk.target THEN [waiting EXCEPT !.ended = FALSE] ELSE waiting
    BY <1>5 DEF Desk!Sync
  <2>2. /\ DOMAIN d = DeskFields /\ d.target = next /\ OfTarget(d) /\ Reviews(d)
        /\ next # desk.target => d.loading = FALSE
        /\ next = desk.target => d = desk
    <3>1. CASE next # desk.target
      BY <1>2, <3>1, MovedFacts DEF Reviews
    <3>2. CASE next = desk.target
      BY <1>1, <3>2
    <3> QED BY <3>1, <3>2
  <2>3. DOMAIN deferred' = {"render", "ended"}
    BY <2>1
  <2>4. Desk!Stale \subseteq Requests /\ \A r \in Desk!Stale : ~r.current
    BY <1>1, StaleFacts
  <2> HIDE DEF d, next
  <2>5. CASE load
    <3>1. desk' = Desk!Loading(d) /\ requests' = Desk!Stale \cup {Desk!Asked(d)}
      BY <2>1, <2>5
    <3>2. /\ DOMAIN desk' = DeskFields /\ desk'.target = next /\ desk'.review = d.review /\ desk'.draft = d.draft
          /\ desk'.scope = d.scope /\ desk'.notes = d.notes /\ OfTarget(desk')
      BY <2>2, <3>1, LoadingFacts
    <3>3. next \in DeskPanes /\ next # Desk!None
      BY <1>2, <2>5 DEF Targets
    <3>4. Desk!Asked(d) \in Requests /\ Desk!Asked(d).of = next /\ Desk!Asked(d).current
      BY <2>2, <3>3 DEF Desk!Asked, Requests
    <3>5. OfPane(desk', next)
      BY <3>2, <3>3 DEF OfTarget
    <3>6. OfRequests(desk', requests')
      BY <2>4, <3>1, <3>2, <3>4, <3>5 DEF OfRequests
    <3>7. Awaits(desk', deferred', requests')
      BY <3>1, <3>4 DEF Awaits
    <3>8. Reviews(desk')
      BY <2>2, <3>2 DEF Reviews
    <3> QED BY <1>2, <1>3, <2>3, <2>4, <3>1, <3>2, <3>4, <3>6, <3>7, <3>8
  <2>6. CASE ~load /\ next # desk.target
    <3>1. desk' = d /\ requests' = Desk!Stale
      BY <2>1, <2>6
    <3>2. OfRequests(desk', requests')
      BY <2>4, <3>1 DEF OfRequests
    <3>3. Awaits(desk', deferred', requests')
      BY <2>2, <2>6, <3>1 DEF Awaits
    <3> QED BY <1>2, <1>3, <2>2, <2>3, <2>4, <3>1, <3>2, <3>3
  <2>7. CASE ~load /\ next = desk.target
    <3>1. desk' = desk /\ requests' = requests /\ deferred' = waiting
      BY <2>1, <2>2, <2>7
    <3>2. Awaits(desk', deferred', requests')
      BY <1>1, <3>1 DEF Awaits
    <3> QED BY <1>1, <1>3, <2>3, <3>1, <3>2
  <2> QED BY <2>5, <2>6, <2>7
<1> QED BY <1>4, <1>5

\* What neither moves the desk nor ends a request.
LEMMA DeskRests ==
  ASSUME DeskInv, UNCHANGED <<desk, deferred, requests, notes>>, focus' \in Targets
  PROVE  DeskInv'
BY DEF DeskInv, DeskTyped, OwnNotes, OfTarget, OfRequests, Awaits, Reviews, OfPane

LEMMA EndedFacts ==
  ASSUME NEW d, DOMAIN d = DeskFields, NEW m, m = Desk!Ended(d), DOMAIN deferred = {"render", "ended"}, Desk!Defers
  PROVE  /\ DOMAIN m = DeskFields /\ m.target = d.target /\ m.context = d.context /\ m.review = d.review
         /\ m.scope = d.scope /\ m.notes = d.notes /\ m.draft = d.draft
         /\ m.loading => deferred'.ended
         /\ DOMAIN deferred' = {"render", "ended"}
BY DEF Desk!Ended, Desk!Defers, DeskFields

\* The end of the last request: the desk gets or keeps the context, scope and notes of its terminal.
LEMMA EndsLast ==
  ASSUME DeskInv, NEW r \in requests, r.current, requests' = requests \ {r}, Desk!Defers,
         NEW d, DOMAIN d = DeskFields, desk' = Desk!Ended(d), d.target = desk.target, d.review = desk.review,
         d.draft = desk.draft, d.context \in {r.of, Desk!None}, OfPane(d, r.of),
         d.scope \in {desk.scope, Project[r.of]}, OwnNotes(notes'), focus' = focus
  PROVE  DeskInv'
<1>1. /\ desk.target \in Targets /\ requests \subseteq Requests /\ focus \in Targets
      /\ DOMAIN deferred = {"render", "ended"} /\ OfRequests(desk, requests) /\ Reviews(desk)
  BY DEF DeskInv, DeskTyped
<1>2. r.of \in DeskPanes /\ desk.target \in {Desk!None, r.of} /\ OfPane(desk, r.of)
  BY <1>1 DEF Requests, OfRequests
<1>3. /\ DOMAIN desk' = DeskFields /\ desk'.target = d.target /\ desk'.context = d.context /\ desk'.review = d.review
      /\ desk'.scope = d.scope /\ desk'.notes = d.notes /\ desk'.draft = d.draft
      /\ desk'.loading => deferred'.ended
      /\ DOMAIN deferred' = {"render", "ended"}
  BY <1>1, EndedFacts
<1>4. OfTarget(desk')
  BY <1>2, <1>3 DEF OfTarget, OfPane
<1>5. ASSUME NEW q \in requests', q.current
      PROVE  desk'.target \in {Desk!None, q.of} /\ OfPane(desk', q.of)
  <2>1. q.of \in DeskPanes /\ desk.target \in {Desk!None, q.of} /\ OfPane(desk, q.of)
    BY <1>1, <1>5 DEF Requests, OfRequests
  <2>2. Project[q.of] = Project[r.of]
    BY <1>2, <2>1, ScopesShared DEF OfPane
  <2>3. desk'.scope \in {Workspace[q.of], Project[q.of]}
    BY <1>2, <1>3, <2>1, <2>2 DEF OfPane
  <2> QED BY <1>3, <2>1, <2>2, <2>3 DEF OfPane
<1>6. OfRequests(desk', requests') /\ Awaits(desk', deferred', requests') /\ Reviews(desk')
  BY <1>1, <1>3, <1>5 DEF OfRequests, Awaits, Reviews
<1>7. requests' \subseteq Requests
  BY <1>1
<1> QED BY <1>1, <1>3, <1>4, <1>6, <1>7 DEF DeskInv, DeskTyped, OwnNotes, OfTarget, OfRequests, Awaits, Reviews

LEMMA AnsweredDeskKeepsInv ==
  ASSUME DeskInv, NEW r \in requests, Desk!Answered(r)
  PROVE  DeskInv'
<1>1. /\ DOMAIN desk = DeskFields /\ desk.target \in Targets /\ requests \subseteq Requests /\ focus \in Targets
      /\ OwnNotes(notes) /\ OfRequests(desk, requests) /\ OfTarget(desk)
      /\ Awaits(desk, deferred, requests) /\ Reviews(desk) /\ requests' = requests \ {r} /\ focus' = focus
      /\ DOMAIN deferred = {"render", "ended"}
  BY DEF DeskInv, DeskTyped, Desk!Answered
<1>2. r.of \in DeskPanes /\ r.current \in BOOLEAN
  BY <1>1 DEF Requests
<1>3. CASE r.current
  <2> DEFINE c == [desk EXCEPT !.context = r.of, !.failed = FALSE]
             d == Desk!Adopted(c, r.of)
  <2>1. desk' = Desk!Ended(d) /\ notes' = Desk!Adoption(desk, r.of) /\ Desk!Defers
    BY <1>3 DEF Desk!Answered, Desk!IsLast
  <2>2. desk.target \in {Desk!None, r.of} /\ OfPane(desk, r.of)
    BY <1>1, <1>3 DEF OfRequests
  <2>3. /\ DOMAIN c = DeskFields /\ c.target = desk.target /\ c.review = desk.review /\ c.draft = desk.draft
        /\ c.context = r.of /\ c.scope = desk.scope /\ c.notes = desk.notes
    BY <1>1 DEF DeskFields
  <2> HIDE DEF c
  <2>4. /\ DOMAIN d = DeskFields /\ d.target = c.target /\ d.review = c.review /\ d.draft = c.draft
        /\ d.context = c.context /\ d.scope = Project[r.of] /\ d.notes \in {c.notes, notes[Project[r.of]]}
    BY <2>3 DEF DeskFields, Desk!Adopted
  <2> HIDE DEF d
  <2>5. OfPane(d, r.of)
    BY <1>1, <1>2, <2>2, <2>3, <2>4 DEF OfPane, OwnNotes
  <2>6. OwnNotes(notes')
    <3>1. notes' = notes \/ notes' = [notes EXCEPT ![Project[r.of]] = desk.notes]
      BY <2>1 DEF Desk!Adoption
    <3>2. desk.notes \in {Project[r.of], Desk!None} /\ Project[r.of] \in {Workspace[r.of], Project[r.of]}
      BY <2>2 DEF OfPane
    <3>3. OwnNotes([notes EXCEPT ![Project[r.of]] = desk.notes])
      BY <1>1, <1>2, <3>2, WrittenNotes
    <3> QED BY <1>1, <3>1, <3>3
  <2> QED BY <1>1, <1>3, <2>1, <2>3, <2>4, <2>5, <2>6, EndsLast
<1>4. CASE ~r.current
  <2>1. UNCHANGED <<desk, notes, deferred>>
    BY <1>4 DEF Desk!Answered, Desk!IsLast
  <2>2. OfRequests(desk, requests') /\ Awaits(desk, deferred, requests')
    BY <1>1, <1>4 DEF OfRequests, Awaits
  <2> QED BY <1>1, <2>1, <2>2 DEF DeskInv, DeskTyped, OwnNotes, OfTarget, OfRequests, Awaits, Reviews, OfPane
<1> QED BY <1>2, <1>3, <1>4

LEMMA FailedKeepsInv ==
  ASSUME DeskInv, NEW r \in requests, Desk!Failed(r)
  PROVE  DeskInv'
<1>1. /\ DOMAIN desk = DeskFields /\ desk.target \in Targets /\ requests \subseteq Requests /\ focus \in Targets
      /\ OwnNotes(notes) /\ OfRequests(desk, requests) /\ OfTarget(desk)
      /\ Awaits(desk, deferred, requests) /\ Reviews(desk) /\ requests' = requests \ {r}
      /\ DOMAIN deferred = {"render", "ended"} /\ notes' = notes /\ focus' = focus
  BY DEF DeskInv, DeskTyped, Desk!Failed, Desk!store
<1>2. r.of \in DeskPanes /\ r.current \in BOOLEAN
  BY <1>1 DEF Requests
<1>3. CASE r.current
  <2> DEFINE d == [desk EXCEPT !.context = IF r.fallback THEN r.of ELSE Desk!None, !.failed = TRUE]
  <2>1. desk' = Desk!Ended(d) /\ Desk!Defers
    BY <1>3 DEF Desk!Failed, Desk!IsLast
  <2>2. desk.target \in {Desk!None, r.of} /\ OfPane(desk, r.of)
    BY <1>1, <1>3 DEF OfRequests
  <2>3. /\ DOMAIN d = DeskFields /\ d.target = desk.target /\ d.review = desk.review /\ d.draft = desk.draft
        /\ d.context \in {r.of, Desk!None} /\ d.scope = desk.scope /\ d.notes = desk.notes
    BY <1>1 DEF DeskFields
  <2> HIDE DEF d
  <2>4. OfPane(d, r.of)
    BY <2>2, <2>3 DEF OfPane
  <2>5. OwnNotes(notes')
    BY <1>1
  <2> QED BY <1>1, <1>3, <2>1, <2>3, <2>4, <2>5, EndsLast
<1>4. CASE ~r.current
  <2>1. UNCHANGED <<desk, deferred>>
    BY <1>4 DEF Desk!Failed, Desk!IsLast
  <2>2. OfRequests(desk, requests') /\ Awaits(desk, deferred, requests')
    BY <1>1, <1>4 DEF OfRequests, Awaits
  <2> QED BY <1>1, <2>1, <2>2 DEF DeskInv, DeskTyped, OwnNotes, OfTarget, OfRequests, Awaits, Reviews, OfPane
<1> QED BY <1>2, <1>3, <1>4

LEMMA EndLateKeepsInv ==
  ASSUME DeskInv, Desk!EndLate
  PROVE  DeskInv'
<1>1. /\ DOMAIN desk = DeskFields /\ DOMAIN deferred = {"render", "ended"}
      /\ OfRequests(desk, requests) /\ OfTarget(desk) /\ Reviews(desk)
      /\ deferred' = [deferred EXCEPT !.ended = FALSE] /\ desk' = [desk EXCEPT !.loading = FALSE]
      /\ UNCHANGED <<requests, notes, focus>>
  BY DEF DeskInv, DeskTyped, Desk!EndLate, Desk!store
<1>2. /\ DOMAIN desk' = DeskFields /\ desk'.target = desk.target /\ desk'.context = desk.context
      /\ desk'.loading = FALSE /\ desk'.review = desk.review /\ desk'.scope = desk.scope
      /\ desk'.notes = desk.notes /\ desk'.draft = desk.draft
      /\ DOMAIN deferred' = {"render", "ended"}
  BY <1>1 DEF DeskFields
<1>3. OfTarget(desk') /\ OfRequests(desk', requests) /\ Awaits(desk', deferred', requests) /\ Reviews(desk')
  BY <1>1, <1>2 DEF OfTarget, OfRequests, Awaits, Reviews, OfPane
<1> QED BY <1>1, <1>2, <1>3 DEF DeskInv, DeskTyped, OwnNotes, OfTarget, OfRequests, Awaits, Reviews, OfPane

LEMMA WritesKeepsInv ==
  ASSUME DeskInv, NEW text \in {Project[desk.target], Desk!None}, Desk!Writes(text)
  PROVE  DeskInv'
<1>1. /\ DOMAIN desk = DeskFields /\ desk.target \in Targets /\ desk.target # Desk!None
      /\ OwnNotes(notes) /\ OfRequests(desk, requests) /\ OfTarget(desk)
      /\ Awaits(desk, deferred, requests) /\ Reviews(desk) /\ requests \subseteq Requests
      /\ desk' = [desk EXCEPT !.notes = text, !.dirty = TRUE] /\ notes' = [notes EXCEPT ![desk.scope] = text]
      /\ UNCHANGED <<requests, deferred, focus>>
  BY DEF DeskInv, DeskTyped, Desk!Writes
<1>2. desk.target \in DeskPanes /\ desk.scope \in {Workspace[desk.target], Project[desk.target]}
  BY <1>1 DEF Targets, OfTarget, OfPane
<1>3. OwnNotes(notes')
  BY <1>1, <1>2, WrittenNotes
<1>4. /\ DOMAIN desk' = DeskFields /\ desk'.target = desk.target /\ desk'.context = desk.context
      /\ desk'.loading = desk.loading /\ desk'.review = desk.review /\ desk'.scope = desk.scope
      /\ desk'.notes = text /\ desk'.draft = desk.draft
  BY <1>1 DEF DeskFields
<1>5. OfTarget(desk') /\ Awaits(desk', deferred, requests) /\ Reviews(desk')
  BY <1>1, <1>4 DEF OfTarget, Awaits, Reviews, OfPane
<1>6. OfRequests(desk', requests)
  BY <1>1, <1>2, <1>4 DEF OfRequests, OfPane
<1> QED BY <1>1, <1>3, <1>4, <1>5, <1>6
      DEF DeskInv, DeskTyped, OwnNotes, OfTarget, OfRequests, Awaits, Reviews, OfPane

\* What changes nothing on the desk but the scratchpad and its review.
LEMMA ScratchpadKeepsInv ==
  ASSUME DeskInv, NEW draft2, NEW review2, desk' = [desk EXCEPT !.draft = draft2, !.review = review2],
         \/ review2 = Desk!Nothing
         \/ review2 = [of |-> desk.target, text |-> draft2] /\ draft2 # Desk!None,
         UNCHANGED <<requests, deferred, notes, focus>>
  PROVE  DeskInv'
<1>1. /\ DOMAIN desk = DeskFields /\ OfRequests(desk, requests) /\ OfTarget(desk)
      /\ Awaits(desk, deferred, requests)
  BY DEF DeskInv, DeskTyped
<1>2. /\ DOMAIN desk' = DeskFields /\ desk'.target = desk.target /\ desk'.context = desk.context
      /\ desk'.loading = desk.loading /\ desk'.review = review2 /\ desk'.scope = desk.scope
      /\ desk'.notes = desk.notes /\ desk'.draft = draft2
  BY <1>1 DEF DeskFields
<1>3. OfTarget(desk') /\ OfRequests(desk', requests) /\ Awaits(desk', deferred, requests) /\ Reviews(desk')
  BY <1>1, <1>2 DEF OfTarget, OfRequests, Awaits, Reviews, OfPane
<1> QED BY <1>2, <1>3 DEF DeskInv, DeskTyped, OwnNotes, OfTarget, OfRequests, Awaits, Reviews, OfPane

LEMMA WritingKeepsInv ==
  ASSUME DeskInv,
         (\E text \in DeskTexts \cup {Desk!None} : Desk!Drafts(text)) \/ Desk!Review \/ Desk!Confirm \/ Desk!Sent
  PROVE  DeskInv'
<1>1. /\ DOMAIN desk = DeskFields /\ focus \in Targets /\ DOMAIN deferred = {"render", "ended"}
  BY DEF DeskInv, DeskTyped
<1>2. CASE \E text \in DeskTexts \cup {Desk!None} : Desk!Drafts(text)
  <2>1. PICK text \in DeskTexts \cup {Desk!None} : Desk!Drafts(text)
    BY <1>2
  <2>2. desk' = [desk EXCEPT !.draft = text, !.review = Desk!Nothing] /\ UNCHANGED <<requests, deferred, notes, focus>>
    BY <2>1 DEF Desk!Drafts, Desk!Drafted
  <2> QED BY <2>2, ScratchpadKeepsInv
<1>3. CASE Desk!Review
  <2>1. CASE desk.target \in listed
    <3> DEFINE review2 == [of |-> desk.target, text |-> desk.draft]
    <3>1. /\ desk' = [desk EXCEPT !.review = review2] /\ desk.draft # Desk!None
          /\ UNCHANGED <<requests, deferred, notes, focus>>
      BY <1>3, <2>1 DEF Desk!Review, Desk!store
    <3>2. [desk EXCEPT !.review = review2] = [desk EXCEPT !.draft = desk.draft, !.review = review2]
      BY <1>1 DEF DeskFields
    <3> QED BY <3>1, <3>2, ScratchpadKeepsInv
  <2>2. CASE desk.target \notin listed
    <3>1. Desk!Sync(visible, focus, listed, FALSE, deferred) /\ notes' = notes /\ focus' = focus
      BY <1>3, <2>2 DEF Desk!Review, Desk!store
    <3> QED BY <1>1, <3>1, SyncKeepsInv
  <2> QED BY <2>1, <2>2
<1>4. CASE Desk!Confirm
  <2>1. CASE desk.review.of \in listed
    <3>1. UNCHANGED <<desk, requests, deferred, notes, focus>>
      BY <1>4, <2>1 DEF Desk!Confirm, Desk!store
    <3> QED BY <1>1, <3>1, DeskRests
  <2>2. CASE desk.review.of \notin listed
    <3>1. Desk!Sync(visible, focus, listed, FALSE, deferred) /\ notes' = notes /\ focus' = focus
      BY <1>4, <2>2 DEF Desk!Confirm, Desk!store
    <3> QED BY <1>1, <3>1, SyncKeepsInv
  <2> QED BY <2>1, <2>2
<1>5. CASE Desk!Sent
  <2>1. UNCHANGED <<requests, deferred, notes, focus>>
    BY <1>5 DEF Desk!Sent
  <2> DEFINE draft2 == IF desk.draft = send.text THEN Desk!None ELSE desk.draft
  <2>2. \/ desk' = [desk EXCEPT !.review = Desk!Nothing, !.draft = draft2]
        \/ desk' = desk
    BY <1>5 DEF Desk!Sent
  <2>3. [desk EXCEPT !.review = Desk!Nothing, !.draft = draft2] = [desk EXCEPT !.draft = draft2, !.review = Desk!Nothing]
    BY <1>1 DEF DeskFields
  <2> HIDE DEF draft2
  <2>4. CASE desk' = desk
    BY <1>1, <2>1, <2>4, DeskRests
  <2> QED BY <2>1, <2>2, <2>3, <2>4, ScratchpadKeepsInv
<1> QED BY <1>2, <1>3, <1>4, <1>5

LEMMA MovesKeepInv ==
  ASSUME DeskInv,
         \/ \E p \in DeskPanes \cup {Desk!None} : Desk!Focus(p)
         \/ Desk!CloseAll \/ Desk!Refresh \/ Desk!Snapshot \/ Desk!RenderLate
  PROVE  DeskInv'
<1>1. focus \in Targets /\ DOMAIN deferred = {"render", "ended"} /\ Desk!None \in Targets
  BY DEF DeskInv, DeskTyped, Targets
<1>2. CASE \E p \in DeskPanes \cup {Desk!None} : Desk!Focus(p)
  BY <1>1, <1>2, SyncKeepsInv DEF Desk!Focus, Desk!store, Targets
<1>3. CASE Desk!CloseAll
  BY <1>1, <1>3, SyncKeepsInv DEF Desk!CloseAll, Desk!store
<1>4. CASE Desk!Refresh
  BY <1>1, <1>4, SyncKeepsInv DEF Desk!Refresh, Desk!store
<1> DEFINE waiting(render) == [deferred EXCEPT !.render = render]
<1>5. \A render \in BOOLEAN : /\ DOMAIN waiting(render) = {"render", "ended"}
                              /\ waiting(render).ended = deferred.ended
  BY <1>1
<1>6. CASE Desk!Snapshot /\ ~selecting
  <2>1. Desk!Sync(visible, focus, alive, FALSE, waiting(FALSE)) /\ notes' = notes /\ focus' = focus
    BY <1>6 DEF Desk!Snapshot, Desk!store
  <2> HIDE DEF waiting
  <2> QED BY <1>1, <1>5, <2>1, SyncKeepsInv
<1>7. CASE Desk!Snapshot /\ selecting
  <2>1. deferred' = waiting(TRUE) /\ UNCHANGED <<desk, requests, notes, focus>>
    BY <1>7 DEF Desk!Snapshot, Desk!store
  <2> HIDE DEF waiting
  <2>2. DOMAIN deferred' = {"render", "ended"} /\ deferred'.ended = deferred.ended
    BY <1>5, <2>1
  <2> QED BY <2>1, <2>2 DEF DeskInv, DeskTyped, OwnNotes, OfTarget, OfRequests, Awaits, Reviews, OfPane
<1>8. CASE Desk!RenderLate
  <2>1. Desk!Sync(visible, focus, listed, FALSE, waiting(FALSE)) /\ notes' = notes /\ focus' = focus
    BY <1>8 DEF Desk!RenderLate, Desk!store
  <2> HIDE DEF waiting
  <2> QED BY <1>1, <1>5, <2>1, SyncKeepsInv
<1> QED BY <1>2, <1>3, <1>4, <1>6, <1>7, <1>8

LEMMA DeskStep == DeskInv /\ [Desk!Next]_deskVars => DeskInv'
<1> SUFFICES ASSUME DeskInv, [Desk!Next]_deskVars PROVE DeskInv'
  OBVIOUS
<1>1. focus \in Targets
  BY DEF DeskInv, DeskTyped
<1>2. CASE UNCHANGED deskVars
  BY <1>1, <1>2, DeskRests DEF deskVars
<1>3. CASE \E r \in requests : Desk!Answered(r) \/ Desk!Failed(r)
  BY <1>3, AnsweredDeskKeepsInv, FailedKeepsInv
<1>4. CASE (\E p \in DeskPanes : Desk!Ages(p) \/ Desk!Exits(p)) \/ Desk!Selects
  BY <1>1, <1>4, DeskRests DEF Desk!Ages, Desk!Exits, Desk!Selects, Desk!store
<1>5. CASE \/ \E p \in DeskPanes \cup {Desk!None} : Desk!Focus(p)
           \/ Desk!CloseAll \/ Desk!Refresh \/ Desk!Snapshot \/ Desk!RenderLate
  BY <1>5, MovesKeepInv
<1>6. CASE Desk!EndLate
  BY <1>6, EndLateKeepsInv
<1>7. CASE \E text \in {Project[desk.target], Desk!None} : Desk!Writes(text)
  BY <1>7, WritesKeepsInv
<1>8. CASE \/ \E text \in DeskTexts \cup {Desk!None} : Desk!Drafts(text)
           \/ Desk!Review \/ Desk!Confirm \/ Desk!Sent
  BY <1>8, WritingKeepsInv
<1> QED BY <1>2, <1>3, <1>4, <1>5, <1>6, <1>7, <1>8 DEF Desk!Next

\* For every number of terminals and repositories: notes stay with the project beside which they were typed,
\* the desk shows the context of its own terminal, and one that loads awaits an answer.
THEOREM DeskIsOwnHolds == Desk!Spec => []DeskIsOwn
<1>1. DeskInv /\ [Desk!Next]_Desk!vars => DeskInv'
  BY DeskStep DEF Desk!vars, Desk!server, Desk!store, deskVars
<1>2. DeskInv => DeskIsOwn
  BY DEF DeskInv, OwnNotes, OfTarget, Awaits, DeskIsOwn, Desk!DeskIsOwn
<1> QED BY <1>1, <1>2, DeskInit, PTL DEF Desk!Spec

\* What is sent is what the scratchpad shows, to the terminal for which it shows it.
THEOREM SentAsReviewedHolds == Desk!Spec => SentAsReviewed
<1>1. DeskInv /\ [Desk!Next]_Desk!vars => DeskInv'
  BY DeskStep DEF Desk!vars, Desk!server, Desk!store, deskVars
<1> DEFINE Sends == send = Desk!Nothing /\ send' # Desk!Nothing =>
                      desk.draft # Desk!None /\ send' = [of |-> desk.target, text |-> desk.draft]
<1>2. DeskInv /\ [Desk!Next]_Desk!vars => [Sends]_Desk!vars
  <2> SUFFICES ASSUME DeskInv, Desk!Next, send = Desk!Nothing, send' # Desk!Nothing
               PROVE  desk.draft # Desk!None /\ send' = [of |-> desk.target, text |-> desk.draft]
    OBVIOUS
  <2>1. Desk!Confirm
    BY DEF Desk!Next, Desk!Answered, Desk!Failed, Desk!Ages, Desk!Exits, Desk!Focus, Desk!CloseAll, Desk!Refresh,
           Desk!Snapshot, Desk!RenderLate, Desk!EndLate, Desk!Selects, Desk!Writes, Desk!Drafts, Desk!Review, Desk!Sent
  <2>2. send' = desk.review /\ desk.review # Desk!Nothing
    BY <2>1 DEF Desk!Confirm
  <2> QED BY <2>2 DEF DeskInv, Reviews
<1> QED BY <1>1, <1>2, DeskInit, PTL DEF Desk!Spec, SentAsReviewed, Desk!SentAsReviewed
=============================================================================
