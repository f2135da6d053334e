---------------------------- MODULE RequestsProofs --------------------------
(*****************************************************************************)
(* What operators ask for, for every number of operators, sources, rules,    *)
(* inputs, tickets, ideas and schedules, and for every date: proofs about    *)
(* PaneInput, AccessRules, TicketSources and PromptCron, the parameters of   *)
(* whose instances in MCRequests are constants.                              *)
(*****************************************************************************)
EXTENDS MCRequests, SequenceTheorems, FunctionTheorems, FiniteSetTheorems, TLAPS

---------------------------------------------------------------------------
(* PaneInput.                                                              *)

Places == {"new", "asked", "waits", "turn", "looked", "over"}
InputRecords == [kind : Kinds \cup {"none"}, pane : Nat, at : Places, typed : Nat]
OnChain(i)   == input[i].at \in {"waits", "turn", "looked"}

PaneTyped ==
  /\ paneNow \in Nat /\ panes \in Nat /\ input \in [Inputs -> InputRecords]
  /\ behind \in [Inputs -> Inputs \cup {Pane!NoInput}] /\ tail \in Inputs \cup {Pane!NoInput}
  /\ reached \in [Inputs -> SUBSET Nat]

\* Each input on the chain waits for another one, the first for none, and the last has none behind it.
ChainIsALine ==
  /\ \A i \in Inputs : OnChain(i) => /\ behind[i] # tail
                                     /\ behind[i] # Pane!NoInput => OnChain(behind[i])
  /\ tail # Pane!NoInput => OnChain(tail)
  /\ \A i \in Inputs, j \in Inputs : OnChain(i) /\ OnChain(j) /\ behind[i] = behind[j] => i = j
  /\ \A i \in Inputs : Pane!InTurn(i) => behind[i] = Pane!NoInput

OwnPane(i) ==
  /\ input[i].at \in {"new"} => reached[i] = {}
  /\ input[i].kind \in Pane!ByPaneId => reached[i] \subseteq {input[i].pane}

PaneInv == PaneTyped /\ ChainIsALine /\ \A i \in Inputs : OwnPane(i)

LEMMA PaneFacts ==
  ASSUME PaneInv, NEW i \in Inputs
  PROVE  /\ PaneTyped /\ ChainIsALine /\ OwnPane(i)
         /\ input[i] \in InputRecords /\ input[i].pane \in Nat /\ input[i].typed \in Nat
         /\ input[i].at \in Places /\ input[i].kind \in Kinds \cup {"none"}
         /\ (Pane!InTurn(i) => OnChain(i) /\ behind[i] = Pane!NoInput)
BY DEF PaneInv, PaneTyped, InputRecords, Pane!InTurn, OnChain, ChainIsALine

\* One input goes somewhere else and is what it was.
LEMMA MoveFacts ==
  ASSUME PaneInv, NEW i \in Inputs, NEW at \in Places, Pane!Move(i, at)
  PROVE  /\ input' \in [Inputs -> InputRecords]
         /\ input'[i].at = at /\ input'[i].kind = input[i].kind /\ input'[i].pane = input[i].pane
         /\ input'[i].typed = input[i].typed
         /\ \A j \in Inputs : j # i => input'[j] = input[j]
<1> DEFINE new == [input[i] EXCEPT !.at = at]
<1>1. input \in [Inputs -> InputRecords]
  BY DEF PaneInv, PaneTyped
<1>2. /\ new \in InputRecords /\ new.at = at /\ new.kind = input[i].kind /\ new.pane = input[i].pane
      /\ new.typed = input[i].typed
  BY <1>1 DEF InputRecords
<1>3. input' = [input EXCEPT ![i] = new]
  BY DEF Pane!Move
<1> HIDE DEF new
<1> QED BY <1>1, <1>2, <1>3

\* What an input has reached stays its own where it only moves.
LEMMA OwnPaneStays ==
  ASSUME PaneInv, NEW i \in Inputs, NEW at \in Places \ {"new"}, Pane!Move(i, at), UNCHANGED reached
  PROVE  \A j \in Inputs : OwnPane(j)'
BY MoveFacts DEF PaneInv, OwnPane

\* An input in its turn ends: the one behind it is the first, and the chain may be over.
LEMMA EndsStep ==
  ASSUME PaneInv, NEW i \in Inputs, Pane!InTurn(i), Pane!Ends(i), UNCHANGED <<paneNow, panes, reached>>
  PROVE  PaneInv'
<1>1. /\ Pane!Move(i, "over") /\ tail' = (IF tail = i THEN Pane!NoInput ELSE tail)
      /\ behind' = [j \in Inputs |-> IF behind[j] = i THEN Pane!NoInput ELSE behind[j]]
  BY DEF Pane!Ends, Pane!TailAfter
<1>2. PaneTyped /\ ChainIsALine /\ OnChain(i) /\ behind[i] = Pane!NoInput
  BY PaneFacts
<1>3. /\ input' \in [Inputs -> InputRecords] /\ input'[i].at = "over"
      /\ \A j \in Inputs : j # i => input'[j] = input[j]
  BY <1>1, MoveFacts DEF Places
<1>4. \A j \in Inputs : behind'[j] = IF behind[j] = i THEN Pane!NoInput ELSE behind[j]
  BY <1>1
<1>5. PaneTyped'
  BY <1>1, <1>2, <1>3 DEF PaneTyped
<1>6. ~OnChain(i)' /\ \A j \in Inputs : j # i => (OnChain(j)' <=> OnChain(j)) /\ (Pane!InTurn(j)' <=> Pane!InTurn(j))
  BY <1>3 DEF OnChain, Pane!InTurn
<1>7. ~Pane!InTurn(i)'
  BY <1>3 DEF Pane!InTurn
<1>8. i # Pane!NoInput
  BY InputsAreTold
<1>9. ChainIsALine'
  <2>1. ASSUME NEW j \in Inputs, OnChain(j)'
        PROVE  behind'[j] # tail' /\ (behind'[j] # Pane!NoInput => OnChain(behind[j])')
    <3>1. j # i /\ OnChain(j) /\ behind[j] # Pane!NoInput
      BY <1>2, <1>6, <2>1 DEF ChainIsALine
    <3>2. behind[j] \in Inputs /\ OnChain(behind[j]) /\ behind[j] # tail /\ tail # Pane!NoInput
      BY <1>2, <3>1 DEF ChainIsALine, PaneTyped
    <3>3. CASE behind[j] = i
      BY <1>1, <1>4, <3>2, <3>3
    <3>4. CASE behind[j] # i
      BY <1>1, <1>4, <1>6, <3>1, <3>2, <3>4
    <3> QED BY <3>3, <3>4
  <2>2. ASSUME tail' # Pane!NoInput PROVE OnChain(tail)'
    BY <1>1, <1>2, <1>6, <2>2 DEF ChainIsALine, PaneTyped
  <2>3. ASSUME NEW j \in Inputs, NEW k \in Inputs, OnChain(j)', OnChain(k)', behind'[j] = behind'[k] PROVE j = k
    <3>1. j # i /\ k # i /\ OnChain(j) /\ OnChain(k) /\ behind[j] # Pane!NoInput /\ behind[k] # Pane!NoInput
      BY <1>2, <1>6, <2>3 DEF ChainIsALine
    <3>2. behind[j] = behind[k]
      BY <1>4, <2>3, <3>1
    <3> QED BY <1>2, <3>1, <3>2 DEF ChainIsALine
  <2>4. ASSUME NEW j \in Inputs, Pane!InTurn(j)' PROVE behind'[j] = Pane!NoInput
    BY <1>2, <1>4, <1>6, <1>7, <2>4 DEF ChainIsALine
  <2> QED BY <2>1, <2>2, <2>3, <2>4 DEF ChainIsALine
<1>10. \A j \in Inputs : OwnPane(j)'
  BY <1>1, OwnPaneStays DEF Places
<1> QED BY <1>5, <1>9, <1>10 DEF PaneInv

\* A request is made, for the pane that is there.
LEMMA AskInputStep ==
  ASSUME PaneInv, NEW i \in Inputs, NEW kind \in Kinds, Pane!Ask(i, kind)
  PROVE  PaneInv'
<1> DEFINE new == [kind |-> kind, pane |-> paneNow, at |-> "asked", typed |-> 0]
<1>1. /\ input[i].at = "new" /\ input' = [input EXCEPT ![i] = new]
      /\ UNCHANGED <<paneNow, panes, tail, behind, reached>>
  BY DEF Pane!Ask
<1>2. PaneTyped /\ ChainIsALine /\ OwnPane(i) /\ paneNow \in Nat
  BY PaneFacts DEF PaneTyped
<1>3. new \in InputRecords /\ new.at = "asked"
  BY <1>2 DEF InputRecords, Places
<1> HIDE DEF new
<1>4. input' \in [Inputs -> InputRecords] /\ input'[i] = new /\ \A j \in Inputs : j # i => input'[j] = input[j]
  BY <1>1, <1>2, <1>3 DEF PaneTyped
<1>5. PaneTyped'
  BY <1>1, <1>2, <1>4 DEF PaneTyped
<1>6. \A j \in Inputs : (OnChain(j)' <=> OnChain(j)) /\ (Pane!InTurn(j)' <=> Pane!InTurn(j))
  BY <1>1, <1>3, <1>4 DEF OnChain, Pane!InTurn
<1>7. ChainIsALine'
  <2>1. \A j \in Inputs : OnChain(j)' => behind'[j] # tail' /\ (behind'[j] # Pane!NoInput => OnChain(behind[j])')
    BY <1>1, <1>2, <1>6 DEF ChainIsALine, PaneTyped
  <2>2. tail' # Pane!NoInput => OnChain(tail)'
    BY <1>1, <1>2, <1>6 DEF ChainIsALine, PaneTyped
  <2> QED BY <1>1, <1>2, <1>6, <2>1, <2>2 DEF ChainIsALine
<1>8. \A j \in Inputs : OwnPane(j)'
  <2> TAKE j \in Inputs
  <2>1. CASE j = i
    BY <1>1, <1>2, <1>3, <1>4, <2>1 DEF OwnPane
  <2>2. CASE j # i
    BY <1>1, <1>4, <2>2 DEF OwnPane, PaneInv
  <2> QED BY <2>1, <2>2
<1> QED BY <1>5, <1>7, <1>8 DEF PaneInv

\* The request comes after the last of the chain.
LEMMA EnqueueStep ==
  ASSUME PaneInv, NEW i \in Inputs, Pane!Enqueue(i)
  PROVE  PaneInv'
<1>1. /\ input[i].at = "asked" /\ Pane!Move(i, "waits") /\ behind' = [behind EXCEPT ![i] = tail] /\ tail' = i
      /\ UNCHANGED <<paneNow, panes, reached>>
  BY DEF Pane!Enqueue
<1>2. PaneTyped /\ ChainIsALine /\ ~OnChain(i)
  BY <1>1, PaneFacts DEF OnChain
<1>3. /\ input' \in [Inputs -> InputRecords] /\ input'[i].at = "waits"
      /\ \A j \in Inputs : j # i => input'[j] = input[j]
  BY <1>1, MoveFacts DEF Places
<1>4. behind'[i] = tail /\ \A j \in Inputs : j # i => behind'[j] = behind[j]
  BY <1>1, <1>2 DEF PaneTyped
<1>5. PaneTyped'
  BY <1>1, <1>2, <1>3 DEF PaneTyped
<1>6. OnChain(i)' /\ ~Pane!InTurn(i)' /\ \A j \in Inputs : j # i => (OnChain(j)' <=> OnChain(j)) /\ (Pane!InTurn(j)' <=> Pane!InTurn(j))
  BY <1>3 DEF OnChain, Pane!InTurn
<1>7. i # Pane!NoInput /\ tail # i
  BY <1>2, InputsAreTold DEF ChainIsALine
<1>8. ChainIsALine'
  <2>1. ASSUME NEW j \in Inputs, OnChain(j)'
        PROVE  behind'[j] # tail' /\ (behind'[j] # Pane!NoInput => OnChain(behind[j])')
    <3>1. CASE j = i
      BY <1>1, <1>2, <1>4, <1>6, <1>7, <3>1 DEF ChainIsALine, PaneTyped
    <3>2. CASE j # i
      <4>1. /\ behind'[j] = behind[j] /\ OnChain(j) /\ behind[j] \in Inputs \cup {Pane!NoInput}
            /\ behind[j] # Pane!NoInput => OnChain(behind[j])
        BY <1>2, <1>4, <1>6, <2>1, <3>2 DEF ChainIsALine, PaneTyped
      <4>2. behind[j] # i
        BY <1>2, <1>7, <4>1
      <4>3. behind'[j] # Pane!NoInput => OnChain(behind[j])'
        <5>1. CASE behind[j] = Pane!NoInput
          BY <4>1, <5>1
        <5>2. CASE behind[j] # Pane!NoInput
          <6>1. behind[j] \in Inputs /\ input'[behind[j]] = input[behind[j]]
            BY <1>3, <4>1, <4>2, <5>2
          <6> QED BY <4>1, <5>2, <6>1 DEF OnChain
        <5> QED BY <5>1, <5>2
      <4> QED BY <1>1, <4>1, <4>2, <4>3
    <3> QED BY <3>1, <3>2
  <2>2. OnChain(tail)'
    BY <1>1, <1>6
  <2>3. ASSUME NEW j \in Inputs, NEW k \in Inputs, OnChain(j)', OnChain(k)', behind'[j] = behind'[k] PROVE j = k
    BY <1>2, <1>4, <1>6, <2>3 DEF ChainIsALine
  <2>4. ASSUME NEW j \in Inputs, Pane!InTurn(j)' PROVE behind'[j] = Pane!NoInput
    BY <1>2, <1>4, <1>6, <2>4 DEF ChainIsALine
  <2> QED BY <2>1, <2>2, <2>3, <2>4 DEF ChainIsALine
<1>9. \A j \in Inputs : OwnPane(j)'
  BY <1>1, OwnPaneStays DEF Places
<1> QED BY <1>5, <1>8, <1>9 DEF PaneInv

\* An input moves on, and who waits for whom stays.
LEMMA StaysInLine ==
  ASSUME PaneInv, NEW i \in Inputs, UNCHANGED <<tail, behind>>,
         input' \in [Inputs -> InputRecords], \A j \in Inputs : j # i => input'[j] = input[j],
         OnChain(i)' <=> OnChain(i), Pane!InTurn(i)' => behind[i] = Pane!NoInput
  PROVE  ChainIsALine'
<1>1. ChainIsALine /\ PaneTyped
  BY DEF PaneInv
<1>2. \A j \in Inputs : OnChain(j)' <=> OnChain(j)
  BY DEF OnChain
<1>3. \A j \in Inputs : Pane!InTurn(j)' => behind[j] = Pane!NoInput
  BY <1>1 DEF ChainIsALine, Pane!InTurn
<1>4. \A j \in Inputs : OnChain(j)' => behind'[j] # tail' /\ (behind'[j] # Pane!NoInput => OnChain(behind[j])')
  BY <1>1, <1>2 DEF ChainIsALine, PaneTyped
<1>5. tail' # Pane!NoInput => OnChain(tail)'
  BY <1>1, <1>2 DEF ChainIsALine, PaneTyped
<1> QED BY <1>1, <1>2, <1>3, <1>4, <1>5 DEF ChainIsALine

\* A request that is refused was not on the chain, and one that begins is the first of it.
LEMMA TurnSteps ==
  ASSUME PaneInv, NEW i \in Inputs, Pane!Refuse(i) \/ Pane!Begin(i) \/ Pane!Look(i) \/ Pane!Finish(i)
  PROVE  PaneInv'
<1>1. PaneTyped
  BY DEF PaneInv
<1>2. CASE Pane!Refuse(i)
  <2>1. input[i].at = "asked" /\ Pane!Move(i, "over") /\ UNCHANGED <<paneNow, panes, tail, behind, reached>>
    BY <1>2 DEF Pane!Refuse
  <2>2. /\ input' \in [Inputs -> InputRecords] /\ input'[i].at = "over"
        /\ \A j \in Inputs : j # i => input'[j] = input[j]
    BY <2>1, MoveFacts DEF Places
  <2>3. ChainIsALine'
    BY <2>1, <2>2, StaysInLine DEF OnChain, Pane!InTurn
  <2>4. \A j \in Inputs : OwnPane(j)'
    BY <2>1, OwnPaneStays DEF Places
  <2> QED BY <1>1, <2>1, <2>2, <2>3, <2>4 DEF PaneInv, PaneTyped
<1>3. CASE Pane!Begin(i)
  <2>1. /\ input[i].at = "waits" /\ behind[i] = Pane!NoInput
        /\ Pane!Move(i, "turn") /\ UNCHANGED <<paneNow, panes, tail, behind, reached>>
    BY <1>3 DEF Pane!Begin
  <2>2. /\ input' \in [Inputs -> InputRecords] /\ input'[i].at = "turn"
        /\ \A j \in Inputs : j # i => input'[j] = input[j]
    BY <2>1, MoveFacts DEF Places
  <2>3. ChainIsALine'
    BY <2>1, <2>2, StaysInLine DEF OnChain, Pane!InTurn
  <2>4. \A j \in Inputs : OwnPane(j)'
    BY <2>1, OwnPaneStays DEF Places
  <2> QED BY <1>1, <2>1, <2>2, <2>3, <2>4 DEF PaneInv, PaneTyped
<1>4. CASE Pane!Look(i)
  <2>1. input[i].at = "turn" /\ UNCHANGED <<paneNow, panes, reached>>
    BY <1>4 DEF Pane!Look
  <2>2. CASE Pane!Ends(i)
    BY <2>1, <2>2, EndsStep DEF Pane!InTurn
  <2>3. CASE Pane!Move(i, "looked") /\ UNCHANGED <<tail, behind, reserved>>
    <3>1. /\ input' \in [Inputs -> InputRecords] /\ input'[i].at = "looked"
          /\ \A j \in Inputs : j # i => input'[j] = input[j]
      BY <2>3, MoveFacts DEF Places
    <3>2. ChainIsALine'
      BY <2>1, <2>3, <3>1, StaysInLine, PaneFacts DEF OnChain, Pane!InTurn
    <3>3. \A j \in Inputs : OwnPane(j)'
      BY <2>1, <2>3, OwnPaneStays DEF Places
    <3> QED BY <1>1, <2>1, <2>3, <3>1, <3>2, <3>3 DEF PaneInv, PaneTyped
  <2> QED BY <1>4, <2>2, <2>3 DEF Pane!Look
<1>5. CASE Pane!Finish(i)
  BY <1>5, EndsStep DEF Pane!Finish
<1> QED BY <1>2, <1>3, <1>4, <1>5

\* tmux types a key, into the pane with the id where it was given one.
LEMMA KeyStep ==
  ASSUME PaneInv, NEW i \in Inputs, Pane!Key(i)
  PROVE  PaneInv'
<1> DEFINE longer == [input[i] EXCEPT !.typed = input[i].typed + 1]
           new    == [longer EXCEPT !.at = "turn"]
<1>1. /\ Pane!InTurn(i) /\ Pane!Target(i) = paneNow
      /\ reached' = [reached EXCEPT ![i] = reached[i] \cup {paneNow}]
      /\ UNCHANGED <<paneNow, panes, tail, behind>>
  BY DEF Pane!Key, Pane!InTurn
<1>2. input' = [input EXCEPT ![i] = new]
  BY DEF Pane!Key
<1>3. /\ PaneTyped /\ input[i] \in InputRecords /\ input[i].typed \in Nat /\ OnChain(i)
      /\ behind[i] = Pane!NoInput /\ OwnPane(i) /\ paneNow \in Nat
  BY <1>1, PaneFacts DEF PaneTyped
<1>4. new \in InputRecords /\ new.at = "turn" /\ new.kind = input[i].kind /\ new.pane = input[i].pane
  <2>1. longer \in InputRecords /\ longer.kind = input[i].kind /\ longer.pane = input[i].pane
    BY <1>3 DEF InputRecords
  <2> HIDE DEF longer
  <2> QED BY <2>1 DEF InputRecords, Places
<1> HIDE DEF new
<1>5. input' \in [Inputs -> InputRecords] /\ input'[i] = new /\ \A j \in Inputs : j # i => input'[j] = input[j]
  BY <1>2, <1>3, <1>4 DEF PaneTyped
<1>6. /\ reached' \in [Inputs -> SUBSET Nat] /\ reached'[i] = reached[i] \cup {paneNow}
      /\ \A j \in Inputs : j # i => reached'[j] = reached[j]
  BY <1>1, <1>3 DEF PaneTyped
<1>7. ChainIsALine'
  BY <1>1, <1>3, <1>4, <1>5, StaysInLine DEF OnChain, Pane!InTurn
<1>8. \A j \in Inputs : OwnPane(j)'
  <2> TAKE j \in Inputs
  <2>1. CASE j = i
    BY <1>1, <1>3, <1>4, <1>5, <1>6, <2>1 DEF OwnPane, Pane!Target
  <2>2. CASE j # i
    BY <1>5, <1>6, <2>2 DEF OwnPane, PaneInv
  <2> QED BY <2>1, <2>2
<1> QED BY <1>1, <1>3, <1>5, <1>6, <1>7, <1>8 DEF PaneInv, PaneTyped

\* Panes come and go under the inputs.
LEMMA PaneSteps ==
  ASSUME PaneInv, Pane!Stop \/ Pane!Create \/ UNCHANGED Pane!vars
  PROVE  PaneInv'
<1>1. paneNow' \in Nat /\ panes' \in Nat /\ UNCHANGED <<input, tail, behind, reached>>
  BY DEF Pane!Stop, Pane!Create, Pane!vars, PaneInv, PaneTyped
<1>2. PaneTyped'
  BY <1>1 DEF PaneInv, PaneTyped
<1>3. ChainIsALine'
  BY <1>1 DEF PaneInv, ChainIsALine, OnChain, Pane!InTurn
<1>4. \A j \in Inputs : OwnPane(j)'
  BY <1>1 DEF PaneInv, OwnPane
<1> QED BY <1>2, <1>3, <1>4 DEF PaneInv

LEMMA PaneBegins == Pane!Init => PaneInv
<1> SUFFICES ASSUME Pane!Init PROVE PaneInv
  OBVIOUS
<1>1. /\ paneNow = 1 /\ panes = 1 /\ input = [i \in Inputs |-> Pane!Fresh]
      /\ behind = [i \in Inputs |-> Pane!NoInput] /\ tail = Pane!NoInput /\ reached = [i \in Inputs |-> {}]
  BY DEF Pane!Init
<1>2. Pane!Fresh \in InputRecords /\ Pane!Fresh.at = "new" /\ Pane!Fresh.kind = "none"
  BY DEF Pane!Fresh, InputRecords, Places
<1>3. PaneTyped
  BY <1>1, <1>2 DEF PaneTyped
<1>4. \A i \in Inputs : ~OnChain(i) /\ ~Pane!InTurn(i)
  BY <1>1, <1>2 DEF OnChain, Pane!InTurn
<1>5. ChainIsALine
  BY <1>1, <1>4 DEF ChainIsALine
<1>6. \A i \in Inputs : OwnPane(i)
  BY <1>1, <1>2 DEF OwnPane
<1> QED BY <1>3, <1>5, <1>6 DEF PaneInv

\* The chain is a line of which only the first types.
THEOREM PaneInvariant == Pane!Spec => []PaneInv
<1>1. PaneInv /\ [Pane!Next]_(Pane!vars) => PaneInv'
  <2> SUFFICES ASSUME PaneInv, [Pane!Next]_(Pane!vars) PROVE PaneInv'
    OBVIOUS
  <2>1. CASE Pane!Next
    BY <2>1, AskInputStep, EnqueueStep, TurnSteps, KeyStep, PaneSteps DEF Pane!Next
  <2>2. CASE UNCHANGED Pane!vars
    BY <2>2, PaneSteps
  <2> QED BY <2>1, <2>2
<1> QED BY <1>1, PaneBegins, PTL DEF Pane!Spec

\* From its first to its last key no other input types into the coordinate, and what is addressed by
\* tmux's own id reaches the pane it is for, for any number of inputs and panes (enqueuePaneInput).
THEOREM InputIsOwnHolds == Pane!Spec => []InputIsOwn
<1>1. PaneInv => InputIsOwn
  <2> SUFFICES ASSUME PaneInv PROVE InputIsOwn
    OBVIOUS
  <2>1. ASSUME NEW i \in Inputs, NEW j \in Inputs, Pane!InTurn(i), Pane!InTurn(j) PROVE i = j
    BY <2>1, PaneFacts DEF ChainIsALine
  <2>2. \A i \in Inputs : input[i].kind \in Pane!ByPaneId => reached[i] \subseteq {input[i].pane}
    BY DEF PaneInv, OwnPane
  <2> QED BY <2>1, <2>2 DEF InputIsOwn, Pane!InputIsOwn, Pane!TypesAlone, Pane!ReachesOwnPane
<1> QED BY <1>1, PaneInvariant, PTL

---------------------------------------------------------------------------
(* AccessRules.                                                            *)

RequestKinds == {"open", "preview", "cleanup", "lock", "lock_new", "expire"}
Locks  == {"lock", "lock_new"}
Cleans == {"preview", "cleanup"}

\* What waits on the chain once the previews in P were shown.
Requests(P) ==
  {o \in [kind : RequestKinds, requester : Sources \cup {Access!None}, targets : SUBSET Sources,
          token : {<<>>} \cup P] :
     /\ o.kind \in Cleans \cup {"lock"} => o.requester \in Sources
     /\ o.kind = "cleanup" => o.token \in P}

\* A preview leaves alone who is to be kept, and what somebody else made.
FairPreview(p) == \A r \in p.candidates : r.source \notin p.keep /\ r.owner # "static"

\* Each operation goes its own way.
OnItsWay(x, o) ==
  /\ x.at \in {"peers", "look", "authorize", "keep", "verify", "revoke", "remaining", "save"}
  /\ x.at = "peers" => o.kind \in Cleans \cup {"lock"}
  /\ x.at = "keep" => o.kind \in Locks
  /\ x.at \in {"authorize", "verify"} => o.kind \in {"open", "cleanup"} \cup Locks
  /\ x.at = "revoke" => o.kind \in {"cleanup", "expire"} \cup Locks
  /\ x.at = "remaining" => o.kind = "cleanup"

RunTyped(x, o, C) ==
  /\ DOMAIN x = {"at", "targets", "keep", "ports", "todo", "failed", "doomed", "next",
                 "stayed", "blind", "moved"}
  /\ x.targets \subseteq Sources /\ x.keep \subseteq Sources /\ x.stayed \subseteq C
  /\ x.next \in BOOLEAN /\ x.blind \in BOOLEAN
  /\ OnItsWay(x, o)

\* Past its last look at the connections, an operation keeps its targets and all who stayed connected.
KeepsThem(x) == x.targets \subseteq x.keep /\ (x.blind \/ x.stayed \subseteq x.keep)
KeepsConnected(x, o) ==
  /\ o.kind \in Cleans /\ x.at # "peers" => x.targets = {o.requester}
  /\ o.kind \in Cleans /\ x.at # "peers" => KeepsThem(x)
  /\ o.kind \in Locks /\ x.at \in {"verify", "revoke"} => KeepsThem(x)

\* What will be revoked is not of those that are kept, and is what the preview showed.
DoomedAsShown(x, o) ==
  /\ o.kind = "cleanup" /\ x.at \in {"authorize", "verify", "revoke"} =>
       /\ x.doomed = o.token.candidates /\ o.token.requester = o.requester /\ o.token.keep = x.keep
       /\ \A r \in Access!OwnedRescue(x.doomed) : r.port \in x.ports
  /\ o.kind \in Locks /\ x.at \in {"authorize", "keep", "verify"} => Access!RescuePorts \subseteq x.ports
  /\ x.at = "revoke" =>
       \A r \in x.doomed : r.source = Access!Anyone \/ (o.kind # "expire" /\ r.source \notin x.keep)

\* Before a broad rule goes, its port is open to the targets.
CoveredBefore(R, x, o) ==
  x.at = "revoke" /\ o.kind # "expire" /\ ~x.moved =>
    \A r \in Access!OwnedRescue(x.doomed) : Access!Covered(R, x.targets, {r.port})

\* Closing means that no broad rule is left.
ClosesAll(R, x, o) ==
  /\ x.at # "remaining" /\ ~x.next => Access!OwnedRescue(R) = {}
  /\ x.at = "revoke" /\ o.kind # "cleanup" => Access!OwnedRescue(R) \subseteq x.doomed

RunSound(R, x, o, C) ==
  RunTyped(x, o, C) /\ KeepsConnected(x, o) /\ DoomedAsShown(x, o) /\ CoveredBefore(R, x, o)
  /\ ClosesAll(R, x, o)

AccessInv ==
  /\ active \in BOOLEAN /\ file \in BOOLEAN /\ peers \subseteq Sources
  /\ chain \in Seq(Requests(previews))
  /\ \A p \in previews : FairPreview(p)
  /\ ~active \/ ~file => Access!OwnedRescue(rules) = {}
  /\ run = Access!Idle \/ (chain # <<>> /\ RunSound(rules, run, Head(chain), peers))

---------------------------------------------------------------------------
(* Lemmas about the rules and the plans.                                   *)

\* A group has no more broad rules than before when what is new in it is no rescue.
LEMMA RescueShrinks ==
  ASSUME NEW R, NEW S, \A r \in S : r \in R \/ r.owner # "rescue"
  PROVE  Access!OwnedRescue(S) \subseteq Access!OwnedRescue(R)
BY DEF Access!OwnedRescue

\* Rules that are added take no cover away.
LEMMA CoveredGrows ==
  ASSUME NEW R, NEW S, R \subseteq S, NEW cs, NEW ps, Access!Covered(R, cs, ps)
  PROVE  Access!Covered(S, cs, ps)
BY DEF Access!Covered

\* A preview keeps its requester and whoever was met, and removes no rule of theirs.
LEMMA PlanIsFair ==
  ASSUME NEW R, NEW q \in Sources, NEW met \in SUBSET Sources
  PROVE  /\ FairPreview(Access!Plan(R, q, met))
         /\ Access!Plan(R, q, met).keep = {q} \cup met /\ Access!Plan(R, q, met).requester = q
         /\ Access!OwnedRescue(Access!Plan(R, q, met).candidates) = Access!OwnedRescue(R)
         /\ \A r \in Access!Plan(R, q, met).candidates : r.source = Access!Anyone \/ r.source \notin {q} \cup met
<1> DEFINE keep == {q} \cup met
           plan == [requester |-> q, keep |-> keep,
                    candidates |-> Access!OwnedRescue(R) \cup Access!Stale(R, keep)]
<1>1. Access!Plan(R, q, met) = plan
  BY DEF Access!Plan
<1>2. plan.keep = keep /\ plan.requester = q /\ plan.candidates = Access!OwnedRescue(R) \cup Access!Stale(R, keep)
  OBVIOUS
<1>3. keep \subseteq Sources
  OBVIOUS
<1>4. \A r \in Access!OwnedRescue(R) : r.source = Access!Anyone /\ r.owner = "rescue"
  BY DEF Access!OwnedRescue
<1>5. \A r \in Access!Stale(R, keep) : r.source \notin keep /\ r.owner = "managed"
  BY DEF Access!Stale, Access!OwnedLock
<1> HIDE DEF plan
<1>6. Access!OwnedRescue(plan.candidates) = Access!OwnedRescue(R)
  BY <1>2, <1>5 DEF Access!OwnedRescue
<1>7. FairPreview(plan)
  BY <1>2, <1>3, <1>4, <1>5, AccessBounds DEF FairPreview
<1>8. \A r \in plan.candidates : r.source = Access!Anyone \/ r.source \notin keep
  BY <1>2, <1>4, <1>5
<1> QED BY <1>1, <1>2, <1>6, <1>7, <1>8

---------------------------------------------------------------------------
(* Lemmas about the chain.                                                 *)

LEMMA AccessFacts ==
  ASSUME AccessInv
  PROVE  /\ active \in BOOLEAN /\ file \in BOOLEAN /\ peers \subseteq Sources
         /\ chain \in Seq(Requests(previews))
         /\ \A p \in previews : FairPreview(p)
         /\ ~active \/ ~file => Access!OwnedRescue(rules) = {}
BY DEF AccessInv

\* The operation that runs is one that was asked for.
LEMMA RunFacts ==
  ASSUME AccessInv, run # Access!Idle
  PROVE  /\ chain # <<>> /\ Access!Op = Head(chain) /\ Access!Op \in Requests(previews)
         /\ RunSound(rules, run, Access!Op, peers)
<1>1. chain # <<>> /\ RunSound(rules, run, Head(chain), peers) /\ chain \in Seq(Requests(previews))
  BY DEF AccessInv
<1>2. Head(chain) \in Requests(previews)
  BY <1>1
<1> QED BY <1>1, <1>2 DEF Access!Op

LEMMA RequestsGrow ==
  ASSUME NEW P, NEW Q, P \subseteq Q, NEW s \in Seq(Requests(P))
  PROVE  s \in Seq(Requests(Q))
<1>1. Requests(P) \subseteq Requests(Q)
  BY DEF Requests
<1> QED BY <1>1

\* An operation ends, and the next one may begin.
LEMMA DoneKeeps ==
  ASSUME AccessInv, Access!Done, chain # <<>>, UNCHANGED peers,
         previews \subseteq previews', \A p \in previews' : FairPreview(p),
         active' \in BOOLEAN, file' \in BOOLEAN,
         ~active' \/ ~file' => Access!OwnedRescue(rules') = {}
  PROVE  AccessInv'
<1>1. chain' = Tail(chain) /\ run' = Access!Idle
  BY DEF Access!Done
<1>2. chain \in Seq(Requests(previews')) /\ peers \subseteq Sources
  BY AccessFacts, RequestsGrow
<1>3. chain' \in Seq(Requests(previews'))
  BY <1>1, <1>2
<1>4. Access!OwnedRescue(rules)' = Access!OwnedRescue(rules')
  BY DEF Access!OwnedRescue
<1> QED BY <1>1, <1>2, <1>3 DEF AccessInv, Access!Idle, FairPreview, Requests, Access!OwnedRescue

\* An operation goes on.
LEMMA GoesOn ==
  ASSUME AccessInv, chain # <<>>, UNCHANGED <<chain, peers, active, file, previews>>,
         Access!OwnedRescue(rules') \subseteq Access!OwnedRescue(rules),
         RunSound(rules', run', Head(chain), peers)
  PROVE  AccessInv'
BY DEF AccessInv

\* A request joins the chain, and what runs goes on.
LEMMA EnqueueKeeps ==
  ASSUME AccessInv, NEW o \in Requests(previews), Access!Enqueue(o),
         UNCHANGED <<rules, peers, active, file, run, previews>>
  PROVE  AccessInv'
<1>1. chain \in Seq(Requests(previews)) /\ chain' = Append(chain, o)
  BY AccessFacts DEF Access!Enqueue
<1>2. chain' \in Seq(Requests(previews))
  BY <1>1
<1>3. chain # <<>> => Head(chain') = Head(chain) /\ chain' # <<>>
  BY <1>1
<1> QED BY <1>2, <1>3 DEF AccessInv


---------------------------------------------------------------------------
(* One lemma for each operation of AccessRules, on the invariant.          *)

LEMMA AskSteps ==
  ASSUME AccessInv,
         \/ \E c \in Sources : Access!AskOpen(c)
         \/ \E q \in Operators : Access!AskPreview(q) \/ Access!AskCleanup(q) \/ Access!AskLock(q)
  PROVE  AccessInv'
<1>1. ASSUME NEW o \in Requests(previews), Access!Asks(o) PROVE AccessInv'
  BY <1>1, EnqueueKeeps DEF Access!Asks, Access!hostVars
<1>2. ASSUME NEW c \in Sources, Access!AskOpen(c) PROVE AccessInv'
  <2> DEFINE o == [Access!Request("open", c) EXCEPT !.targets = {c}]
  <2>1. o \in Requests(previews)
    BY DEF Access!Request, Requests, RequestKinds, Cleans
  <2>2. Access!Asks(o)
    BY <1>2 DEF Access!AskOpen
  <2> QED BY <1>1, <2>1, <2>2
<1>3. ASSUME NEW q \in Operators, Access!AskPreview(q) \/ Access!AskLock(q) PROVE AccessInv'
  <2>1. q \in Sources
    BY AccessBounds
  <2>2. Access!Request("preview", q) \in Requests(previews) /\ Access!Request("lock", q) \in Requests(previews)
    BY <2>1 DEF Access!Request, Requests, RequestKinds, Cleans
  <2> QED BY <1>1, <1>3, <2>2 DEF Access!AskPreview, Access!AskLock
<1>4. ASSUME NEW q \in Operators, Access!AskCleanup(q) PROVE AccessInv'
  <2>1. PICK p \in previews : Access!Asks([Access!Request("cleanup", q) EXCEPT !.token = p])
    BY <1>4 DEF Access!AskCleanup
  <2> DEFINE o == [Access!Request("cleanup", q) EXCEPT !.token = p]
  <2>2. q \in Sources
    BY AccessBounds
  <2>3. o \in Requests(previews)
    BY <2>2 DEF Access!Request, Requests, RequestKinds, Cleans
  <2> QED BY <1>1, <2>1, <2>3
<1> QED BY <1>2, <1>3, <1>4

LEMMA BeginStep == ASSUME AccessInv, Access!Begin PROVE AccessInv'
<1>1. chain # <<>> /\ run = Access!Idle /\ UNCHANGED <<rules, peers, active, file, previews>>
  BY DEF Access!Begin, Access!hostVars
<1>2. Access!Op = Head(chain) /\ Access!Op \in Requests(previews)
  BY <1>1, AccessFacts DEF Access!Op
<1>3. CASE Access!Done
  BY <1>1, <1>3, AccessFacts, DoneKeeps
<1>4. CASE ~Access!Done
  <2> DEFINE x == [at |-> IF Access!Op.kind \in {"open", "lock_new", "expire"} THEN "look" ELSE "peers",
                   targets |-> Access!Op.targets, keep |-> {}, ports |-> {}, todo |-> <<>>,
                   failed |-> FALSE, doomed |-> {}, next |-> active,
                   stayed |-> peers, blind |-> FALSE, moved |-> FALSE]
  <2>1. run' = x /\ UNCHANGED chain
    BY <1>4 DEF Access!Begin, Access!Goto
  <2>2. RunTyped(x, Access!Op, peers)
    BY <1>2, AccessFacts DEF RunTyped, OnItsWay, Requests, RequestKinds, Locks, Cleans
  <2>3. KeepsConnected(x, Access!Op) /\ DoomedAsShown(x, Access!Op) /\ CoveredBefore(rules, x, Access!Op)
    BY <1>2 DEF KeepsConnected, DoomedAsShown, CoveredBefore, Locks, Cleans
  <2>4. ClosesAll(rules, x, Access!Op)
    BY AccessFacts DEF ClosesAll
  <2> QED BY <1>1, <1>2, <2>1, <2>2, <2>3, <2>4, GoesOn DEF RunSound
<1> QED BY <1>3, <1>4

LEMMA LookAtPeersStep == ASSUME AccessInv, Access!LookAtPeers PROVE AccessInv'
<1>1. run.at \in {"peers", "keep"} /\ UNCHANGED <<rules, peers, active, file, previews>>
  BY DEF Access!LookAtPeers, Access!hostVars
<1>2. run # Access!Idle
  BY <1>1 DEF Access!Idle
<1>3. PICK met \in SUBSET Sources, dark \in BOOLEAN :
        /\ Access!Connected(met, dark)
        /\ \/ /\ run.at = "keep"
              /\ Access!Goto([Access!Looked(dark) EXCEPT !.at = "verify", !.keep = run.targets \cup met])
           \/ /\ run.at = "peers" /\ Access!Op.kind # "lock"
              /\ Access!Goto([Access!Looked(dark) EXCEPT !.at = "look", !.targets = {Access!Op.requester},
                                                         !.keep = {Access!Op.requester} \cup met])
           \/ /\ run.at = "peers" /\ Access!Op.kind = "lock"
              /\ LET targets == (met \cup {Access!Op.requester}) \ Baseline
                 IN  IF targets = {} THEN Access!Done
                     ELSE Access!Goto([Access!Looked(dark) EXCEPT !.at = "look", !.targets = targets])
  BY DEF Access!LookAtPeers
<1>4. /\ chain # <<>> /\ Access!Op = Head(chain) /\ Access!Op \in Requests(previews)
      /\ RunTyped(run, Access!Op, peers) /\ DoomedAsShown(run, Access!Op) /\ ClosesAll(rules, run, Access!Op)
  BY <1>2, RunFacts DEF RunSound
<1>5. dark \/ met = peers
  BY <1>3 DEF Access!Connected
<1> DEFINE l == Access!Looked(dark)
<1>6. /\ DOMAIN l = DOMAIN run /\ l.blind = (run.blind \/ dark)
      /\ l.at = run.at /\ l.targets = run.targets /\ l.keep = run.keep /\ l.ports = run.ports
      /\ l.doomed = run.doomed /\ l.next = run.next /\ l.stayed = run.stayed /\ l.moved = run.moved
  BY <1>4 DEF Access!Looked, RunTyped
<1> HIDE DEF l
<1>7. CASE run.at = "keep"
  <2> DEFINE x == [l EXCEPT !.at = "verify", !.keep = run.targets \cup met]
  <2>1. run' = x /\ UNCHANGED chain
    BY <1>3, <1>7 DEF Access!Goto, l
  <2>2. /\ DOMAIN x = DOMAIN run /\ x.blind = (run.blind \/ dark) /\ x.at = "verify"
        /\ x.targets = run.targets /\ x.keep = run.targets \cup met /\ x.ports = run.ports
        /\ x.doomed = run.doomed /\ x.next = run.next /\ x.stayed = run.stayed
    BY <1>4, <1>6 DEF RunTyped
  <2> HIDE DEF x
  <2>3. Access!Op.kind \in Locks
    BY <1>4, <1>7 DEF RunTyped, OnItsWay
  <2>4. RunTyped(x, Access!Op, peers)
    BY <1>4, <2>2, <2>3 DEF RunTyped, OnItsWay, Locks, Cleans
  <2>5. KeepsConnected(x, Access!Op)
    BY <1>4, <1>5, <2>2, <2>3 DEF KeepsConnected, KeepsThem, RunTyped, Locks, Cleans
  <2>6. DoomedAsShown(x, Access!Op) /\ CoveredBefore(rules, x, Access!Op)
    BY <1>4, <1>7, <2>2, <2>3 DEF DoomedAsShown, CoveredBefore, Locks
  <2>7. ClosesAll(rules, x, Access!Op)
    BY <1>4, <1>7, <2>2 DEF ClosesAll
  <2> QED BY <1>1, <1>4, <2>1, <2>4, <2>5, <2>6, <2>7, GoesOn DEF RunSound
<1>8. CASE run.at = "peers" /\ Access!Op.kind # "lock"
  <2> DEFINE x == [l EXCEPT !.at = "look", !.targets = {Access!Op.requester},
                            !.keep = {Access!Op.requester} \cup met]
  <2>1. run' = x /\ UNCHANGED chain
    BY <1>3, <1>8 DEF Access!Goto, l
  <2>2. /\ DOMAIN x = DOMAIN run /\ x.blind = (run.blind \/ dark) /\ x.at = "look"
        /\ x.targets = {Access!Op.requester} /\ x.keep = {Access!Op.requester} \cup met
        /\ x.next = run.next /\ x.stayed = run.stayed
    BY <1>4, <1>6 DEF RunTyped
  <2> HIDE DEF x
  <2>3. Access!Op.kind \in Cleans /\ Access!Op.requester \in Sources
    BY <1>4, <1>8 DEF RunTyped, OnItsWay, Requests
  <2>4. RunTyped(x, Access!Op, peers)
    BY <1>4, <2>2, <2>3 DEF RunTyped, OnItsWay
  <2>5. KeepsConnected(x, Access!Op)
    BY <1>4, <1>5, <2>2, <2>3 DEF KeepsConnected, KeepsThem, RunTyped, Locks, Cleans
  <2>6. DoomedAsShown(x, Access!Op) /\ CoveredBefore(rules, x, Access!Op)
    BY <2>2 DEF DoomedAsShown, CoveredBefore
  <2>7. ClosesAll(rules, x, Access!Op)
    BY <1>4, <1>8, <2>2 DEF ClosesAll
  <2> QED BY <1>1, <1>4, <2>1, <2>4, <2>5, <2>6, <2>7, GoesOn DEF RunSound
<1>9. CASE run.at = "peers" /\ Access!Op.kind = "lock"
  <2> DEFINE targets == (met \cup {Access!Op.requester}) \ Baseline
             x == [l EXCEPT !.at = "look", !.targets = targets]
  <2>1. CASE Access!Done
    BY <1>1, <1>4, <2>1, AccessFacts, DoneKeeps
  <2>2. CASE ~Access!Done
    <3>1. run' = x /\ UNCHANGED chain
      BY <1>3, <1>9, <2>2 DEF Access!Goto, l
    <3>2. /\ DOMAIN x = DOMAIN run /\ x.blind = (run.blind \/ dark) /\ x.at = "look"
          /\ x.targets = targets /\ x.keep = run.keep /\ x.next = run.next /\ x.stayed = run.stayed
      BY <1>4, <1>6 DEF RunTyped
    <3>3. targets \subseteq Sources
      BY <1>4, <1>9 DEF Requests
    <3> HIDE DEF x, targets
    <3>4. RunTyped(x, Access!Op, peers)
      BY <1>4, <3>2, <3>3 DEF RunTyped, OnItsWay
    <3>5. KeepsConnected(x, Access!Op) /\ DoomedAsShown(x, Access!Op) /\ CoveredBefore(rules, x, Access!Op)
      BY <1>9, <3>2 DEF KeepsConnected, DoomedAsShown, CoveredBefore, Cleans, Locks
    <3>6. ClosesAll(rules, x, Access!Op)
      BY <1>4, <1>9, <3>2 DEF ClosesAll
    <3> QED BY <1>1, <1>4, <3>1, <3>4, <3>5, <3>6, GoesOn DEF RunSound
  <2> QED BY <2>1, <2>2
<1> QED BY <1>1, <1>7, <1>8, <1>9

LEMMA LookStep == ASSUME AccessInv, Access!Look PROVE AccessInv'
<1> DEFINE plan == Access!Plan(rules, Access!Op.requester, run.keep \ {Access!Op.requester})
           broad == {r.port : r \in Access!OwnedRescue(rules)}
<1>1. run.at = "look" /\ UNCHANGED <<rules, peers, active, file>>
  BY DEF Access!Look, Access!hostVars
<1>2. run # Access!Idle
  BY <1>1 DEF Access!Idle
<1>3. /\ chain # <<>> /\ Access!Op = Head(chain) /\ Access!Op \in Requests(previews)
      /\ RunTyped(run, Access!Op, peers) /\ KeepsConnected(run, Access!Op)
      /\ ClosesAll(rules, run, Access!Op)
  BY <1>2, RunFacts DEF RunSound
<1>4. ASSUME Access!Op.kind \in Cleans
      PROVE  /\ Access!Op.requester \in Sources /\ Access!Op.requester \in run.keep
             /\ run.keep \ {Access!Op.requester} \in SUBSET Sources /\ KeepsThem(run)
             /\ FairPreview(plan) /\ plan.requester = Access!Op.requester /\ plan.keep = run.keep
             /\ Access!OwnedRescue(plan.candidates) = Access!OwnedRescue(rules)
             /\ \A r \in plan.candidates : r.source = Access!Anyone \/ r.source \notin run.keep
  <2>1. Access!Op.requester \in Sources
    BY <1>3, <1>4 DEF Requests
  <2>2. KeepsThem(run) /\ run.targets = {Access!Op.requester}
    BY <1>1, <1>3, <1>4 DEF KeepsConnected
  <2>3. Access!Op.requester \in run.keep /\ run.keep \subseteq Sources
    BY <1>3, <2>2 DEF KeepsThem, RunTyped
  <2>4. {Access!Op.requester} \cup (run.keep \ {Access!Op.requester}) = run.keep
    BY <2>3
  <2>5. run.keep \ {Access!Op.requester} \in SUBSET Sources
    BY <2>3
  <2>6. /\ FairPreview(plan) /\ plan.requester = Access!Op.requester
        /\ plan.keep = {Access!Op.requester} \cup (run.keep \ {Access!Op.requester})
        /\ Access!OwnedRescue(plan.candidates) = Access!OwnedRescue(rules)
        /\ \A r \in plan.candidates : \/ r.source = Access!Anyone
                                      \/ r.source \notin {Access!Op.requester} \cup (run.keep \ {Access!Op.requester})
    <3> DEFINE q == Access!Op.requester
               kept == run.keep \ {Access!Op.requester}
    <3>1. q \in Sources /\ kept \in SUBSET Sources
      BY <2>1, <2>5
    <3> HIDE DEF q, kept
    <3>2. /\ FairPreview(Access!Plan(rules, q, kept)) /\ Access!Plan(rules, q, kept).requester = q
          /\ Access!Plan(rules, q, kept).keep = {q} \cup kept
          /\ Access!OwnedRescue(Access!Plan(rules, q, kept).candidates) = Access!OwnedRescue(rules)
          /\ \A r \in Access!Plan(rules, q, kept).candidates : r.source = Access!Anyone \/ r.source \notin {q} \cup kept
      BY <3>1, PlanIsFair
    <3> QED BY <3>2 DEF q, kept
  <2> HIDE DEF plan
  <2> QED BY <2>1, <2>2, <2>3, <2>4, <2>5, <2>6
<1>5. CASE Access!Op.kind = "preview"
  <2>1. Access!Done /\ previews' = previews \cup {plan}
    BY <1>5 DEF Access!Look
  <2>2. FairPreview(plan)
    BY <1>4, <1>5 DEF Cleans
  <2> HIDE DEF plan
  <2>3. \A p \in previews' : FairPreview(p)
    BY <2>1, <2>2, AccessFacts
  <2> QED BY <1>1, <1>3, <2>1, <2>3, AccessFacts, DoneKeeps
<1>6. CASE Access!Op.kind = "cleanup"
  <2>1. /\ UNCHANGED previews
        /\ IF ~Access!Confirmed(plan) THEN Access!Done
           ELSE Access!Goto([run EXCEPT !.at = IF broad = {} THEN "revoke" ELSE "authorize",
                                        !.ports = broad, !.todo = Access!Coverage(run.targets, broad),
                                        !.doomed = plan.candidates])
    BY <1>6 DEF Access!Look
  <2>2. CASE ~Access!Confirmed(plan)
    BY <1>1, <1>3, <2>1, <2>2, AccessFacts, DoneKeeps
  <2>3. CASE Access!Confirmed(plan)
    <3> DEFINE x == [run EXCEPT !.at = IF broad = {} THEN "revoke" ELSE "authorize",
                                !.ports = broad, !.todo = Access!Coverage(run.targets, broad),
                                !.doomed = plan.candidates]
    <3>1. run' = x /\ UNCHANGED chain
      BY <2>1, <2>3 DEF Access!Goto
    <3>2. /\ DOMAIN x = DOMAIN run /\ x.at \in {"revoke", "authorize"} /\ x.ports = broad
          /\ x.doomed = plan.candidates /\ x.targets = run.targets /\ x.keep = run.keep
          /\ x.next = run.next /\ x.stayed = run.stayed /\ x.blind = run.blind
          /\ x.at = "revoke" => broad = {}
      BY <1>3 DEF RunTyped
    <3>3. plan = Access!Op.token
      BY <2>3 DEF Access!Confirmed
    <3>4. \A r \in Access!OwnedRescue(rules) : r.port \in broad
      OBVIOUS
    <3> HIDE DEF x, plan, broad
    <3>5. RunTyped(x, Access!Op, peers)
      BY <1>3, <1>6, <3>2 DEF RunTyped, OnItsWay
    <3>6. KeepsConnected(x, Access!Op)
      BY <1>1, <1>3, <1>6, <3>2 DEF KeepsConnected, KeepsThem, Cleans, Locks
    <3>7. DoomedAsShown(x, Access!Op)
      BY <1>4, <1>6, <3>2, <3>3, <3>4 DEF DoomedAsShown, Cleans, Locks
    <3>8. CoveredBefore(rules, x, Access!Op)
      BY <1>4, <1>6, <3>2, <3>4 DEF CoveredBefore, Cleans
    <3>9. ClosesAll(rules, x, Access!Op)
      BY <1>1, <1>3, <1>6, <3>2 DEF ClosesAll
    <3> QED BY <1>1, <1>3, <2>1, <3>1, <3>5, <3>6, <3>7, <3>8, <3>9, GoesOn DEF RunSound
  <2> QED BY <2>2, <2>3
<1>7. CASE Access!Op.kind = "expire"
  <2> DEFINE x == [run EXCEPT !.at = "revoke", !.doomed = Access!OwnedRescue(rules)]
  <2>1. run' = x /\ UNCHANGED <<chain, previews>>
    BY <1>7 DEF Access!Look, Access!Goto
  <2>2. /\ DOMAIN x = DOMAIN run /\ x.at = "revoke" /\ x.doomed = Access!OwnedRescue(rules)
        /\ x.targets = run.targets /\ x.keep = run.keep
        /\ x.next = run.next /\ x.stayed = run.stayed /\ x.blind = run.blind
    BY <1>3 DEF RunTyped
  <2> HIDE DEF x
  <2>3. RunTyped(x, Access!Op, peers)
    BY <1>3, <1>7, <2>2 DEF RunTyped, OnItsWay
  <2>4. KeepsConnected(x, Access!Op)
    BY <1>7 DEF KeepsConnected, Cleans, Locks
  <2>5. DoomedAsShown(x, Access!Op)
    BY <1>7, <2>2 DEF DoomedAsShown, Locks, Access!OwnedRescue
  <2>6. CoveredBefore(rules, x, Access!Op)
    BY <1>7 DEF CoveredBefore
  <2>7. ClosesAll(rules, x, Access!Op)
    BY <1>1, <1>3, <2>2 DEF ClosesAll
  <2> QED BY <1>1, <1>3, <2>1, <2>3, <2>4, <2>5, <2>6, <2>7, GoesOn DEF RunSound
<1>8. CASE Access!Op.kind \in {"open", "lock", "lock_new"}
  <2> DEFINE ports == Access!MirrorPorts(rules)
             x == [run EXCEPT !.at = "authorize", !.ports = ports, !.todo = Access!Coverage(run.targets, ports)]
  <2>1. run' = x /\ UNCHANGED <<chain, previews>>
    BY <1>8 DEF Access!Look, Access!Goto
  <2>2. /\ DOMAIN x = DOMAIN run /\ x.at = "authorize" /\ x.ports = ports
        /\ x.targets = run.targets /\ x.keep = run.keep
        /\ x.next = run.next /\ x.stayed = run.stayed /\ x.blind = run.blind
    BY <1>3 DEF RunTyped
  <2>3. Access!RescuePorts \subseteq ports
    BY DEF Access!MirrorPorts
  <2> HIDE DEF x, ports
  <2>4. RunTyped(x, Access!Op, peers)
    BY <1>3, <1>8, <2>2 DEF RunTyped, OnItsWay, Locks
  <2>5. KeepsConnected(x, Access!Op)
    BY <1>8, <2>2 DEF KeepsConnected, Cleans, Locks
  <2>6. DoomedAsShown(x, Access!Op) /\ CoveredBefore(rules, x, Access!Op)
    BY <1>8, <2>2, <2>3 DEF DoomedAsShown, CoveredBefore
  <2>7. ClosesAll(rules, x, Access!Op)
    BY <1>1, <1>3, <2>2 DEF ClosesAll
  <2> QED BY <1>1, <1>3, <2>1, <2>4, <2>5, <2>6, <2>7, GoesOn DEF RunSound
<1>9. Access!Op.kind \in RequestKinds
  BY <1>3 DEF Requests
<1> QED BY <1>5, <1>6, <1>7, <1>8, <1>9 DEF RequestKinds

LEMMA LookFailsStep == ASSUME AccessInv, Access!LookFails PROVE AccessInv'
<1>1. run.at \in {"look", "verify", "remaining"} /\ Access!Done /\ UNCHANGED <<rules, peers, active, file, previews>>
  BY DEF Access!LookFails, Access!hostVars
<1>2. run # Access!Idle
  BY <1>1 DEF Access!Idle
<1> QED BY <1>1, <1>2, RunFacts, AccessFacts, DoneKeeps

\* What the operation adds is its own, and no rescue.
LEMMA AuthorizeStep == ASSUME AccessInv, Access!Authorize PROVE AccessInv'
<1>1. run.at = "authorize" /\ UNCHANGED <<peers, active, file, previews>>
  BY DEF Access!Authorize, Access!hostVars
<1>2. run # Access!Idle
  BY <1>1 DEF Access!Idle
<1>3. /\ chain # <<>> /\ Access!Op = Head(chain) /\ Access!Op \in Requests(previews)
      /\ RunTyped(run, Access!Op, peers) /\ KeepsConnected(run, Access!Op) /\ DoomedAsShown(run, Access!Op)
      /\ ClosesAll(rules, run, Access!Op)
  BY <1>2, RunFacts DEF RunSound
<1>4. PICK new \in {{}, Access!Added}, failed \in BOOLEAN :
        /\ rules' = rules \cup new
        /\ Access!Goto([run EXCEPT !.todo = Tail(run.todo), !.failed = run.failed \/ failed,
                                   !.at = IF Tail(run.todo) # <<>> THEN "authorize"
                                          ELSE IF Access!Op.kind \in {"lock", "lock_new"} THEN "keep" ELSE "verify"])
  BY DEF Access!Authorize
<1>5. \A r \in new : r.owner = "managed"
  BY DEF Access!Added
<1>6. Access!OwnedRescue(rules') \subseteq Access!OwnedRescue(rules)
  BY <1>4, <1>5, RescueShrinks
<1> DEFINE x == [run EXCEPT !.todo = Tail(run.todo), !.failed = run.failed \/ failed,
                            !.at = IF Tail(run.todo) # <<>> THEN "authorize"
                                   ELSE IF Access!Op.kind \in {"lock", "lock_new"} THEN "keep" ELSE "verify"]
<1>7. run' = x /\ UNCHANGED chain
  BY <1>4 DEF Access!Goto
<1>8. /\ DOMAIN x = DOMAIN run /\ x.at \in {"authorize", "keep", "verify"}
      /\ x.at = "keep" => Access!Op.kind \in Locks
      /\ x.at = "verify" => Access!Op.kind \notin Locks
      /\ x.targets = run.targets /\ x.keep = run.keep /\ x.ports = run.ports /\ x.doomed = run.doomed
      /\ x.next = run.next /\ x.stayed = run.stayed /\ x.blind = run.blind
  BY <1>3 DEF RunTyped, Locks
<1> HIDE DEF x
<1>9. RunTyped(x, Access!Op, peers)
  BY <1>1, <1>3, <1>8 DEF RunTyped, OnItsWay
<1>10. KeepsConnected(x, Access!Op)
  BY <1>1, <1>3, <1>8 DEF KeepsConnected, KeepsThem
<1>11. DoomedAsShown(x, Access!Op)
  <2>1. Access!Op.kind = "cleanup" => x.at \in {"authorize", "verify"}
    BY <1>8 DEF Locks
  <2> QED BY <1>1, <1>3, <1>8, <2>1 DEF DoomedAsShown
<1>12. CoveredBefore(rules', x, Access!Op)
  BY <1>8 DEF CoveredBefore
<1>13. ClosesAll(rules', x, Access!Op)
  BY <1>1, <1>3, <1>6, <1>8 DEF ClosesAll
<1> QED BY <1>1, <1>3, <1>6, <1>7, <1>9, <1>10, <1>11, <1>12, <1>13, GoesOn DEF RunSound

LEMMA VerifyStep == ASSUME AccessInv, Access!Verify PROVE AccessInv'
<1>1. run.at = "verify" /\ UNCHANGED <<rules, peers, active, file, previews>>
  BY DEF Access!Verify, Access!hostVars
<1>2. run # Access!Idle
  BY <1>1 DEF Access!Idle
<1>3. /\ chain # <<>> /\ Access!Op = Head(chain) /\ Access!Op \in Requests(previews)
      /\ RunTyped(run, Access!Op, peers) /\ KeepsConnected(run, Access!Op) /\ DoomedAsShown(run, Access!Op)
      /\ ClosesAll(rules, run, Access!Op)
  BY <1>2, RunFacts DEF RunSound
<1>4. CASE Access!Done
  BY <1>1, <1>3, <1>4, AccessFacts, DoneKeeps
<1>5. CASE Access!Complete(rules) /\ Access!Op.kind = "open" /\ Access!Goto([run EXCEPT !.at = "save"])
  <2> DEFINE x == [run EXCEPT !.at = "save"]
  <2>1. run' = x /\ UNCHANGED chain
    BY <1>5 DEF Access!Goto
  <2>2. /\ DOMAIN x = DOMAIN run /\ x.at = "save" /\ x.targets = run.targets /\ x.keep = run.keep
        /\ x.next = run.next /\ x.stayed = run.stayed /\ x.blind = run.blind
    BY <1>3 DEF RunTyped
  <2> HIDE DEF x
  <2>3. RunTyped(x, Access!Op, peers)
    BY <1>3, <2>2 DEF RunTyped, OnItsWay
  <2>4. /\ KeepsConnected(x, Access!Op) /\ DoomedAsShown(x, Access!Op)
        /\ CoveredBefore(rules, x, Access!Op)
    BY <1>5, <2>2 DEF KeepsConnected, DoomedAsShown, CoveredBefore, Cleans, Locks
  <2>5. ClosesAll(rules, x, Access!Op)
    BY <1>1, <1>3, <2>2 DEF ClosesAll
  <2> QED BY <1>1, <1>3, <2>1, <2>3, <2>4, <2>5, GoesOn DEF RunSound
<1>6. CASE Access!Complete(rules) /\ Access!Op.kind = "cleanup"
           /\ Access!Goto([run EXCEPT !.at = "revoke", !.moved = FALSE])
  <2> DEFINE x == [run EXCEPT !.at = "revoke", !.moved = FALSE]
  <2>1. run' = x /\ UNCHANGED chain
    BY <1>6 DEF Access!Goto
  <2>2. /\ DOMAIN x = DOMAIN run /\ x.at = "revoke" /\ x.targets = run.targets /\ x.keep = run.keep
        /\ x.next = run.next /\ x.stayed = run.stayed /\ x.blind = run.blind
        /\ x.doomed = run.doomed /\ x.ports = run.ports
    BY <1>3 DEF RunTyped
  <2> HIDE DEF x
  <2>3. RunTyped(x, Access!Op, peers)
    BY <1>3, <1>6, <2>2 DEF RunTyped, OnItsWay
  <2>4. KeepsConnected(x, Access!Op)
    BY <1>1, <1>3, <1>6, <2>2 DEF KeepsConnected, KeepsThem, Cleans, Locks
  <2>5. DoomedAsShown(x, Access!Op)
    <3>1. /\ x.doomed = Access!Op.token.candidates /\ Access!Op.token.requester = Access!Op.requester
          /\ Access!Op.token.keep = x.keep
          /\ \A r \in Access!OwnedRescue(x.doomed) : r.port \in x.ports
      BY <1>1, <1>3, <1>6, <2>2 DEF DoomedAsShown
    <3>2. FairPreview(Access!Op.token)
      BY <1>3, <1>6, AccessFacts DEF Requests
    <3> QED BY <1>6, <3>1, <3>2 DEF DoomedAsShown, FairPreview, Locks
  <2>6. CoveredBefore(rules, x, Access!Op)
    <3>1. Access!Covered(rules, x.targets, x.ports)
      BY <1>6, <2>2 DEF Access!Complete
    <3>2. \A r \in Access!OwnedRescue(x.doomed) : r.port \in x.ports
      BY <1>6, <2>2, <2>5 DEF DoomedAsShown
    <3> QED BY <3>1, <3>2 DEF CoveredBefore, Access!Covered
  <2>7. ClosesAll(rules, x, Access!Op)
    BY <1>1, <1>3, <1>6, <2>2 DEF ClosesAll
  <2> QED BY <1>1, <1>3, <2>1, <2>3, <2>4, <2>5, <2>6, <2>7, GoesOn DEF RunSound
<1>7. CASE Access!Complete(rules) /\ Access!Op.kind \in Locks
           /\ Access!Goto([run EXCEPT !.at = "revoke", !.moved = FALSE,
                !.doomed = Access!OwnedRescue(rules) \cup Access!Stale(rules, run.keep)])
  <2> DEFINE doomed == Access!OwnedRescue(rules) \cup Access!Stale(rules, run.keep)
             x == [run EXCEPT !.at = "revoke", !.moved = FALSE, !.doomed = doomed]
  <2>1. run' = x /\ UNCHANGED chain
    BY <1>7 DEF Access!Goto
  <2>2. /\ DOMAIN x = DOMAIN run /\ x.at = "revoke" /\ x.targets = run.targets /\ x.keep = run.keep
        /\ x.next = run.next /\ x.stayed = run.stayed /\ x.blind = run.blind
        /\ x.doomed = doomed /\ x.ports = run.ports
    BY <1>3 DEF RunTyped
  <2> HIDE DEF x
  <2>3. RunTyped(x, Access!Op, peers)
    BY <1>3, <1>7, <2>2 DEF RunTyped, OnItsWay
  <2>4. KeepsConnected(x, Access!Op)
    BY <1>1, <1>3, <1>7, <2>2 DEF KeepsConnected, KeepsThem, Cleans, Locks
  <2>5. DoomedAsShown(x, Access!Op)
    <3>1. \A r \in doomed : r.source = Access!Anyone \/ r.source \notin run.keep
      BY DEF Access!OwnedRescue, Access!Stale
    <3> QED BY <1>7, <2>2, <3>1 DEF DoomedAsShown, Locks
  <2>6. CoveredBefore(rules, x, Access!Op)
    <3>1. Access!Covered(rules, x.targets, x.ports) /\ Access!RescuePorts \subseteq x.ports
      BY <1>1, <1>3, <1>7, <2>2 DEF Access!Complete, DoomedAsShown
    <3>2. \A r \in Access!OwnedRescue(x.doomed) : r.port \in Access!RescuePorts
      BY DEF Access!OwnedRescue
    <3> QED BY <3>1, <3>2 DEF CoveredBefore, Access!Covered
  <2>7. ClosesAll(rules, x, Access!Op)
    BY <1>1, <1>3, <2>2 DEF ClosesAll
  <2> QED BY <1>1, <1>3, <2>1, <2>3, <2>4, <2>5, <2>6, <2>7, GoesOn DEF RunSound
<1> QED BY <1>4, <1>5, <1>6, <1>7 DEF Access!Verify, Locks

\* Nothing is recorded as closed before the one call that revokes everything has succeeded.
LEMMA RevokeStep == ASSUME AccessInv, Access!Revoke PROVE AccessInv'
<1>1. run.at = "revoke" /\ UNCHANGED <<peers, active, file, previews>>
  BY DEF Access!Revoke, Access!hostVars
<1>2. run # Access!Idle
  BY <1>1 DEF Access!Idle
<1>3. /\ chain # <<>> /\ Access!Op = Head(chain) /\ Access!Op \in Requests(previews)
      /\ RunTyped(run, Access!Op, peers) /\ KeepsConnected(run, Access!Op)
      /\ ClosesAll(rules, run, Access!Op)
  BY <1>2, RunFacts DEF RunSound
<1>4. rules' \in {rules, rules \ run.doomed}
  BY DEF Access!Revoke
<1>5. Access!OwnedRescue(rules') \subseteq Access!OwnedRescue(rules)
  BY <1>4, RescueShrinks
<1>6. CASE Access!StillOpen
  <2>1. ~active \/ ~file => Access!OwnedRescue(rules') = {}
    BY <1>5, AccessFacts
  <2> QED BY <1>1, <1>3, <1>6, <2>1, AccessFacts, DoneKeeps DEF Access!StillOpen
<1>7. CASE rules' = rules \ run.doomed /\ Access!Goto(Access!Closed)
  <2> DEFINE x == [run EXCEPT !.at = IF Access!Op.kind = "cleanup" THEN "remaining" ELSE "save", !.next = FALSE]
  <2>1. run' = x /\ UNCHANGED chain
    BY <1>7 DEF Access!Goto, Access!Closed
  <2>2. /\ DOMAIN x = DOMAIN run /\ x.at = (IF Access!Op.kind = "cleanup" THEN "remaining" ELSE "save")
        /\ x.targets = run.targets /\ x.keep = run.keep
        /\ x.next = FALSE /\ x.stayed = run.stayed /\ x.blind = run.blind
    BY <1>3 DEF RunTyped
  <2> HIDE DEF x
  <2>3. RunTyped(x, Access!Op, peers)
    BY <1>3, <2>2 DEF RunTyped, OnItsWay
  <2>4. /\ KeepsConnected(x, Access!Op) /\ DoomedAsShown(x, Access!Op)
        /\ CoveredBefore(rules', x, Access!Op)
    BY <1>1, <1>3, <2>2 DEF KeepsConnected, KeepsThem, DoomedAsShown, CoveredBefore
  <2>5. Access!Op.kind # "cleanup" => Access!OwnedRescue(rules') = {}
    BY <1>1, <1>3, <1>7 DEF ClosesAll, Access!OwnedRescue
  <2>6. ClosesAll(rules', x, Access!Op)
    BY <2>2, <2>5 DEF ClosesAll
  <2> QED BY <1>1, <1>3, <1>5, <2>1, <2>3, <2>4, <2>6, GoesOn DEF RunSound
<1> QED BY <1>6, <1>7 DEF Access!Revoke

LEMMA RemainingStep == ASSUME AccessInv, Access!Remaining PROVE AccessInv'
<1>1. run.at = "remaining" /\ UNCHANGED <<rules, peers, active, file, previews>>
  BY DEF Access!Remaining, Access!hostVars
<1>2. run # Access!Idle
  BY <1>1 DEF Access!Idle
<1>3. /\ chain # <<>> /\ Access!Op = Head(chain) /\ Access!Op \in Requests(previews)
      /\ RunTyped(run, Access!Op, peers) /\ KeepsConnected(run, Access!Op)
  BY <1>2, RunFacts DEF RunSound
<1>4. CASE Access!Done
  BY <1>1, <1>3, <1>4, AccessFacts, DoneKeeps
<1>5. CASE ~Access!Done
  <2> DEFINE x == [run EXCEPT !.at = "save", !.next = Access!OwnedRescue(rules) # {}]
  <2>1. run' = x /\ UNCHANGED chain
    BY <1>5 DEF Access!Remaining, Access!Goto
  <2>2. /\ DOMAIN x = DOMAIN run /\ x.at = "save" /\ x.targets = run.targets /\ x.keep = run.keep
        /\ x.next = (Access!OwnedRescue(rules) # {}) /\ x.stayed = run.stayed /\ x.blind = run.blind
    BY <1>3 DEF RunTyped
  <2> HIDE DEF x
  <2>3. RunTyped(x, Access!Op, peers)
    BY <1>3, <2>2 DEF RunTyped, OnItsWay
  <2>4. /\ KeepsConnected(x, Access!Op) /\ DoomedAsShown(x, Access!Op)
        /\ CoveredBefore(rules, x, Access!Op) /\ ClosesAll(rules, x, Access!Op)
    BY <1>1, <1>3, <2>2 DEF KeepsConnected, KeepsThem, DoomedAsShown, CoveredBefore, ClosesAll
  <2> QED BY <1>1, <1>3, <2>1, <2>3, <2>4, GoesOn DEF RunSound
<1> QED BY <1>4, <1>5

LEMMA SaveStep == ASSUME AccessInv, Access!Save PROVE AccessInv'
<1>1. run.at = "save" /\ Access!Done /\ UNCHANGED <<rules, peers, previews>>
  BY DEF Access!Save, Access!hostVars
<1>2. run # Access!Idle
  BY <1>1 DEF Access!Idle
<1>3. chain # <<>> /\ RunTyped(run, Access!Op, peers) /\ ClosesAll(rules, run, Access!Op)
  BY <1>2, RunFacts DEF RunSound
<1>4. run.next \in BOOLEAN /\ (~run.next => Access!OwnedRescue(rules) = {})
  BY <1>1, <1>3 DEF RunTyped, ClosesAll
<1>5. file' \in {file, run.next} /\ active' \in {active, run.next}
  BY DEF Access!Save
<1>6. /\ active' \in BOOLEAN /\ file' \in BOOLEAN
      /\ ~active' \/ ~file' => Access!OwnedRescue(rules') = {}
  BY <1>1, <1>4, <1>5, AccessFacts
<1> QED BY <1>1, <1>3, <1>6, AccessFacts, DoneKeeps

\* The monitor waits for the chain, and the plan is read beside it.
LEMMA MonitorSteps ==
  ASSUME AccessInv,
         \/ Access!MonitorTick \/ Access!MonitorLooks \/ Access!PlanLooks
         \/ \E q \in Operators : Access!PlanShown(q)
  PROVE  AccessInv'
<1>1. CASE Access!MonitorTick
  <2>1. Access!Request("expire", Access!None) \in Requests(previews)
    BY DEF Access!Request, Requests, RequestKinds, Cleans
  <2>2. CASE Access!Enqueue(Access!Request("expire", Access!None))
    BY <1>1, <2>1, <2>2, EnqueueKeeps DEF Access!MonitorTick, Access!hostVars
  <2>3. CASE UNCHANGED chain
    BY <1>1, <2>3 DEF Access!MonitorTick, Access!hostVars, AccessInv
  <2> QED BY <1>1, <2>2, <2>3 DEF Access!MonitorTick
<1>2. CASE Access!MonitorLooks
  <2>1. PICK met \in SUBSET Sources :
          \/ UNCHANGED chain
          \/ Access!Enqueue([Access!Request("lock_new", Access!None) EXCEPT !.targets = met \ Baseline])
    BY <1>2 DEF Access!MonitorLooks
  <2> DEFINE o == [Access!Request("lock_new", Access!None) EXCEPT !.targets = met \ Baseline]
  <2>2. o \in Requests(previews)
    BY DEF Access!Request, Requests, RequestKinds, Cleans
  <2> HIDE DEF o
  <2>3. UNCHANGED <<rules, peers, active, file, run, previews>>
    BY <1>2 DEF Access!MonitorLooks, Access!hostVars
  <2>4. CASE UNCHANGED chain
    BY <2>3, <2>4 DEF AccessInv
  <2>5. CASE Access!Enqueue(o)
    BY <2>2, <2>3, <2>5, EnqueueKeeps
  <2> QED BY <2>1, <2>4, <2>5 DEF o
<1>3. CASE Access!PlanLooks
  BY <1>3 DEF Access!PlanLooks, Access!hostVars, AccessInv
<1>4. ASSUME NEW q \in Operators, Access!PlanShown(q) PROVE AccessInv'
  <2>1. PICK R \in planned, met \in SUBSET Sources : previews' = previews \cup {Access!Plan(R, q, met)}
    BY <1>4 DEF Access!PlanShown
  <2>2. UNCHANGED <<rules, peers, active, file, chain, run>> /\ q \in Sources
    BY <1>4, AccessBounds DEF Access!PlanShown, Access!hostVars
  <2>3. FairPreview(Access!Plan(R, q, met))
    BY <2>2, PlanIsFair
  <2>4. \A p \in previews' : FairPreview(p)
    BY <2>1, <2>3, AccessFacts
  <2>5. chain' \in Seq(Requests(previews'))
    BY <2>1, <2>2, AccessFacts, RequestsGrow
  <2> QED BY <2>2, <2>4, <2>5 DEF AccessInv
<1> QED BY <1>1, <1>2, <1>3, <1>4

\* The group is edited elsewhere, connections come and go, the clock runs, the dashboard restarts.
LEMMA OutsideStep == ASSUME AccessInv, Access!Outside PROVE AccessInv'
<1>1. UNCHANGED <<peers, active, file, chain, previews>>
  BY DEF Access!Outside, Access!hostVars
<1>2. Access!OwnedRescue(rules') \subseteq Access!OwnedRescue(rules)
  <2>1. \A r \in rules' : r \in rules \/ r.owner # "rescue"
    <3>1. ASSUME NEW c, NEW p, NEW n,
                 rules' = rules \cup {[id |-> n, port |-> p, source |-> c, owner |-> "static"]}
          PROVE  \A r \in rules' : r \in rules \/ r.owner # "rescue"
      BY <3>1
    <3>2. CASE \E r \in rules : rules' = rules \ {r}
      BY <3>2
    <3> QED BY <3>1, <3>2 DEF Access!Outside
  <2> QED BY <2>1, RescueShrinks
<1>3. CASE run = Access!Idle
  BY <1>1, <1>2, <1>3 DEF Access!Outside, AccessInv
<1>4. CASE run # Access!Idle
  <2>1. /\ chain # <<>> /\ Access!Op = Head(chain)
        /\ RunTyped(run, Access!Op, peers) /\ KeepsConnected(run, Access!Op) /\ DoomedAsShown(run, Access!Op)
        /\ ClosesAll(rules, run, Access!Op)
    BY <1>4, RunFacts DEF RunSound
  <2> DEFINE x == [run EXCEPT !.moved = TRUE]
  <2>2. run' = x
    BY <1>4 DEF Access!Outside
  <2>3. /\ DOMAIN x = DOMAIN run /\ x.at = run.at /\ x.targets = run.targets /\ x.keep = run.keep
        /\ x.ports = run.ports /\ x.doomed = run.doomed /\ x.next = run.next
        /\ x.stayed = run.stayed /\ x.blind = run.blind /\ x.moved = TRUE
    BY <2>1 DEF RunTyped
  <2> HIDE DEF x
  <2>4. RunTyped(x, Access!Op, peers)
    BY <2>1, <2>3 DEF RunTyped, OnItsWay
  <2>5. KeepsConnected(x, Access!Op) /\ DoomedAsShown(x, Access!Op) /\ CoveredBefore(rules', x, Access!Op)
    BY <2>1, <2>3 DEF KeepsConnected, KeepsThem, DoomedAsShown, CoveredBefore
  <2>6. ClosesAll(rules', x, Access!Op)
    BY <1>2, <2>1, <2>3 DEF ClosesAll
  <2> QED BY <1>1, <1>2, <2>1, <2>2, <2>4, <2>5, <2>6, GoesOn DEF RunSound
<1> QED BY <1>3, <1>4

LEMMA ConnectionSteps ==
  ASSUME AccessInv, NEW c \in Sources, Access!Connects(c) \/ Access!Disconnects(c)
  PROVE  AccessInv'
<1>1. UNCHANGED <<rules, active, file, chain, previews>> /\ peers' \subseteq Sources
  BY AccessFacts DEF Access!Connects, Access!Disconnects
<1>2. CASE run = Access!Idle
  BY <1>1, <1>2 DEF AccessInv, Access!Connects, Access!Disconnects
<1>3. CASE run # Access!Idle
  <2>1. /\ chain # <<>> /\ Access!Op = Head(chain)
        /\ RunTyped(run, Access!Op, peers) /\ KeepsConnected(run, Access!Op) /\ DoomedAsShown(run, Access!Op)
        /\ CoveredBefore(rules, run, Access!Op) /\ ClosesAll(rules, run, Access!Op)
    BY <1>3, RunFacts DEF RunSound
  <2>2. CASE Access!Connects(c)
    <3>1. run' = run /\ RunTyped(run, Access!Op, peers')
      BY <2>1, <2>2 DEF Access!Connects, RunTyped
    <3> QED BY <1>1, <2>1, <3>1 DEF AccessInv, RunSound
  <2>3. CASE Access!Disconnects(c)
    <3> DEFINE x == [run EXCEPT !.stayed = run.stayed \ {c}]
    <3>1. run' = x
      BY <1>3, <2>3 DEF Access!Disconnects
    <3>2. /\ DOMAIN x = DOMAIN run /\ x.at = run.at /\ x.targets = run.targets /\ x.keep = run.keep
          /\ x.ports = run.ports /\ x.doomed = run.doomed /\ x.next = run.next
          /\ x.stayed = run.stayed \ {c} /\ x.blind = run.blind /\ x.moved = run.moved
      BY <2>1 DEF RunTyped
    <3>3. peers' = peers \ {c}
      BY <2>3 DEF Access!Disconnects
    <3> HIDE DEF x
    <3>4. RunTyped(x, Access!Op, peers')
      BY <2>1, <3>2, <3>3 DEF RunTyped, OnItsWay
    <3>5. /\ KeepsConnected(x, Access!Op) /\ DoomedAsShown(x, Access!Op)
          /\ CoveredBefore(rules, x, Access!Op) /\ ClosesAll(rules, x, Access!Op)
      BY <2>1, <3>2 DEF KeepsConnected, KeepsThem, DoomedAsShown, CoveredBefore, ClosesAll
    <3> QED BY <1>1, <2>1, <3>1, <3>4, <3>5 DEF AccessInv, RunSound
  <2> QED BY <2>2, <2>3
<1> QED BY <1>2, <1>3

LEMMA ClockAndRestart ==
  ASSUME AccessInv, Access!Expires \/ Access!Restart \/ UNCHANGED Access!vars
  PROVE  AccessInv'
<1>1. CASE Access!Expires
  BY <1>1 DEF Access!Expires, AccessInv
<1>2. CASE Access!Restart
  <2>1. /\ chain' = <<>> /\ run' = Access!Idle /\ active' = file
        /\ UNCHANGED <<rules, peers, file, previews>>
    BY <1>2 DEF Access!Restart, Access!hostVars
  <2>2. chain' \in Seq(Requests(previews'))
    BY <2>1
  <2> QED BY <2>1, <2>2, AccessFacts DEF AccessInv
<1>3. CASE UNCHANGED Access!vars
  BY <1>3 DEF Access!vars, Access!hostVars, AccessInv
<1> QED BY <1>1, <1>2, <1>3

LEMMA AccessBegins == Access!Init => AccessInv
<1> SUFFICES ASSUME Access!Init PROVE AccessInv
  OBVIOUS
<1>1. /\ peers \subseteq Sources /\ active = (Access!OwnedRescue(rules) # {}) /\ file = active
      /\ chain = <<>> /\ run = Access!Idle /\ previews = {}
  BY DEF Access!Init
<1>2. chain \in Seq(Requests(previews))
  BY <1>1
<1> QED BY <1>1, <1>2 DEF AccessInv

\* The state that is recorded tells what the group still admits, through failures, restarts and edits
\* elsewhere (writeSshRescueState after revokeRuleIds).
THEOREM AccessInvariant == Access!Spec => []AccessInv
<1>1. AccessInv /\ [Access!Next]_(Access!vars) => AccessInv'
  <2> SUFFICES ASSUME AccessInv, [Access!Next]_(Access!vars) PROVE AccessInv'
    OBVIOUS
  <2>1. CASE Access!Step
    BY <2>1, BeginStep, LookAtPeersStep, LookStep, LookFailsStep, AuthorizeStep, VerifyStep, RevokeStep,
       RemainingStep, SaveStep DEF Access!Step
  <2>2. CASE Access!Next /\ ~Access!Step
    BY <2>2, AskSteps, MonitorSteps, OutsideStep, ConnectionSteps, ClockAndRestart DEF Access!Next
  <2>3. CASE UNCHANGED Access!vars
    BY <2>3, ClockAndRestart
  <2> QED BY <2>1, <2>2, <2>3
<1> QED BY <1>1, AccessBegins, PTL DEF Access!Spec

\* A rescue that is recorded as closed, in memory or in its file, is closed: no rule that admits
\* everybody is left, for any group, operators and failures.
THEOREM RescueIsClosedHolds == Access!Spec => []RescueIsClosed
<1>1. AccessInv => RescueIsClosed
  BY DEF AccessInv, RescueIsClosed, Access!RescueIsClosed
<1> QED BY <1>1, AccessInvariant, PTL

---------------------------------------------------------------------------
(* What a revocation takes away.                                           *)

\* Only the one call of an operation that goes on to its end removes rules for it.
LEMMA RevokedByRevoke ==
  ASSUME AccessInv, [Access!Next]_(Access!vars)
  PROVE  \/ Access!Revoked = {}
         \/ /\ run.at = "revoke" /\ Access!Revoke /\ run # Access!Idle
            /\ rules' = rules \ run.doomed /\ run.doomed \subseteq rules /\ Access!Revoked = run.doomed
<1> SUFFICES ASSUME Access!Revoked # {}
    PROVE  /\ run.at = "revoke" /\ Access!Revoke /\ run # Access!Idle
           /\ rules' = rules \ run.doomed /\ run.doomed \subseteq rules /\ Access!Revoked = run.doomed
  OBVIOUS
<1>1. run.at = "revoke" /\ run'.at # run.at /\ Access!Revoked = rules \ rules'
  BY DEF Access!Revoked
<1>2. run # Access!Idle /\ rules' # rules /\ run' # run
  BY <1>1 DEF Access!Idle
<1>3. chain # <<>> /\ RunTyped(run, Access!Op, peers)
  BY <1>2, RunFacts DEF RunSound
<1>4. ~Access!Outside
  <2>1. [run EXCEPT !.moved = TRUE].at = run.at
    BY <1>3 DEF RunTyped
  <2> QED BY <1>1, <2>1 DEF Access!Outside
<1>5. Access!Revoke
  BY <1>1, <1>2, <1>4
     DEF Access!Next, Access!Step, Access!vars, Access!AskOpen, Access!AskPreview, Access!AskCleanup,
         Access!AskLock, Access!Asks, Access!Connects, Access!Disconnects, Access!PlanShown, Access!Begin,
         Access!LookAtPeers, Access!Look, Access!LookFails, Access!Authorize, Access!Verify,
         Access!Remaining, Access!Save, Access!MonitorTick, Access!MonitorLooks, Access!PlanLooks,
         Access!Expires, Access!Restart
<1>6. run.doomed \subseteq rules /\ rules' = rules \ run.doomed
  BY <1>2, <1>5 DEF Access!Revoke
<1> QED BY <1>1, <1>2, <1>5, <1>6

\* A broad rule is replaced and never just removed: whoever asked for a lock or a cleanup, or is locked
\* to, is covered on its port afterwards, unless the group moved since that was verified
\* (lockSshRescueToCidrs, cleanupSshSecurity).
THEOREM NobodyIsLockedOutHolds == Access!Spec => NobodyIsLockedOut
<1> DEFINE Fine == \A r \in Access!OwnedRescue(Access!Revoked) :
                     Access!Op.kind = "expire" \/ run.moved \/ Access!Covered(rules', run.targets, {r.port})
<1>1. AccessInv /\ [Access!Next]_(Access!vars) => Fine
  <2> SUFFICES ASSUME AccessInv, [Access!Next]_(Access!vars), Access!Revoked # {},
                      Access!Op.kind # "expire", ~run.moved,
                      NEW r \in Access!OwnedRescue(Access!Revoked)
               PROVE  Access!Covered(rules', run.targets, {r.port})
    BY DEF Access!OwnedRescue
  <2>1. /\ run.at = "revoke" /\ run # Access!Idle
        /\ rules' = rules \ run.doomed /\ run.doomed \subseteq rules /\ Access!Revoked = run.doomed
    BY RevokedByRevoke
  <2>2. /\ RunTyped(run, Access!Op, peers) /\ KeepsConnected(run, Access!Op) /\ DoomedAsShown(run, Access!Op)
        /\ CoveredBefore(rules, run, Access!Op)
    BY <2>1, RunFacts DEF RunSound
  <2>3. Access!Covered(rules, run.targets, {r.port})
    BY <2>1, <2>2 DEF CoveredBefore
  <2>4. Access!Op.kind \in {"cleanup"} \cup Locks
    BY <2>1, <2>2 DEF RunTyped, OnItsWay
  <2>5. run.targets \subseteq run.keep /\ run.keep \subseteq Sources
    BY <2>1, <2>2, <2>4 DEF KeepsConnected, KeepsThem, RunTyped, Cleans
  <2>6. \A s \in run.doomed : s.source \notin run.targets
    BY <2>1, <2>2, <2>5, AccessBounds DEF DoomedAsShown
  <2> QED BY <2>1, <2>3, <2>6 DEF Access!Covered
<1> QED BY <1>1, AccessInvariant, PTL DEF Access!Spec, NobodyIsLockedOut, Access!NobodyIsLockedOut

\* A cleanup removes what a preview made for its operator showed, and nothing of those that the preview
\* keeps; and no operation that could see the connections removes a rule of a source that stayed
\* connected throughout it (cleanupSshSecurity, currentSshPeerCidrs).
THEOREM RevokesAsShownHolds == Access!Spec => RevokesAsShown
<1> DEFINE Shown == Access!Revoked # {} /\ Access!Op.kind = "cleanup" =>
                      \E p \in previews :
                        /\ p.requester = Access!Op.requester /\ p.candidates = Access!Revoked
                        /\ \A r \in Access!Revoked : r.source \notin p.keep /\ r.owner # "static"
           Spared == \A r \in Access!Revoked : run.blind \/ r.source \notin run.stayed
<1>1. AccessInv /\ [Access!Next]_(Access!vars) => Shown /\ Spared
  <2> SUFFICES ASSUME AccessInv, [Access!Next]_(Access!vars), Access!Revoked # {}
               PROVE  Shown /\ Spared
    OBVIOUS
  <2>1. /\ run.at = "revoke" /\ run # Access!Idle
        /\ rules' = rules \ run.doomed /\ run.doomed \subseteq rules /\ Access!Revoked = run.doomed
    BY RevokedByRevoke
  <2>2. /\ RunTyped(run, Access!Op, peers) /\ KeepsConnected(run, Access!Op) /\ DoomedAsShown(run, Access!Op)
        /\ Access!Op \in Requests(previews)
    BY <2>1, RunFacts DEF RunSound
  <2>3. Shown
    <3> SUFFICES ASSUME Access!Op.kind = "cleanup"
        PROVE  \E p \in previews :
                 /\ p.requester = Access!Op.requester /\ p.candidates = Access!Revoked
                 /\ \A r \in Access!Revoked : r.source \notin p.keep /\ r.owner # "static"
      OBVIOUS
    <3>1. Access!Op.token \in previews
      BY <2>2 DEF Requests
    <3>2. Access!Op.token.requester = Access!Op.requester /\ Access!Op.token.candidates = Access!Revoked
      BY <2>1, <2>2 DEF DoomedAsShown
    <3>3. FairPreview(Access!Op.token)
      BY <3>1, AccessFacts
    <3> QED BY <3>1, <3>2, <3>3 DEF FairPreview
  <2>4. Spared
    <3> SUFFICES ASSUME NEW r \in run.doomed, ~run.blind PROVE r.source \notin run.stayed
      BY <2>1
    <3>1. run.stayed \subseteq Sources
      BY <2>2, AccessFacts DEF RunTyped
    <3>2. r.source = Access!Anyone \/ (Access!Op.kind # "expire" /\ r.source \notin run.keep)
      BY <2>1, <2>2 DEF DoomedAsShown
    <3>3. Access!Op.kind # "expire" => run.stayed \subseteq run.keep
      BY <2>1, <2>2 DEF RunTyped, OnItsWay, KeepsConnected, KeepsThem, Cleans
    <3> QED BY <3>1, <3>2, <3>3, AccessBounds
  <2> QED BY <2>3, <2>4
<1> QED BY <1>1, AccessInvariant, PTL DEF Access!Spec, RevokesAsShown, Access!RevokesAsShown

---------------------------------------------------------------------------
(* TicketSources, where every completion that is captured has its footer     *)
(* and no request waits for its turn past the end of a minute.               *)

TicketStates == {"queued", "dispatching", "waiting", "unsent", "review", "boundary", "replaced",
                 "captured", "returned", "canceled", "dismissed", "released"}
Purposes == {"none", "approved", "refinement"}
TicketRecords ==
  [at : TicketStates, session : Sessions, idea : Nat, purpose : Purposes, text : Nat,
   schedule : Schedules \cup {Tickets!NoSchedule}, title : Titles \cup {Tickets!NoTitle}]
IdeaRecords ==
  [status : {"proposed", "refining", "approved", "rejected"}, title : Titles, text : Nat,
   refinement : Nat, approved : Nat, source : Nat, work : Sessions \cup {Tickets!NoOne}, rev : Nat \ {0}]
ScheduleRecords == [enabled : BOOLEAN, session : Sessions, next : Nat, last : Nat, created : Nat]

\* Tickets up to n and ideas up to k were made.
ItemsTyped(I, n) == I \in [DOMAIN I -> TicketRecords] /\ DOMAIN I \subseteq 1 .. n
IdeasTyped(D, n, k) ==
  /\ D \in [DOMAIN D -> IdeaRecords] /\ DOMAIN D \subseteq 1 .. k
  /\ \A x \in DOMAIN D : /\ D[x].refinement <= n /\ D[x].approved <= n
                         /\ D[x].source <= n \/ D[x].source > MaxItems

\* Ideas and tickets fit together, and the ticket that refines an idea is its own.
Linked(I, D) ==
  /\ \A x \in DOMAIN D : Tickets!IdeaFits(I, x, D[x])
  /\ \A n \in DOMAIN I : Tickets!TicketFits(D, n, I[n])
  /\ \A x \in DOMAIN D : D[x].status = "refining" =>
       /\ I[D[x].refinement].idea = x /\ I[D[x].refinement].purpose = "refinement"
       /\ D[x].refinement \in DOMAIN I

OneOpenEach(I) ==
  \A n, m \in DOMAIN I :
    Tickets!Open(I[n]) /\ Tickets!Open(I[m]) /\ I[n].schedule = I[m].schedule /\ I[n].schedule \in Schedules => n = m

Sound(I, D, n, k) == ItemsTyped(I, n) /\ IdeasTyped(D, n, k) /\ Linked(I, D) /\ OneOpenEach(I)

\* No schedule ran before it was made or after now, and it runs again later than it did.
TimesFit(S, t) ==
  /\ S \in [DOMAIN S -> ScheduleRecords] /\ DOMAIN S \subseteq Schedules
  /\ \A k \in DOMAIN S : /\ S[k].next >= S[k].created /\ S[k].created \in 1 .. t /\ S[k].last <= t
                         /\ Tickets!ScheduleFits(S[k])

\* The page shows each idea as it was at that revision.
SeenFits(D, k) ==
  \A x \in 1 .. MaxIdeas :
    /\ seen[x].rev # 0 => x <= k
    /\ x \in DOMAIN D => /\ seen[x].rev <= D[x].rev
                         /\ seen[x].rev = D[x].rev => seen[x].text = D[x].text

\* Each idea is as it was, is a later revision, or is new.
IdeasMove(D, E, k) ==
  \A x \in DOMAIN E : IF x \in DOMAIN D THEN E[x] = D[x] \/ E[x].rev > D[x].rev ELSE x > k

\* Nobody decides on an idea but an operator.
NoneApproved(D, E) ==
  \A x \in DOMAIN D \cap DOMAIN E : D[x].status = "proposed" => E[x].status # "approved"

StoreInv ==
  /\ made \in [items : 0 .. MaxItems, ideas : Nat] /\ now \in Nat \ {0}
  /\ Sound(items, ideas, made.items, made.ideas)
  /\ Cardinality(DOMAIN items) <= ItemLimit /\ Cardinality(DOMAIN ideas) <= IdeaLimit
  /\ TimesFit(schedules, now)
  /\ seen \in [1 .. MaxIdeas -> [rev : Nat, text : Nat]] /\ SeenFits(ideas, made.ideas)
  /\ refused = FALSE

\* While the cycle types a ticket, nothing else writes.
PhaseInv ==
  /\ DOMAIN phase = {"at", "item"} /\ up = TRUE
  /\ phase.at = "typing" => phase.item \in DOMAIN items /\ items[phase.item].at = "dispatching"

TicketInv == StoreInv /\ PhaseInv

\* What the theorems below are about: completions with their footer, and requests within their minute.
Footers == "bare" \notin Captures
InTime  == ~SlowRequests

---------------------------------------------------------------------------
(* Lemmas about the store.                                                 *)

\* TicketSources counts as this module does.
LEMMA TicketsCount == ASSUME NEW S PROVE Tickets!Cardinality(S) = Cardinality(S)
BY Zenon DEF Tickets!Cardinality, Cardinality

LEMMA OpenStates ==
  ASSUME NEW i \in TicketRecords
  PROVE  /\ Tickets!Open(i) <=> i.at \in {"queued", "dispatching", "waiting", "unsent", "review", "boundary", "replaced"}
         /\ Tickets!Final(i) <=> ~Tickets!Open(i)
         /\ Tickets!Answered(i) <=> i.at \in {"captured", "returned"}
BY DEF Tickets!Open, Tickets!Final, Tickets!Answered, TicketRecords, TicketStates

\* Tickets that are trimmed were over, so that the rest fits as before.
LEMMA TrimKeepsSound ==
  ASSUME NEW I, NEW D, NEW n \in Nat, NEW k \in Nat, Sound(I, D, n, k), NEW J \in Tickets!TrimmedItems(I)
  PROVE  /\ Sound(J, D, n, k) /\ DOMAIN J \subseteq DOMAIN I
         /\ \A m \in DOMAIN J : J[m] = I[m]
         /\ \A m \in DOMAIN I : Tickets!Open(I[m]) => m \in DOMAIN J
<1> DEFINE final == {m \in DOMAIN I : Tickets!Final(I[m])}
<1>1. PICK keep \in Tickets!Kept(final) : J = Tickets!Restrict(I, (DOMAIN I \ final) \cup keep)
  BY DEF Tickets!TrimmedItems
<1>2. keep \subseteq final
  BY DEF Tickets!Kept, Tickets!kSubset
<1>3. /\ DOMAIN J = (DOMAIN I \ final) \cup keep /\ J \in [DOMAIN J -> TicketRecords]
      /\ DOMAIN J \subseteq DOMAIN I /\ \A m \in DOMAIN J : J[m] = I[m]
  BY <1>1, <1>2 DEF Tickets!Restrict, Sound, ItemsTyped
<1>4. \A m \in DOMAIN I : Tickets!Open(I[m]) => m \in DOMAIN J
  BY <1>3 DEF Tickets!Final
<1> HIDE DEF final
<1>5. ItemsTyped(J, n)
  BY <1>3 DEF Sound, ItemsTyped
<1>6. Linked(J, D)
  <2>1. ASSUME NEW x \in DOMAIN D PROVE Tickets!IdeaFits(J, x, D[x])
    BY <1>3, <1>4 DEF Sound, Linked, Tickets!IdeaFits
  <2>2. ASSUME NEW m \in DOMAIN J PROVE Tickets!TicketFits(D, m, J[m])
    BY <1>3 DEF Sound, Linked, Tickets!TicketFits
  <2>3. ASSUME NEW x \in DOMAIN D, D[x].status = "refining"
        PROVE  /\ J[D[x].refinement].idea = x /\ J[D[x].refinement].purpose = "refinement"
               /\ D[x].refinement \in DOMAIN J
    BY <1>3, <1>4, <2>3 DEF Sound, Linked, Tickets!IdeaFits
  <2> QED BY <2>1, <2>2, <2>3 DEF Linked
<1>7. OneOpenEach(J)
  BY <1>3 DEF Sound, OneOpenEach
<1> QED BY <1>3, <1>4, <1>5, <1>6, <1>7 DEF Sound

\* Ideas that are trimmed were decided, and no open ticket is about them.
LEMMA TrimKeepsIdeas ==
  ASSUME NEW I, NEW D, NEW n \in Nat, NEW k \in Nat, Sound(I, D, n, k), NEW E \in Tickets!TrimmedIdeas(I, D)
  PROVE  /\ Sound(I, E, n, k) /\ DOMAIN E \subseteq DOMAIN D
         /\ \A x \in DOMAIN E : E[x] = D[x]
         /\ \A x \in DOMAIN D : D[x].status \in {"proposed", "refining"} => x \in DOMAIN E
<1> DEFINE decided == Tickets!Decided(I, D)
<1>1. PICK keep \in Tickets!Kept(decided) : E = Tickets!Restrict(D, (DOMAIN D \ decided) \cup keep)
  BY DEF Tickets!TrimmedIdeas
<1>2. keep \subseteq decided
  BY DEF Tickets!Kept, Tickets!kSubset
<1>3. /\ decided \subseteq DOMAIN D
      /\ \A x \in decided : D[x].status \in {"approved", "rejected"}
      /\ \A x \in decided, m \in DOMAIN I : ~(I[m].idea = x /\ Tickets!Open(I[m]))
  BY DEF Tickets!Decided
<1> HIDE DEF decided
<1>4. /\ DOMAIN E = (DOMAIN D \ decided) \cup keep /\ E \in [DOMAIN E -> IdeaRecords]
      /\ DOMAIN E \subseteq DOMAIN D /\ \A x \in DOMAIN E : E[x] = D[x]
  BY <1>1, <1>2, <1>3 DEF Tickets!Restrict, Sound, IdeasTyped
<1>5. IdeasTyped(E, n, k)
  BY <1>4 DEF Sound, IdeasTyped
<1>6. Linked(I, E)
  <2>1. ASSUME NEW x \in DOMAIN E PROVE Tickets!IdeaFits(I, x, E[x])
    BY <1>4 DEF Sound, Linked
  <2>2. ASSUME NEW m \in DOMAIN I PROVE Tickets!TicketFits(E, m, I[m])
    BY <1>3, <1>4 DEF Sound, Linked, Tickets!TicketFits
  <2>3. ASSUME NEW x \in DOMAIN E, E[x].status = "refining"
        PROVE  /\ I[E[x].refinement].idea = x /\ I[E[x].refinement].purpose = "refinement"
               /\ E[x].refinement \in DOMAIN I
    BY <1>4, <2>3 DEF Sound, Linked
  <2> QED BY <2>1, <2>2, <2>3 DEF Linked
<1>7. \A x \in DOMAIN D : D[x].status \in {"proposed", "refining"} => x \in DOMAIN E
  BY <1>3, <1>4
<1> QED BY <1>4, <1>5, <1>6, <1>7 DEF Sound

LEMMA RoomFacts ==
  ASSUME NEW I, NEW n \in Nat, DOMAIN I \subseteq 1 .. n
  PROVE  /\ IsFiniteSet(DOMAIN I) /\ Cardinality(DOMAIN I) \in Nat
         /\ \A S \in SUBSET (DOMAIN I) : IsFiniteSet(S) /\ Cardinality(S) \in Nat /\ Cardinality(S) <= Cardinality(DOMAIN I)
<1>1. IsFiniteSet(1 .. n)
  BY FS_Interval
<1>2. IsFiniteSet(DOMAIN I)
  BY <1>1, FS_Subset
<1> QED BY <1>2, FS_Subset, FS_CardinalityType

\* An addition takes up the room of one.
LEMMA AddFacts ==
  ASSUME NEW I, NEW p, p \notin DOMAIN I, NEW t
  PROVE  /\ DOMAIN Tickets!Add(I, p, t) = DOMAIN I \cup {p} /\ Tickets!Add(I, p, t)[p] = t
         /\ \A m \in DOMAIN I : m # p /\ Tickets!Add(I, p, t)[m] = I[m]
BY DEF Tickets!Add

LEMMA AddCounts ==
  ASSUME NEW I, NEW n \in Nat, DOMAIN I \subseteq 1 .. n, NEW p, p \notin DOMAIN I, NEW t
  PROVE  Cardinality(DOMAIN Tickets!Add(I, p, t)) = Cardinality(DOMAIN I) + 1
<1>1. Cardinality(DOMAIN I \cup {p}) = Cardinality(DOMAIN I) + 1
  BY RoomFacts, FS_AddElement
<1>2. DOMAIN Tickets!Add(I, p, t) = DOMAIN I \cup {p}
  BY AddFacts
<1> QED BY <1>1, <1>2

\* A write of what fits is not refused.
LEMMA Written ==
  ASSUME StoreInv, NEW I, NEW D, NEW S, Tickets!Persist(I, D, S),
         made' \in [items : 0 .. MaxItems, ideas : Nat], made.ideas <= made'.ideas,
         Sound(I, D, made'.items, made'.ideas), TimesFit(S, now),
         Cardinality(DOMAIN I) <= ItemLimit, Cardinality(DOMAIN D) <= IdeaLimit,
         IdeasMove(ideas, D, made.ideas), UNCHANGED <<now, seen>>
  PROVE  StoreInv' /\ items' = I /\ ideas' = D /\ schedules' = S /\ refused' = FALSE
<1>1. \A x \in DOMAIN D : Tickets!IdeaFits(I, x, D[x])
  BY DEF Sound, Linked
<1>2. \A n \in DOMAIN I : Tickets!TicketFits(D, n, I[n])
  BY DEF Sound, Linked
<1>3. \A k \in DOMAIN S : Tickets!ScheduleFits(S[k])
  BY DEF TimesFit
<1>4. Tickets!Cardinality(DOMAIN I) <= ItemLimit /\ Tickets!Cardinality(DOMAIN D) <= IdeaLimit
  BY TicketsCount
<1>5. Tickets!Fits(I, D, S)
  BY <1>1, <1>2, <1>3, <1>4 DEF Tickets!Fits
<1>6. items' = I /\ ideas' = D /\ schedules' = S /\ refused' = FALSE
  BY <1>5 DEF Tickets!Persist
<1>7. SeenFits(D, made'.ideas)
  <2> SUFFICES ASSUME NEW x \in 1 .. MaxIdeas
      PROVE  /\ seen[x].rev # 0 => x <= made'.ideas
             /\ x \in DOMAIN D => /\ seen[x].rev <= D[x].rev
                                  /\ seen[x].rev = D[x].rev => seen[x].text = D[x].text
    BY DEF SeenFits
  <2>1. /\ seen[x].rev # 0 => x <= made.ideas
        /\ x \in DOMAIN ideas => /\ seen[x].rev <= ideas[x].rev
                                 /\ seen[x].rev = ideas[x].rev => seen[x].text = ideas[x].text
        /\ seen[x].rev \in Nat /\ made.ideas \in Nat /\ made'.ideas \in Nat
    BY DEF StoreInv, SeenFits
  <2>2. x \in DOMAIN D => D[x].rev \in Nat \ {0}
    BY DEF Sound, IdeasTyped, IdeaRecords
  <2>3. x \in DOMAIN ideas => ideas[x].rev \in Nat
    BY DEF StoreInv, Sound, IdeasTyped, IdeaRecords
  <2>4. x \in DOMAIN D => IF x \in DOMAIN ideas THEN D[x] = ideas[x] \/ D[x].rev > ideas[x].rev ELSE x > made.ideas
    BY DEF IdeasMove
  <2> QED BY <2>1, <2>2, <2>3, <2>4
<1>8. Sound(items, ideas, made.items, made.ideas)'
  BY <1>6 DEF Sound, ItemsTyped, IdeasTyped, Linked, OneOpenEach, TicketRecords, TicketStates, Purposes,
              IdeaRecords, Tickets!IdeaFits, Tickets!TicketFits, Tickets!Open, Tickets!Final, Tickets!Answered
<1>9. TimesFit(schedules, now)' /\ SeenFits(ideas, made.ideas)'
  BY <1>6, <1>7 DEF TimesFit, SeenFits, ScheduleRecords, Tickets!ScheduleFits
<1> QED BY <1>6, <1>8, <1>9 DEF StoreInv

LEMMA TicketFacts ==
  ASSUME TicketInv
  PROVE  /\ made.items \in 0 .. MaxItems /\ made.items \in Nat /\ made.ideas \in Nat /\ now \in Nat \ {0}
         /\ Sound(items, ideas, made.items, made.ideas)
         /\ Cardinality(DOMAIN items) <= ItemLimit /\ Cardinality(DOMAIN items) \in Nat
         /\ Cardinality(DOMAIN ideas) <= IdeaLimit /\ Cardinality(DOMAIN ideas) \in Nat
         /\ ItemLimit \in Nat /\ IdeaLimit \in Nat /\ MaxItems \in Nat
         /\ TimesFit(schedules, now) /\ StoreInv /\ PhaseInv
         /\ DOMAIN made = {"items", "ideas"} /\ made \in [items : 0 .. MaxItems, ideas : Nat]
<1>1. /\ made \in [items : 0 .. MaxItems, ideas : Nat] /\ MaxItems \in Nat
      /\ Sound(items, ideas, made.items, made.ideas)
  BY TicketBounds DEF TicketInv, StoreInv
<1>2. made.items \in 0 .. MaxItems /\ made.items \in Nat /\ made.ideas \in Nat
  BY <1>1
<1>3. Cardinality(DOMAIN items) \in Nat /\ Cardinality(DOMAIN ideas) \in Nat
  BY <1>1, <1>2, RoomFacts DEF Sound, ItemsTyped, IdeasTyped
<1> QED BY <1>1, <1>2, <1>3, TicketBounds DEF TicketInv, StoreInv

\* A request writes between two cycles.
LEMMA RequestKeeps ==
  ASSUME TicketInv, Tickets!Requested, StoreInv'
  PROVE  TicketInv'
BY DEF TicketInv, PhaseInv, Tickets!Requested, Tickets!Turn, Tickets!Resting

\* What the operator decided on is what the ticket carries.
Decisions ==
  \A x \in DOMAIN ideas \cap DOMAIN ideas' :
    ideas[x].status = "proposed" /\ ideas'[x].status = "approved"
      => items'[ideas'[x].approved].text = seen[x].text

LEMMA RevisedFacts ==
  ASSUME NEW d \in IdeaRecords
  PROVE  /\ Tickets!Revised(d) \in IdeaRecords /\ Tickets!Revised(d).rev > d.rev
         /\ Tickets!Revised(d).status = d.status /\ Tickets!Revised(d).refinement = d.refinement
         /\ Tickets!Revised(d).approved = d.approved /\ Tickets!Revised(d).source = d.source
         /\ Tickets!Revised(d).text = d.text
BY DEF Tickets!Revised, IdeaRecords

LEMMA LinkedFacts ==
  ASSUME NEW I, NEW D, NEW n \in Nat, NEW k \in Nat, Sound(I, D, n, k)
  PROVE  /\ \A m \in DOMAIN I : /\ I[m] \in TicketRecords /\ m \in Nat /\ m <= n /\ m # 0
                                /\ I[m].at \in TicketStates /\ I[m].idea \in Nat
         /\ \A x \in DOMAIN D : /\ D[x] \in IdeaRecords /\ x \in Nat /\ x <= k
                                /\ D[x].refinement <= n /\ D[x].approved <= n
                                /\ D[x].refinement \in Nat /\ D[x].approved \in Nat /\ D[x].source \in Nat
                                /\ D[x].status \in {"proposed", "refining", "approved", "rejected"}
BY DEF Sound, ItemsTyped, IdeasTyped, TicketRecords, IdeaRecords

\* A new idea waits for its first decision.
LEMMA NewIdeaKeeps ==
  ASSUME NEW I, NEW D, NEW n \in Nat, NEW k \in Nat, Sound(I, D, n, k),
         NEW d \in IdeaRecords, d.status = "proposed", d.refinement = 0, d.approved = 0, d.source <= n,
         d.source \in DOMAIN I => Tickets!Answered(I[d.source]) /\ I[d.source].purpose # "refinement"
  PROVE  Sound(I, Tickets!Add(D, k + 1, d), n, k + 1)
<1> DEFINE E == Tickets!Add(D, k + 1, d)
<1>1. /\ d \in IdeaRecords /\ d.status = "proposed" /\ d.refinement = 0 /\ d.approved = 0
      /\ d.source \in Nat /\ d.source <= n
  BY DEF IdeaRecords
<1>2. DOMAIN E = DOMAIN D \cup {k + 1} /\ E[k + 1] = d /\ \A x \in DOMAIN D : x # k + 1 /\ E[x] = D[x]
  <2>1. DOMAIN D \subseteq 1 .. k
    BY DEF Sound, IdeasTyped
  <2> DEFINE p == k + 1
  <2>2. p \notin DOMAIN D
    BY <2>1
  <2> HIDE DEF p
  <2>3. DOMAIN Tickets!Add(D, p, d) = DOMAIN D \cup {p}
    BY <2>2 DEF Tickets!Add
  <2>4. Tickets!Add(D, p, d)[p] = d
    BY <2>2 DEF Tickets!Add
  <2>5. \A x \in DOMAIN D : x # p /\ Tickets!Add(D, p, d)[x] = D[x]
    BY <2>2 DEF Tickets!Add
  <2> QED BY <2>3, <2>4, <2>5 DEF p
<1>3. E \in [DOMAIN E -> IdeaRecords]
  <2>1. \A x \in DOMAIN E : E[x] \in IdeaRecords
    BY <1>1, <1>2, LinkedFacts
  <2> QED BY <2>1 DEF Tickets!Add
<1> HIDE DEF E
<1>4. IdeasTyped(E, n, k + 1)
  BY <1>1, <1>2, <1>3 DEF Sound, IdeasTyped
<1>5. 0 \notin DOMAIN I
  BY LinkedFacts
<1>6. Linked(I, E)
  <2>1. ASSUME NEW x \in DOMAIN E PROVE Tickets!IdeaFits(I, x, E[x])
    BY <1>1, <1>2, <1>5 DEF Sound, Linked, Tickets!IdeaFits
  <2>2. ASSUME NEW m \in DOMAIN I PROVE Tickets!TicketFits(E, m, I[m])
    BY <1>2 DEF Sound, Linked, Tickets!TicketFits
  <2>3. ASSUME NEW x \in DOMAIN E, E[x].status = "refining"
        PROVE  /\ I[E[x].refinement].idea = x /\ I[E[x].refinement].purpose = "refinement"
               /\ E[x].refinement \in DOMAIN I
    BY <1>1, <1>2, <2>3 DEF Sound, Linked
  <2> QED BY <2>1, <2>2, <2>3 DEF Linked
<1> QED BY <1>4, <1>6 DEF Sound, E

LEMMA IdeaFacts ==
  ASSUME NEW title \in Titles, NEW source \in Nat, NEW session \in Sessions \cup {Tickets!NoOne}
  PROVE  /\ Tickets!Idea(title, source, session) \in IdeaRecords
         /\ Tickets!Idea(title, source, session).status = "proposed"
         /\ Tickets!Idea(title, source, session).refinement = 0
         /\ Tickets!Idea(title, source, session).approved = 0
         /\ Tickets!Idea(title, source, session).source = source
BY DEF Tickets!Idea, IdeaRecords

\* Trimming moves no idea, and a new one moves none either.
LEMMA TrimmedMove ==
  ASSUME NEW I, NEW D, NEW n \in Nat, NEW k \in Nat, Sound(I, D, n, k), NEW E \in Tickets!TrimmedIdeas(I, D), NEW t
  PROVE  /\ IdeasMove(D, E, k) /\ IdeasMove(D, Tickets!Add(E, k + 1, t), k)
         /\ NoneApproved(D, E) /\ NoneApproved(D, Tickets!Add(E, k + 1, t))
         /\ DOMAIN E \subseteq 1 .. k
         /\ Cardinality(DOMAIN E) \in Nat /\ Cardinality(DOMAIN D) \in Nat
         /\ Cardinality(DOMAIN E) <= Cardinality(DOMAIN D)
         /\ Cardinality(DOMAIN Tickets!Add(E, k + 1, t)) = Cardinality(DOMAIN E) + 1
<1>1. DOMAIN E \subseteq DOMAIN D /\ \A x \in DOMAIN E : E[x] = D[x]
  BY TrimKeepsIdeas
<1>2. DOMAIN D \subseteq 1 .. k
  BY DEF Sound, IdeasTyped
<1>3. /\ DOMAIN Tickets!Add(E, k + 1, t) = DOMAIN E \cup {k + 1}
      /\ \A x \in DOMAIN E : x # k + 1 /\ Tickets!Add(E, k + 1, t)[x] = E[x]
      /\ Cardinality(DOMAIN Tickets!Add(E, k + 1, t)) = Cardinality(DOMAIN E) + 1
  <2>1. DOMAIN E \subseteq 1 .. k
    BY <1>1, <1>2
  <2> DEFINE p == k + 1
  <2>2. p \notin DOMAIN E
    BY <2>1
  <2> HIDE DEF p
  <2>3. DOMAIN Tickets!Add(E, p, t) = DOMAIN E \cup {p}
    BY <2>2 DEF Tickets!Add
  <2>4. \A x \in DOMAIN E : x # p /\ Tickets!Add(E, p, t)[x] = E[x]
    BY <2>2 DEF Tickets!Add
  <2>5. Cardinality(DOMAIN Tickets!Add(E, p, t)) = Cardinality(DOMAIN E) + 1
    BY <2>1, <2>2, AddCounts
  <2> QED BY <2>3, <2>4, <2>5 DEF p
<1>4. k + 1 \notin DOMAIN D
  BY <1>2
<1>5. IdeasMove(D, E, k) /\ IdeasMove(D, Tickets!Add(E, k + 1, t), k)
  BY <1>1, <1>3, <1>4 DEF IdeasMove
<1>6. NoneApproved(D, E) /\ NoneApproved(D, Tickets!Add(E, k + 1, t))
  BY <1>1, <1>3, <1>4 DEF NoneApproved
<1>7. /\ Cardinality(DOMAIN E) \in Nat /\ Cardinality(DOMAIN D) \in Nat
      /\ Cardinality(DOMAIN E) <= Cardinality(DOMAIN D)
  BY <1>1, <1>2, RoomFacts
<1> QED BY <1>1, <1>2, <1>3, <1>5, <1>6, <1>7

LEMMA NoneApprovedDecides ==
  ASSUME NoneApproved(ideas, ideas') PROVE Decisions
BY DEF NoneApproved, Decisions

LEMMA CreateIdeaStep ==
  ASSUME TicketInv, NEW title \in Titles, Tickets!CreateIdea(title)
  PROVE  TicketInv' /\ Decisions
<1>1. Tickets!Requested /\ made' = [made EXCEPT !.ideas = made.ideas + 1]
  BY DEF Tickets!CreateIdea
<1>2. PICK D \in Tickets!TrimmedIdeas(items, ideas) :
        /\ Tickets!Cardinality(DOMAIN D) < IdeaLimit
        /\ Tickets!Persist(items, Tickets!Add(D, made.ideas + 1, Tickets!Idea(title, 0, Tickets!NoOne)), schedules)
  BY DEF Tickets!CreateIdea
<1> DEFINE d == Tickets!Idea(title, 0, Tickets!NoOne)
           E == Tickets!Add(D, made.ideas + 1, d)
<1>3. /\ made' \in [items : 0 .. MaxItems, ideas : Nat]
      /\ made'.ideas = made.ideas + 1 /\ made'.items = made.items
  BY <1>1, TicketFacts
<1>4. Sound(items, ideas, made.items, made.ideas) /\ 0 \notin DOMAIN items
  BY TicketFacts, LinkedFacts
<1>5. Sound(items, D, made.items, made.ideas)
  BY <1>4, TrimKeepsIdeas, TicketFacts
<1>6. Sound(items, E, made.items, made.ideas + 1)
  <2>1. /\ d \in IdeaRecords /\ d.status = "proposed" /\ d.refinement = 0 /\ d.approved = 0 /\ d.source = 0
    BY IdeaFacts
  <2>2. made.items \in Nat /\ made.ideas \in Nat
    BY TicketFacts
  <2> HIDE DEF d
  <2> QED BY <1>4, <1>5, <2>1, <2>2, NewIdeaKeeps
<1>7. /\ IdeasMove(ideas, E, made.ideas) /\ NoneApproved(ideas, E)
      /\ Cardinality(DOMAIN E) = Cardinality(DOMAIN D) + 1 /\ Cardinality(DOMAIN D) \in Nat
  BY <1>4, TrimmedMove, TicketFacts
<1>8. Cardinality(DOMAIN E) <= IdeaLimit
  BY <1>2, <1>7, TicketsCount, TicketFacts
<1>9. UNCHANGED <<now, seen>>
  BY <1>1 DEF Tickets!Requested
<1> HIDE DEF d, E
<1>10. Tickets!Persist(items, E, schedules)
  BY <1>2 DEF E, d
<1>11. StoreInv' /\ ideas' = E
  <2>1. made.ideas <= made'.ideas /\ Sound(items, E, made'.items, made'.ideas)
    BY <1>3, <1>6, TicketFacts
  <2>2. StoreInv /\ TimesFit(schedules, now) /\ Cardinality(DOMAIN items) <= ItemLimit
    BY TicketFacts
  <2> QED BY <1>3, <1>7, <1>8, <1>9, <1>10, <2>1, <2>2, Written
<1> QED BY <1>1, <1>7, <1>11, RequestKeeps, NoneApprovedDecides

\* A proposal becomes a new idea, or changes nothing but what is trimmed.
LEMMA ProposedKeeps ==
  ASSUME TicketInv, NEW I, Sound(I, ideas, made.items, made.ideas),
         NEW title \in Titles \cup {Tickets!NoTitle}, NEW source \in Nat,
         NEW session \in Sessions \cup {Tickets!NoOne}, source <= made.items,
         source \in DOMAIN I => Tickets!Answered(I[source]) /\ I[source].purpose # "refinement",
         NEW D \in Tickets!Proposed(I, ideas, title, source, session), Tickets!Counted(D)
  PROVE  /\ made' \in [items : 0 .. MaxItems, ideas : Nat] /\ made'.items = made.items
         /\ made.ideas <= made'.ideas /\ Sound(I, D, made.items, made'.ideas)
         /\ Cardinality(DOMAIN D) <= IdeaLimit
         /\ IdeasMove(ideas, D, made.ideas) /\ NoneApproved(ideas, D)
<1> DEFINE d == Tickets!Idea(title, source, session)
<1>1. PICK E \in Tickets!TrimmedIdeas(I, ideas) :
        \/ D = E
        \/ /\ title # Tickets!NoTitle /\ ~(Tickets!Cardinality(DOMAIN E) >= IdeaLimit)
           /\ D = Tickets!Add(E, made.ideas + 1, d)
  BY DEF Tickets!Proposed
<1>2. made.items \in Nat /\ made.ideas \in Nat /\ made \in [items : 0 .. MaxItems, ideas : Nat]
  BY TicketFacts
<1>3. /\ Sound(I, E, made.items, made.ideas) /\ DOMAIN E \subseteq 1 .. made.ideas
      /\ IdeasMove(ideas, E, made.ideas) /\ NoneApproved(ideas, E)
      /\ Cardinality(DOMAIN E) \in Nat /\ Cardinality(DOMAIN ideas) \in Nat
      /\ Cardinality(DOMAIN E) <= Cardinality(DOMAIN ideas)
  BY <1>2, TrimKeepsIdeas, TrimmedMove
<1>4. /\ made' \in [items : 0 .. MaxItems, ideas : Nat] /\ made'.items = made.items
      /\ made'.ideas = IF made.ideas + 1 \in DOMAIN D THEN made.ideas + 1 ELSE made.ideas
  BY <1>2 DEF Tickets!Counted
<1>5. CASE D = E
  <2>1. made'.ideas = made.ideas
    BY <1>2, <1>3, <1>4, <1>5
  <2>2. Cardinality(DOMAIN D) <= IdeaLimit
    BY <1>3, <1>5, TicketFacts
  <2> QED BY <1>2, <1>3, <1>4, <1>5, <2>1, <2>2
<1>6. CASE title # Tickets!NoTitle /\ ~(Tickets!Cardinality(DOMAIN E) >= IdeaLimit)
           /\ D = Tickets!Add(E, made.ideas + 1, d)
  <2>1. /\ d \in IdeaRecords /\ d.status = "proposed" /\ d.refinement = 0 /\ d.approved = 0 /\ d.source = source
    BY <1>6, IdeaFacts
  <2> HIDE DEF d
  <2>2. Sound(I, D, made.items, made.ideas + 1)
    BY <1>2, <1>3, <1>6, <2>1, NewIdeaKeeps
  <2>3. made'.ideas = made.ideas + 1
    BY <1>4, <1>6 DEF Tickets!Add
  <2>4. /\ IdeasMove(ideas, D, made.ideas) /\ NoneApproved(ideas, D)
        /\ Cardinality(DOMAIN D) = Cardinality(DOMAIN E) + 1
    BY <1>2, <1>6, TrimmedMove
  <2>5. Cardinality(DOMAIN D) <= IdeaLimit
    <3>1. ~(Cardinality(DOMAIN E) >= IdeaLimit)
      BY <1>6, TicketsCount
    <3> QED BY <1>3, <2>4, <3>1, TicketFacts
  <2> QED BY <1>2, <1>4, <2>2, <2>3, <2>4, <2>5
<1> QED BY <1>1, <1>5, <1>6

\* A ticket goes from a state to another one.
LEMMA TicketMoves ==
  ASSUME NEW I, NEW n \in Nat, ItemsTyped(I, n), NEW m \in DOMAIN I, NEW at \in TicketStates
  PROVE  /\ ItemsTyped([I EXCEPT ![m].at = at], n)
         /\ DOMAIN [I EXCEPT ![m].at = at] = DOMAIN I
         /\ \A j \in DOMAIN I : j # m => [I EXCEPT ![m].at = at][j] = I[j]
         /\ [I EXCEPT ![m].at = at][m].at = at
         /\ [I EXCEPT ![m].at = at][m].idea = I[m].idea
         /\ [I EXCEPT ![m].at = at][m].purpose = I[m].purpose
         /\ [I EXCEPT ![m].at = at][m].schedule = I[m].schedule
         /\ [I EXCEPT ![m].at = at][m].text = I[m].text
<1> DEFINE t == [I[m] EXCEPT !.at = at]
           J == [I EXCEPT ![m] = t]
<1>1. I \in [DOMAIN I -> TicketRecords] /\ I[m] \in TicketRecords
  BY DEF ItemsTyped
<1>2. /\ t \in TicketRecords /\ t.at = at /\ t.idea = I[m].idea /\ t.purpose = I[m].purpose
      /\ t.schedule = I[m].schedule /\ t.text = I[m].text
  BY <1>1 DEF TicketRecords
<1>3. J = [I EXCEPT ![m].at = at]
  OBVIOUS
<1> HIDE DEF t
<1>4. J \in [DOMAIN I -> TicketRecords] /\ DOMAIN J = DOMAIN I /\ J[m] = t /\ \A j \in DOMAIN I : j # m => J[j] = I[j]
  BY <1>1, <1>2
<1> HIDE DEF J
<1> QED BY <1>2, <1>3, <1>4 DEF ItemsTyped

LEMMA ImportIdeasStep ==
  ASSUME TicketInv, NEW n, NEW title \in Titles, Tickets!ImportIdeas(n, title)
  PROVE  TicketInv' /\ Decisions
<1>1. Tickets!Requested /\ n \in DOMAIN items /\ items[n].at = "dismissed" /\ items[n].purpose # "refinement"
  BY DEF Tickets!ImportIdeas
<1>2. PICK D \in Tickets!Proposed(items, ideas, title, 0, Tickets!NoOne) :
        Tickets!Persist([items EXCEPT ![n].at = "canceled"], D, schedules) /\ Tickets!Counted(D)
  BY DEF Tickets!ImportIdeas
<1> DEFINE I == [items EXCEPT ![n].at = "canceled"]
<1>3. made.items \in Nat /\ made.ideas \in Nat /\ Sound(items, ideas, made.items, made.ideas)
  BY TicketFacts
<1>4. 0 \notin DOMAIN items /\ items[n] \in TicketRecords
  BY <1>1, <1>3, LinkedFacts
<1>5. /\ made' \in [items : 0 .. MaxItems, ideas : Nat] /\ made'.items = made.items
      /\ made.ideas <= made'.ideas /\ Sound(items, D, made.items, made'.ideas)
      /\ Cardinality(DOMAIN D) <= IdeaLimit
      /\ IdeasMove(ideas, D, made.ideas) /\ NoneApproved(ideas, D)
  BY <1>2, <1>3, <1>4, ProposedKeeps
<1>6. /\ ItemsTyped(I, made.items) /\ DOMAIN I = DOMAIN items /\ \A j \in DOMAIN items : j # n => I[j] = items[j]
      /\ I[n].at = "canceled" /\ I[n].idea = items[n].idea /\ I[n].purpose = items[n].purpose
      /\ I[n].schedule = items[n].schedule
  <2>1. ItemsTyped(items, made.items) /\ "canceled" \in TicketStates
    BY <1>3 DEF Sound, TicketStates
  <2> QED BY <1>1, <1>3, <2>1, TicketMoves
<1> HIDE DEF I
<1>7. \A j \in DOMAIN items : /\ Tickets!Open(I[j]) <=> Tickets!Open(items[j])
                              /\ Tickets!Answered(I[j]) <=> Tickets!Answered(items[j])
                              /\ I[j].idea = items[j].idea /\ I[j].purpose = items[j].purpose
                              /\ I[j].schedule = items[j].schedule
  BY <1>1, <1>6 DEF Tickets!Open, Tickets!Answered
<1>8. Sound(I, D, made.items, made'.ideas)
  <2>1. ASSUME NEW x \in DOMAIN D PROVE Tickets!IdeaFits(I, x, D[x])
    BY <1>5, <1>6, <1>7 DEF Sound, Linked, Tickets!IdeaFits
  <2>2. ASSUME NEW m \in DOMAIN I PROVE Tickets!TicketFits(D, m, I[m])
    BY <1>5, <1>6, <1>7 DEF Sound, Linked, Tickets!TicketFits
  <2>3. ASSUME NEW x \in DOMAIN D, D[x].status = "refining"
        PROVE  /\ I[D[x].refinement].idea = x /\ I[D[x].refinement].purpose = "refinement"
               /\ D[x].refinement \in DOMAIN I
    BY <1>5, <1>6, <1>7, <2>3 DEF Sound, Linked
  <2>4. OneOpenEach(I)
    BY <1>5, <1>6, <1>7 DEF Sound, OneOpenEach
  <2> QED BY <1>5, <1>6, <2>1, <2>2, <2>3, <2>4 DEF Sound, Linked
<1>9. StoreInv' /\ ideas' = D
  <2>1. StoreInv /\ TimesFit(schedules, now) /\ Cardinality(DOMAIN I) <= ItemLimit /\ UNCHANGED <<now, seen>>
    BY <1>1, <1>6, TicketFacts DEF Tickets!Requested
  <2>2. Sound(I, D, made'.items, made'.ideas) /\ Tickets!Persist(I, D, schedules)
    BY <1>2, <1>5, <1>8 DEF I
  <2> QED BY <1>5, <2>1, <2>2, Written
<1> QED BY <1>1, <1>5, <1>9, RequestKeeps, NoneApprovedDecides

\* A ticket that is over lets go of the idea it was to refine.
LEMMA OverKeeps ==
  ASSUME TicketInv, NEW n \in DOMAIN items, Tickets!Open(items[n]),
         NEW at \in {"canceled", "dismissed", "released"},
         Tickets!Ends(n, at), UNCHANGED <<now, seen>>
  PROVE  StoreInv' /\ NoneApproved(ideas, ideas')
<1> DEFINE I == [items EXCEPT ![n].at = at]
           D == Tickets!ReturnedToReview(ideas, n, items[n])
           i == items[n]
           freed == i.purpose = "refinement" /\ i.idea \in DOMAIN ideas
                      /\ ideas[i.idea].refinement = n /\ ideas[i.idea].status = "refining"
           back == [ideas[i.idea] EXCEPT !.status = "proposed"]
<1>1. PICK J \in Tickets!TrimmedItems(I) : Tickets!Persist(J, D, schedules)
  BY DEF Tickets!Ends
<1>2. /\ made.items \in Nat /\ made.ideas \in Nat /\ Sound(items, ideas, made.items, made.ideas)
      /\ made' = made /\ made \in [items : 0 .. MaxItems, ideas : Nat]
  BY TicketFacts DEF Tickets!Ends
<1>3. i \in TicketRecords
  BY <1>2, LinkedFacts
<1>4. /\ ItemsTyped(I, made.items) /\ DOMAIN I = DOMAIN items /\ \A j \in DOMAIN items : j # n => I[j] = items[j]
      /\ I[n].at = at /\ I[n].idea = i.idea /\ I[n].purpose = i.purpose /\ I[n].schedule = i.schedule
  <2>1. ItemsTyped(items, made.items) /\ at \in TicketStates
    BY <1>2 DEF Sound, TicketStates
  <2> QED BY <1>2, <2>1, TicketMoves
<1>5. ~Tickets!Open(I[n]) /\ ~Tickets!Answered(I[n]) /\ ~Tickets!Answered(i)
  BY <1>4 DEF Tickets!Open, Tickets!Answered
<1> HIDE DEF I
<1>6. D = IF freed THEN [ideas EXCEPT ![i.idea] = Tickets!Revised(back)] ELSE ideas
  BY DEF Tickets!ReturnedToReview
<1>7. /\ DOMAIN D = DOMAIN ideas /\ IdeasTyped(D, made.items, made.ideas)
      /\ \A x \in DOMAIN ideas : ~(freed /\ x = i.idea) => D[x] = ideas[x]
      /\ freed => /\ D[i.idea].status = "proposed" /\ D[i.idea].refinement = n /\ D[i.idea].rev > ideas[i.idea].rev
                  /\ D[i.idea].approved = ideas[i.idea].approved /\ D[i.idea].source = ideas[i.idea].source
  <2>1. CASE ~freed
    BY <1>2, <1>6, <2>1 DEF Sound
  <2>2. CASE freed
    <3>1. i.idea \in DOMAIN ideas /\ ideas[i.idea] \in IdeaRecords /\ ideas[i.idea].refinement = n
      BY <1>2, <2>2, LinkedFacts
    <3>2. /\ back \in IdeaRecords /\ back.status = "proposed" /\ back.refinement = n
          /\ back.approved = ideas[i.idea].approved /\ back.source = ideas[i.idea].source
          /\ back.rev = ideas[i.idea].rev
      BY <3>1 DEF IdeaRecords
    <3> DEFINE e == Tickets!Revised(back)
    <3> HIDE DEF back
    <3>3. /\ e \in IdeaRecords /\ e.status = "proposed" /\ e.refinement = n
          /\ e.approved = ideas[i.idea].approved /\ e.source = ideas[i.idea].source
          /\ e.rev > ideas[i.idea].rev
      BY <3>2, RevisedFacts
    <3>4. D = [ideas EXCEPT ![i.idea] = e]
      BY <1>6, <2>2
    <3> HIDE DEF e, D, freed
    <3>5. /\ D \in [DOMAIN ideas -> IdeaRecords] /\ DOMAIN D = DOMAIN ideas /\ D[i.idea] = e
          /\ \A x \in DOMAIN ideas : x # i.idea => D[x] = ideas[x]
      BY <1>2, <3>1, <3>3, <3>4 DEF Sound, IdeasTyped
    <3>6. IdeasTyped(D, made.items, made.ideas)
      BY <1>2, <3>1, <3>3, <3>5 DEF Sound, IdeasTyped
    <3> QED BY <2>2, <3>3, <3>5, <3>6
  <2> QED BY <2>1, <2>2
<1>8. i.purpose = "refinement" /\ i.idea # 0 => freed
  BY <1>2 DEF Sound, Linked, Tickets!TicketFits
<1>9. \A x \in DOMAIN ideas : ideas[x].refinement = n => freed /\ x = i.idea
  <2> SUFFICES ASSUME NEW x \in DOMAIN ideas, ideas[x].refinement = n PROVE freed /\ x = i.idea
    OBVIOUS
  <2>1. ideas[x].status = "refining"
    BY <1>2 DEF Sound, Linked, Tickets!IdeaFits
  <2>2. i.idea = x /\ i.purpose = "refinement"
    BY <1>2, <2>1 DEF Sound, Linked
  <2>3. x # 0
    BY <1>2, LinkedFacts DEF Sound, IdeasTyped
  <2> QED BY <1>8, <2>2, <2>3
<1>10. freed => /\ i.idea \in DOMAIN ideas /\ ideas[i.idea].refinement = n /\ ideas[i.idea].status = "refining"
                /\ i.purpose = "refinement"
  OBVIOUS
<1> HIDE DEF D, freed, i, back
<1>11. Linked(I, D)
  <2>1. ASSUME NEW x \in DOMAIN D PROVE Tickets!IdeaFits(I, x, D[x])
    <3>1. Tickets!IdeaFits(items, x, ideas[x])
      BY <1>2, <1>7 DEF Sound, Linked
    <3>2. CASE freed /\ x = i.idea
      BY <1>4, <1>5, <1>7, <1>10, <3>1, <3>2 DEF Tickets!IdeaFits, i
    <3>3. CASE ~(freed /\ x = i.idea)
      <4>1. D[x] = ideas[x] /\ ideas[x].refinement # n
        BY <1>7, <1>9, <3>3
      <4> QED BY <1>4, <1>5, <3>1, <4>1 DEF Tickets!IdeaFits, i
    <3> QED BY <3>2, <3>3
  <2>2. ASSUME NEW m \in DOMAIN I PROVE Tickets!TicketFits(D, m, I[m])
    <3>1. CASE m = n
      BY <1>5, <3>1 DEF Tickets!TicketFits
    <3>2. CASE m # n
      <4>1. Tickets!TicketFits(ideas, m, items[m]) /\ I[m] = items[m]
        BY <1>2, <1>4, <3>2 DEF Sound, Linked
      <4>2. Tickets!Open(items[m]) /\ items[m].idea # 0 => ~(freed /\ items[m].idea = i.idea)
        BY <1>10, <3>2, <4>1 DEF Tickets!TicketFits
      <4> QED BY <1>7, <4>1, <4>2 DEF Tickets!TicketFits
    <3> QED BY <3>1, <3>2
  <2>3. ASSUME NEW x \in DOMAIN D, D[x].status = "refining"
        PROVE  /\ I[D[x].refinement].idea = x /\ I[D[x].refinement].purpose = "refinement"
               /\ D[x].refinement \in DOMAIN I
    <3>1. ~(freed /\ x = i.idea)
      BY <1>7, <2>3
    <3>2. D[x] = ideas[x] /\ x \in DOMAIN ideas
      BY <1>7, <3>1
    <3> QED BY <1>2, <1>4, <2>3, <3>2 DEF Sound, Linked, i
  <2> QED BY <2>1, <2>2, <2>3 DEF Linked
<1>12. OneOpenEach(I)
  <2>1. OneOpenEach(items)
    BY <1>2 DEF Sound
  <2> QED BY <1>4, <1>5, <2>1 DEF OneOpenEach
<1>13. Sound(I, D, made.items, made.ideas)
  BY <1>4, <1>7, <1>11, <1>12 DEF Sound
<1>14. Sound(J, D, made.items, made.ideas) /\ DOMAIN J \subseteq DOMAIN items
  <2>1. J \in Tickets!TrimmedItems(I) /\ made.items \in Nat /\ made.ideas \in Nat
    BY <1>1, <1>2
  <2>2. Sound(J, D, made.items, made.ideas) /\ DOMAIN J \subseteq DOMAIN I
    BY <1>13, <2>1, TrimKeepsSound
  <2> QED BY <1>4, <2>2
<1>15. Cardinality(DOMAIN J) <= ItemLimit
  <2>1. Cardinality(DOMAIN J) \in Nat /\ Cardinality(DOMAIN J) <= Cardinality(DOMAIN items)
    BY <1>2, <1>14, RoomFacts DEF Sound, ItemsTyped
  <2> QED BY <2>1, TicketFacts
<1>16. IdeasMove(ideas, D, made.ideas) /\ NoneApproved(ideas, D)
  BY <1>7 DEF IdeasMove, NoneApproved
<1>17. StoreInv' /\ ideas' = D
  <2>1. StoreInv /\ TimesFit(schedules, now) /\ Cardinality(DOMAIN D) <= IdeaLimit
    BY <1>7, TicketFacts
  <2>2. made' \in [items : 0 .. MaxItems, ideas : Nat] /\ made.ideas <= made'.ideas
    BY <1>2
  <2>3. Sound(J, D, made'.items, made'.ideas) /\ Tickets!Persist(J, D, schedules)
    BY <1>1, <1>2, <1>14
  <2> QED BY <1>15, <1>16, <2>1, <2>2, <2>3, Written
<1> QED BY <1>16, <1>17

LEMMA EndSteps ==
  ASSUME TicketInv, NEW n, Tickets!Cancel(n) \/ Tickets!Dismiss(n) \/ Tickets!Release(n)
  PROVE  TicketInv' /\ Decisions
<1>1. /\ Tickets!Requested /\ n \in DOMAIN items /\ UNCHANGED <<now, seen>>
      /\ items[n].at \in {"queued", "unsent", "review", "boundary"}
      /\ Tickets!Ends(n, "canceled") \/ Tickets!Ends(n, "dismissed") \/ Tickets!Ends(n, "released")
  BY DEF Tickets!Cancel, Tickets!Dismiss, Tickets!Release, Tickets!Requested
<1>2. Tickets!Open(items[n])
  BY <1>1 DEF Tickets!Open
<1>3. StoreInv' /\ NoneApproved(ideas, ideas')
  BY <1>1, <1>2, OverKeeps
<1> QED BY <1>1, <1>3, RequestKeeps, NoneApprovedDecides

\* A decision is taken on the revision that the page shows.
LEMMA RejectStep ==
  ASSUME TicketInv, NEW x, Tickets!Reject(x)
  PROVE  TicketInv' /\ Decisions
<1> DEFINE d == [ideas[x] EXCEPT !.status = "rejected"]
           e == Tickets!Revised(d)
           D == [ideas EXCEPT ![x] = e]
<1>1. /\ Tickets!Requested /\ x \in DOMAIN ideas /\ ideas[x].status = "proposed" /\ UNCHANGED <<now, seen, made>>
  BY DEF Tickets!Reject, Tickets!AsSeen, Tickets!Requested
<1>2. PICK E \in Tickets!TrimmedIdeas(items, D) : Tickets!Persist(items, E, schedules)
  BY DEF Tickets!Reject
<1>3. /\ made.items \in Nat /\ made.ideas \in Nat /\ Sound(items, ideas, made.items, made.ideas)
      /\ ideas[x] \in IdeaRecords
  BY <1>1, TicketFacts, LinkedFacts
<1>4. /\ d \in IdeaRecords /\ d.status = "rejected" /\ d.refinement = ideas[x].refinement
      /\ d.approved = ideas[x].approved /\ d.source = ideas[x].source /\ d.rev = ideas[x].rev
  BY <1>3 DEF IdeaRecords
<1> HIDE DEF d
<1>5. /\ e \in IdeaRecords /\ e.status = "rejected" /\ e.refinement = ideas[x].refinement
      /\ e.approved = ideas[x].approved /\ e.source = ideas[x].source /\ e.rev > ideas[x].rev
  BY <1>4, RevisedFacts
<1> HIDE DEF e
<1>6. /\ D \in [DOMAIN ideas -> IdeaRecords] /\ DOMAIN D = DOMAIN ideas /\ D[x] = e
      /\ \A y \in DOMAIN ideas : y # x => D[y] = ideas[y]
  BY <1>1, <1>3, <1>5 DEF Sound, IdeasTyped
<1> HIDE DEF D
<1>7. IdeasTyped(D, made.items, made.ideas)
  BY <1>1, <1>3, <1>5, <1>6 DEF Sound, IdeasTyped
<1>8. Linked(items, D)
  <2>1. ASSUME NEW y \in DOMAIN D PROVE Tickets!IdeaFits(items, y, D[y])
    BY <1>1, <1>3, <1>5, <1>6 DEF Sound, Linked, Tickets!IdeaFits
  <2>2. ASSUME NEW m \in DOMAIN items PROVE Tickets!TicketFits(D, m, items[m])
    BY <1>1, <1>3, <1>6 DEF Sound, Linked, Tickets!TicketFits
  <2>3. ASSUME NEW y \in DOMAIN D, D[y].status = "refining"
        PROVE  /\ items[D[y].refinement].idea = y /\ items[D[y].refinement].purpose = "refinement"
               /\ D[y].refinement \in DOMAIN items
    BY <1>3, <1>5, <1>6, <2>3 DEF Sound, Linked
  <2> QED BY <2>1, <2>2, <2>3 DEF Linked
<1>9. Sound(items, D, made.items, made.ideas)
  BY <1>3, <1>7, <1>8 DEF Sound
<1>10. /\ Sound(items, E, made.items, made.ideas) /\ DOMAIN E \subseteq DOMAIN D
       /\ \A y \in DOMAIN E : E[y] = D[y]
  BY <1>2, <1>3, <1>9, TrimKeepsIdeas
<1>11. Cardinality(DOMAIN E) <= IdeaLimit
  <2>1. Cardinality(DOMAIN E) \in Nat /\ Cardinality(DOMAIN E) <= Cardinality(DOMAIN ideas)
    BY <1>3, <1>6, <1>10, RoomFacts DEF Sound, IdeasTyped
  <2> QED BY <2>1, TicketFacts
<1>12. IdeasMove(ideas, E, made.ideas) /\ NoneApproved(ideas, E)
  BY <1>5, <1>6, <1>10 DEF IdeasMove, NoneApproved
<1>13. StoreInv' /\ ideas' = E
  <2>1. StoreInv /\ TimesFit(schedules, now) /\ Cardinality(DOMAIN items) <= ItemLimit
    BY TicketFacts
  <2>2. made' \in [items : 0 .. MaxItems, ideas : Nat] /\ made.ideas <= made'.ideas
    BY <1>1, TicketFacts
  <2>3. Sound(items, E, made'.items, made'.ideas)
    BY <1>1, <1>10
  <2> QED BY <1>1, <1>2, <1>11, <1>12, <2>1, <2>2, <2>3, Written
<1> QED BY <1>1, <1>12, <1>13, RequestKeeps, NoneApprovedDecides

\* The page shows an idea as it is.
LEMMA LookAtStep ==
  ASSUME TicketInv, NEW x \in 1 .. MaxIdeas, Tickets!LookAt(x)
  PROVE  TicketInv' /\ Decisions
<1> DEFINE s == [rev |-> ideas[x].rev, text |-> ideas[x].text]
<1>1. /\ x \in DOMAIN ideas /\ seen' = [seen EXCEPT ![x] = s]
      /\ UNCHANGED <<items, ideas, schedules, made, now, phase, up, refused>>
  BY DEF Tickets!LookAt, Tickets!store
<1>2. /\ Sound(items, ideas, made.items, made.ideas) /\ made.items \in Nat /\ made.ideas \in Nat
      /\ seen \in [1 .. MaxIdeas -> [rev : Nat, text : Nat]] /\ SeenFits(ideas, made.ideas)
  BY TicketFacts DEF StoreInv
<1>3. ideas[x] \in IdeaRecords /\ x <= made.ideas
  BY <1>1, <1>2, LinkedFacts
<1>4. s \in [rev : Nat, text : Nat] /\ s.rev = ideas[x].rev /\ s.text = ideas[x].text /\ s.rev \in Nat
  BY <1>3 DEF IdeaRecords
<1> HIDE DEF s
<1>5. /\ seen' \in [1 .. MaxIdeas -> [rev : Nat, text : Nat]] /\ seen'[x] = s
      /\ \A y \in 1 .. MaxIdeas : y # x => seen'[y] = seen[y]
  BY <1>1, <1>2, <1>4
<1>6. SeenFits(ideas, made.ideas)'
  BY <1>1, <1>2, <1>3, <1>4, <1>5 DEF SeenFits
<1>7. Sound(items, ideas, made.items, made.ideas)'
  BY <1>1, <1>2
     DEF Sound, ItemsTyped, IdeasTyped, Linked, OneOpenEach, TicketRecords, TicketStates, Purposes,
         IdeaRecords, Tickets!IdeaFits, Tickets!TicketFits, Tickets!Open, Tickets!Final, Tickets!Answered
<1>8. TimesFit(schedules, now)'
  BY <1>1, TicketFacts DEF TimesFit, ScheduleRecords, Tickets!ScheduleFits
<1>9. StoreInv'
  BY <1>1, <1>5, <1>6, <1>7, <1>8 DEF TicketInv, StoreInv
<1> QED BY <1>1, <1>9 DEF TicketInv, PhaseInv, Decisions

LEMMA TicketRecordFacts ==
  ASSUME NEW s \in Sessions, NEW x \in Nat, NEW purpose \in Purposes, NEW text \in Nat
  PROVE  /\ Tickets!Ticket(s, x, purpose, text) \in TicketRecords
         /\ Tickets!Ticket(s, x, purpose, text).at = "queued" /\ Tickets!Ticket(s, x, purpose, text).idea = x
         /\ Tickets!Ticket(s, x, purpose, text).purpose = purpose /\ Tickets!Ticket(s, x, purpose, text).text = text
         /\ Tickets!Ticket(s, x, purpose, text).schedule = Tickets!NoSchedule
BY DEF Tickets!Ticket, TicketRecords, TicketStates

\* A new ticket, of the typed store of n tickets.
LEMMA NewTicketTyped ==
  ASSUME NEW I, NEW n \in Nat, ItemsTyped(I, n), NEW t \in TicketRecords
  PROVE  /\ ItemsTyped(Tickets!Add(I, n + 1, t), n + 1)
         /\ DOMAIN Tickets!Add(I, n + 1, t) = DOMAIN I \cup {n + 1} /\ n + 1 \notin DOMAIN I
         /\ Tickets!Add(I, n + 1, t)[n + 1] = t
         /\ \A m \in DOMAIN I : Tickets!Add(I, n + 1, t)[m] = I[m]
         /\ Cardinality(DOMAIN Tickets!Add(I, n + 1, t)) = Cardinality(DOMAIN I) + 1
<1> DEFINE J == Tickets!Add(I, n + 1, t)
<1>1. DOMAIN I \subseteq 1 .. n /\ I \in [DOMAIN I -> TicketRecords]
  BY DEF ItemsTyped
<1>2. n + 1 \notin DOMAIN I
  BY <1>1
<1>3. DOMAIN J = DOMAIN I \cup {n + 1} /\ J[n + 1] = t /\ \A m \in DOMAIN I : J[m] = I[m]
  BY <1>2 DEF Tickets!Add
<1>4. J \in [DOMAIN J -> TicketRecords]
  BY <1>1, <1>2 DEF Tickets!Add
<1>5. Cardinality(DOMAIN J) = Cardinality(DOMAIN I) + 1
  <2> DEFINE p == n + 1
  <2>1. p \notin DOMAIN I
    BY <1>2
  <2> HIDE DEF p
  <2>2. Cardinality(DOMAIN Tickets!Add(I, p, t)) = Cardinality(DOMAIN I) + 1
    BY <1>1, <2>1, AddCounts
  <2> QED BY <2>2 DEF p
<1> HIDE DEF J
<1>6. ItemsTyped(J, n + 1)
  BY <1>1, <1>3, <1>4 DEF ItemsTyped
<1> QED BY <1>2, <1>3, <1>5, <1>6 DEF J

\* Approving or refining an idea that waits makes its one open ticket.
LEMMA SettledKeeps ==
  ASSUME NEW I, NEW D, NEW n \in Nat, NEW k \in Nat, Sound(I, D, n, k), n < MaxItems,
         NEW x \in DOMAIN D, D[x].status = "proposed",
         NEW t \in TicketRecords, t.at = "queued", t.idea = x, t.schedule = Tickets!NoSchedule,
         NEW e \in IdeaRecords, e.source = D[x].source,
         \/ /\ t.purpose = "approved" /\ e.status = "approved" /\ e.approved = n + 1
            /\ e.refinement = D[x].refinement
         \/ /\ t.purpose = "refinement" /\ e.status = "refining" /\ e.refinement = n + 1
            /\ e.approved = D[x].approved
  PROVE  Sound(Tickets!Add(I, n + 1, t), [D EXCEPT ![x] = e], n + 1, k)
<1> DEFINE J == Tickets!Add(I, n + 1, t)
           E == [D EXCEPT ![x] = e]
<1>1. /\ ItemsTyped(J, n + 1) /\ DOMAIN J = DOMAIN I \cup {n + 1} /\ n + 1 \notin DOMAIN I
      /\ J[n + 1] = t /\ \A m \in DOMAIN I : J[m] = I[m]
  <2>1. ItemsTyped(I, n)
    BY DEF Sound
  <2>2. ItemsTyped(Tickets!Add(I, n + 1, t), n + 1)
    BY <2>1, NewTicketTyped
  <2>3. DOMAIN Tickets!Add(I, n + 1, t) = DOMAIN I \cup {n + 1} /\ n + 1 \notin DOMAIN I
    BY <2>1 DEF ItemsTyped, Tickets!Add
  <2>4. J[n + 1] = t /\ \A m \in DOMAIN I : J[m] = I[m]
    BY <2>3 DEF Tickets!Add
  <2> QED BY <2>2, <2>3, <2>4
<1>2. /\ E \in [DOMAIN D -> IdeaRecords] /\ DOMAIN E = DOMAIN D /\ E[x] = e
      /\ \A y \in DOMAIN D : y # x => E[y] = D[y]
  BY DEF Sound, IdeasTyped
<1> HIDE DEF J, E
<1>3. /\ D[x].refinement <= n /\ D[x].approved <= n /\ (D[x].source <= n \/ D[x].source > MaxItems)
      /\ D[x] \in IdeaRecords /\ D[x].refinement \in Nat /\ D[x].approved \in Nat /\ D[x].source \in Nat
  BY DEF Sound, IdeasTyped, IdeaRecords
<1>4. /\ D[x].approved = 0 /\ (D[x].refinement \in DOMAIN I => ~Tickets!Open(I[D[x].refinement]))
      /\ D[x].source \in DOMAIN I => Tickets!Answered(I[D[x].source]) /\ I[D[x].source].purpose # "refinement"
  BY DEF Sound, Linked, Tickets!IdeaFits
<1>5. \A y \in DOMAIN D : /\ y \in Nat /\ y # 0 /\ D[y].refinement # n + 1 /\ D[y].approved # n + 1
                          /\ D[y].source # n + 1
  BY TicketBounds DEF Sound, IdeasTyped, IdeaRecords
<1>6. Tickets!Open(t)
  BY DEF Tickets!Open
<1>7. \A m \in DOMAIN I : Tickets!Open(I[m]) => I[m].idea # x
  <2> SUFFICES ASSUME NEW m \in DOMAIN I, Tickets!Open(I[m]), I[m].idea = x PROVE FALSE
    OBVIOUS
  <2>1. Tickets!TicketFits(D, m, I[m])
    BY DEF Sound, Linked
  <2> QED BY <1>5, <2>1 DEF Tickets!TicketFits
<1>8. IdeasTyped(E, n + 1, k)
  <2> SUFFICES ASSUME NEW y \in DOMAIN E
      PROVE  E[y].refinement <= n + 1 /\ E[y].approved <= n + 1 /\ (E[y].source <= n + 1 \/ E[y].source > MaxItems)
    BY <1>2 DEF Sound, IdeasTyped
  <2>1. CASE y = x
    BY <1>2, <1>3, <2>1, TicketBounds DEF IdeaRecords
  <2>2. CASE y # x
    BY <1>2, <2>2, TicketBounds DEF Sound, IdeasTyped, IdeaRecords
  <2> QED BY <2>1, <2>2
<1>9. Linked(J, E)
  <2>1. ASSUME NEW y \in DOMAIN E PROVE Tickets!IdeaFits(J, y, E[y])
    <3>1. CASE y = x
      <4>1. e.source \in DOMAIN J => Tickets!Answered(J[e.source]) /\ J[e.source].purpose # "refinement"
        BY <1>1, <1>4, <1>5
      <4>2. (e.status = "refining") = (e.refinement \in DOMAIN J /\ Tickets!Open(J[e.refinement]))
        BY <1>1, <1>3, <1>4, <1>5, <1>6
      <4> QED BY <1>2, <1>4, <3>1, <4>1, <4>2 DEF Tickets!IdeaFits
    <3>2. CASE y # x
      BY <1>1, <1>2, <1>5, <3>2 DEF Sound, Linked, Tickets!IdeaFits
    <3> QED BY <3>1, <3>2
  <2>2. ASSUME NEW m \in DOMAIN J PROVE Tickets!TicketFits(E, m, J[m])
    <3>1. CASE m = n + 1
      BY <1>1, <1>2, <3>1 DEF Tickets!TicketFits
    <3>2. CASE m # n + 1
      BY <1>1, <1>2, <1>7, <3>2 DEF Sound, Linked, Tickets!TicketFits
    <3> QED BY <3>1, <3>2
  <2>3. ASSUME NEW y \in DOMAIN E, E[y].status = "refining"
        PROVE  /\ J[E[y].refinement].idea = y /\ J[E[y].refinement].purpose = "refinement"
               /\ E[y].refinement \in DOMAIN J
    <3>1. CASE y = x
      BY <1>1, <1>2, <2>3, <3>1
    <3>2. CASE y # x
      BY <1>1, <1>2, <2>3, <3>2 DEF Sound, Linked
    <3> QED BY <3>1, <3>2
  <2> QED BY <2>1, <2>2, <2>3 DEF Linked
<1>10. OneOpenEach(J)
  <2>1. \A m \in DOMAIN J : J[m].schedule \in Schedules => m \in DOMAIN I /\ J[m] = I[m]
    BY <1>1, TicketBounds
  <2> QED BY <2>1 DEF Sound, OneOpenEach
<1> QED BY <1>1, <1>8, <1>9, <1>10 DEF Sound, J, E

\* The ticket is made and the idea is settled in one write, with the text that the operator saw.
LEMMA QueueStep ==
  ASSUME TicketInv, NEW x \in 1 .. MaxIdeas, NEW s \in Sessions, Tickets!Approve(x, s) \/ Tickets!Refine(x, s)
  PROVE  TicketInv' /\ Decisions
<1> DEFINE n == made.items + 1
           purpose == IF Tickets!Approve(x, s) THEN "approved" ELSE "refinement"
           settled == IF Tickets!Approve(x, s) THEN [ideas[x] EXCEPT !.status = "approved", !.approved = n]
                      ELSE [ideas[x] EXCEPT !.status = "refining", !.refinement = n]
           t == Tickets!Ticket(s, x, purpose, ideas[x].text)
           e == Tickets!Revised(settled)
           D == [ideas EXCEPT ![x] = e]
<1>1. Tickets!Queue(x, s, purpose, settled)
  BY DEF Tickets!Approve, Tickets!Refine
<1>2. /\ Tickets!Requested /\ x \in DOMAIN ideas /\ seen[x].rev = ideas[x].rev /\ ideas[x].status = "proposed"
      /\ made.items < MaxItems /\ made' = [made EXCEPT !.items = made.items + 1] /\ UNCHANGED <<now, seen>>
  BY <1>1 DEF Tickets!Queue, Tickets!SentTo, Tickets!AsSeen, Tickets!Requested
<1>3. PICK I \in Tickets!TrimmedItems(items) :
        /\ Tickets!Cardinality(DOMAIN I) < ItemLimit
        /\ \/ Tickets!Persist(Tickets!Add(I, n, t), D, schedules)
           \/ \E E \in Tickets!TrimmedIdeas(Tickets!Add(I, n, t), D) :
                Tickets!Persist(Tickets!Add(I, n, t), E, schedules)
  BY <1>1 DEF Tickets!Queue
<1> DEFINE J == Tickets!Add(I, n, t)
<1>4. /\ made.items \in Nat /\ made.ideas \in Nat /\ Sound(items, ideas, made.items, made.ideas)
      /\ ideas[x] \in IdeaRecords /\ ideas[x].text \in Nat /\ x \in Nat
      /\ SeenFits(ideas, made.ideas)
  <2>1. ideas[x] \in IdeaRecords
    BY <1>2, TicketFacts, LinkedFacts
  <2> QED BY <2>1, TicketFacts DEF IdeaRecords, StoreInv
<1>5. /\ made' \in [items : 0 .. MaxItems, ideas : Nat] /\ made'.items = made.items + 1
      /\ made'.ideas = made.ideas /\ n \in Nat
  BY <1>2, <1>4, TicketFacts
<1>6. seen[x].text = ideas[x].text
  BY <1>2, <1>4 DEF SeenFits
<1>7. purpose \in Purposes /\ purpose \in {"approved", "refinement"}
  BY DEF Purposes
<1>8. /\ settled \in IdeaRecords /\ settled.source = ideas[x].source /\ settled.rev = ideas[x].rev
      /\ purpose = "approved" => /\ settled.status = "approved" /\ settled.approved = n
                                 /\ settled.refinement = ideas[x].refinement
      /\ purpose = "refinement" => /\ settled.status = "refining" /\ settled.refinement = n
                                   /\ settled.approved = ideas[x].approved
  BY <1>4, <1>5 DEF IdeaRecords
<1> HIDE DEF purpose, settled
<1>9. /\ t \in TicketRecords /\ t.at = "queued" /\ t.idea = x /\ t.purpose = purpose /\ t.text = ideas[x].text
      /\ t.schedule = Tickets!NoSchedule
  BY <1>4, <1>7, TicketRecordFacts
<1>10. /\ e \in IdeaRecords /\ e.status = settled.status /\ e.source = ideas[x].source /\ e.rev > ideas[x].rev
       /\ e.approved = settled.approved /\ e.refinement = settled.refinement
  BY <1>8, RevisedFacts
<1> HIDE DEF t, e
<1>11. /\ Sound(I, ideas, made.items, made.ideas) /\ DOMAIN I \subseteq DOMAIN items
  BY <1>3, <1>4, TrimKeepsSound
<1>12. Sound(J, D, n, made.ideas)
  <2>1. \/ /\ t.purpose = "approved" /\ e.status = "approved" /\ e.approved = made.items + 1
           /\ e.refinement = ideas[x].refinement
        \/ /\ t.purpose = "refinement" /\ e.status = "refining" /\ e.refinement = made.items + 1
           /\ e.approved = ideas[x].approved
    BY <1>7, <1>8, <1>9, <1>10
  <2> QED BY <1>2, <1>4, <1>9, <1>10, <1>11, <2>1, SettledKeeps
<1>13. /\ DOMAIN J = DOMAIN I \cup {n} /\ n \notin DOMAIN I /\ J[n] = t
  BY <1>4, <1>11 DEF Tickets!Add, Sound, ItemsTyped
<1>14. Cardinality(DOMAIN J) <= ItemLimit
  <2>1. ItemsTyped(I, made.items)
    BY <1>11 DEF Sound
  <2>2. Cardinality(DOMAIN J) = Cardinality(DOMAIN I) + 1
    BY <1>4, <1>9, <2>1, NewTicketTyped
  <2>3. Cardinality(DOMAIN I) < ItemLimit
    BY <1>3, TicketsCount
  <2>4. Cardinality(DOMAIN I) \in Nat
    BY <1>4, <2>1, RoomFacts DEF ItemsTyped
  <2> QED BY <2>2, <2>3, <2>4, TicketFacts
<1>15. /\ DOMAIN D = DOMAIN ideas /\ D[x] = e /\ \A y \in DOMAIN ideas : y # x => D[y] = ideas[y]
  BY <1>2, <1>4 DEF Sound, IdeasTyped
<1> HIDE DEF D, J, n
<1>16. PICK E : /\ Tickets!Persist(J, E, schedules) /\ Sound(J, E, n, made.ideas)
                /\ DOMAIN E \subseteq DOMAIN ideas /\ \A y \in DOMAIN E : E[y] = D[y]
  <2>1. CASE Tickets!Persist(J, D, schedules)
    BY <1>12, <1>15, <2>1
  <2>2. CASE \E E \in Tickets!TrimmedIdeas(J, D) : Tickets!Persist(J, E, schedules)
    <3>1. PICK E \in Tickets!TrimmedIdeas(J, D) : Tickets!Persist(J, E, schedules)
      BY <2>2
    <3>2. Sound(J, E, n, made.ideas) /\ DOMAIN E \subseteq DOMAIN D /\ \A y \in DOMAIN E : E[y] = D[y]
      BY <1>4, <1>5, <1>12, TrimKeepsIdeas
    <3> QED BY <1>15, <3>1, <3>2
  <2> QED BY <1>3, <2>1, <2>2 DEF J
<1>17. Cardinality(DOMAIN E) <= IdeaLimit
  <2>1. Cardinality(DOMAIN E) \in Nat /\ Cardinality(DOMAIN E) <= Cardinality(DOMAIN ideas)
    BY <1>4, <1>16, RoomFacts DEF Sound, IdeasTyped
  <2> QED BY <2>1, TicketFacts
<1>18. IdeasMove(ideas, E, made.ideas)
  BY <1>10, <1>15, <1>16 DEF IdeasMove
<1>19. StoreInv' /\ ideas' = E /\ items' = J
  <2>1. StoreInv /\ TimesFit(schedules, now)
    BY TicketFacts
  <2>2. made.ideas <= made'.ideas /\ Sound(J, E, made'.items, made'.ideas)
    BY <1>4, <1>5, <1>16 DEF n
  <2> QED BY <1>2, <1>5, <1>14, <1>16, <1>17, <1>18, <2>1, <2>2, Written
<1>20. Decisions
  <2> SUFFICES ASSUME NEW y \in DOMAIN ideas \cap DOMAIN ideas',
                      ideas[y].status = "proposed", ideas'[y].status = "approved"
               PROVE  items'[ideas'[y].approved].text = seen[y].text
    BY DEF Decisions
  <2>1. y = x
    BY <1>15, <1>16, <1>19
  <2>2. ideas'[y] = e
    BY <1>15, <1>16, <1>19, <2>1
  <2>3. purpose = "approved"
    BY <1>7, <1>8, <1>10, <2>2
  <2> QED BY <1>6, <1>8, <1>9, <1>10, <1>13, <1>19, <2>1, <2>2, <2>3
<1> QED BY <1>2, <1>19, <1>20, RequestKeeps

\* Ticket t, of number q, takes the place of ticket p, which is over, and the idea it is about notes it.
TakesOver(I, p, J, q, t) ==
  /\ p \in DOMAIN I /\ Tickets!Open(I[p]) /\ DOMAIN J = DOMAIN I \cup {q} /\ J[q] = t
  /\ t \in TicketRecords /\ t.at = "queued" /\ t.idea = I[p].idea /\ t.purpose = I[p].purpose
  /\ t.schedule = Tickets!NoSchedule
  /\ ~Tickets!Open(J[p]) /\ ~Tickets!Answered(J[p])
  /\ \A m \in DOMAIN I : m # p => J[m] = I[m]
Relinked(D, E, q, t) ==
  /\ E \in [DOMAIN D -> IdeaRecords]
  /\ \A x \in DOMAIN D : x # t.idea => E[x] = D[x]
  /\ t.idea \in DOMAIN D =>
       /\ E[t.idea].status = D[t.idea].status /\ E[t.idea].source = D[t.idea].source
       /\ t.purpose = "refinement" => E[t.idea].refinement = q /\ E[t.idea].approved = D[t.idea].approved
       /\ t.purpose # "refinement" => E[t.idea].approved = q /\ E[t.idea].refinement = D[t.idea].refinement

\* A new ticket takes over the idea of one that is over.
LEMMA TransferKeeps ==
  ASSUME NEW I, NEW D, NEW n \in Nat, NEW k \in Nat, Sound(I, D, n, k), n < MaxItems,
         NEW p, NEW q, q = n + 1, NEW t, NEW J, ItemsTyped(J, q), NEW E,
         TakesOver(I, p, J, q, t), Relinked(D, E, q, t)
  PROVE  Sound(J, E, q, k)
<1> USE DEF TakesOver, Relinked
<1>1. /\ \A m \in DOMAIN I : m # q /\ I[m] \in TicketRecords
      /\ \A x \in DOMAIN D : /\ D[x] \in IdeaRecords /\ x \in Nat /\ x # 0
                             /\ D[x].refinement # q /\ D[x].approved # q /\ D[x].source # q
                             /\ D[x].refinement <= q /\ D[x].approved <= q
                             /\ D[x].source <= q \/ D[x].source > MaxItems
  BY TicketBounds DEF Sound, ItemsTyped, IdeasTyped, IdeaRecords
<1>2. p # q /\ Tickets!Open(t) /\ ~Tickets!Answered(I[p]) /\ DOMAIN E = DOMAIN D /\ q \in Nat /\ q # 0
  BY <1>1 DEF Tickets!Open, Tickets!Answered
<1>3. t.idea # 0 =>
        /\ t.idea \in DOMAIN D
        /\ t.purpose = "refinement" => D[t.idea].status = "refining" /\ D[t.idea].refinement = p
        /\ t.purpose # "refinement" => D[t.idea].status = "approved" /\ D[t.idea].approved = p
  BY DEF Sound, Linked, Tickets!TicketFits
<1>4. \A x \in DOMAIN D : D[x].refinement = p => t.idea = x /\ t.purpose = "refinement"
  BY DEF Sound, Linked, Tickets!IdeaFits
<1>5. IdeasTyped(E, q, k)
  <2> SUFFICES ASSUME NEW y \in DOMAIN E
      PROVE  E[y].refinement <= q /\ E[y].approved <= q /\ (E[y].source <= q \/ E[y].source > MaxItems)
    BY <1>2 DEF Sound, IdeasTyped
  <2>1. CASE y = t.idea
    BY <1>1, <1>2, <2>1
  <2>2. CASE y # t.idea
    BY <1>1, <1>2, <2>2
  <2> QED BY <2>1, <2>2
<1>6. ASSUME NEW y \in DOMAIN E PROVE Tickets!IdeaFits(J, y, E[y])
  <2>1. Tickets!IdeaFits(I, y, D[y]) /\ y \in DOMAIN D
    BY <1>2 DEF Sound, Linked
  <2>2. E[y].source \in DOMAIN J => Tickets!Answered(J[E[y].source]) /\ J[E[y].source].purpose # "refinement"
    <3>1. E[y].source = D[y].source /\ D[y].source # q
      BY <1>1, <2>1
    <3> QED BY <1>2, <2>1, <3>1 DEF Tickets!IdeaFits
  <2>3. CASE y # t.idea
    <3>1. E[y] = D[y] /\ D[y].refinement # p /\ D[y].refinement # q
      BY <1>1, <1>4, <2>1, <2>3
    <3>2. (D[y].status = "refining") = (D[y].refinement \in DOMAIN J /\ Tickets!Open(J[D[y].refinement]))
      BY <2>1, <3>1 DEF Tickets!IdeaFits
    <3> QED BY <2>1, <2>2, <3>1, <3>2 DEF Tickets!IdeaFits
  <2>4. CASE y = t.idea /\ t.purpose = "refinement"
    <3>1. /\ E[y].refinement = q /\ E[y].approved = D[y].approved /\ E[y].status = "refining" /\ D[y].status = "refining"
      BY <1>1, <1>3, <2>1, <2>4
    <3> QED BY <1>2, <2>1, <2>2, <3>1 DEF Tickets!IdeaFits
  <2>5. CASE y = t.idea /\ t.purpose # "refinement"
    <3>1. /\ E[y].refinement = D[y].refinement /\ E[y].approved = q /\ E[y].status = "approved" /\ D[y].status = "approved"
          /\ D[y].refinement # p /\ D[y].refinement # q
      BY <1>1, <1>3, <1>4, <2>1, <2>5
    <3>2. ~(E[y].refinement \in DOMAIN J /\ Tickets!Open(J[E[y].refinement]))
      BY <2>1, <3>1 DEF Tickets!IdeaFits
    <3> QED BY <1>2, <2>2, <3>1, <3>2 DEF Tickets!IdeaFits
  <2> QED BY <2>3, <2>4, <2>5
<1>7. ASSUME NEW m \in DOMAIN J PROVE Tickets!TicketFits(E, m, J[m])
  <2>1. CASE m = p
    BY <2>1 DEF Tickets!TicketFits
  <2>2. CASE m = q
    BY <1>1, <1>2, <1>3, <2>2 DEF Tickets!TicketFits
  <2>3. CASE m # p /\ m # q
    <3>1. J[m] = I[m] /\ Tickets!TicketFits(D, m, I[m])
      BY <2>3 DEF Sound, Linked
    <3>2. Tickets!Open(I[m]) /\ I[m].idea # 0 => I[m].idea # t.idea
      BY <1>3, <2>3, <3>1 DEF Tickets!TicketFits
    <3> QED BY <1>2, <3>1, <3>2 DEF Tickets!TicketFits
  <2> QED BY <2>1, <2>2, <2>3
<1>8. ASSUME NEW y \in DOMAIN E, E[y].status = "refining"
      PROVE  /\ J[E[y].refinement].idea = y /\ J[E[y].refinement].purpose = "refinement"
             /\ E[y].refinement \in DOMAIN J
  <2>1. y \in DOMAIN D
    BY <1>2
  <2>2. CASE y = t.idea
    <3>1. t.purpose = "refinement"
      BY <1>1, <1>3, <1>8, <2>1, <2>2
    <3> QED BY <2>1, <2>2, <3>1
  <2>3. CASE y # t.idea
    <3>1. E[y] = D[y] /\ D[y].refinement # p
      BY <1>4, <2>1, <2>3
    <3> QED BY <1>8, <2>1, <3>1 DEF Sound, Linked
  <2> QED BY <2>2, <2>3
<1>9. OneOpenEach(J)
  <2>1. \A m \in DOMAIN J : Tickets!Open(J[m]) /\ J[m].schedule \in Schedules => m \in DOMAIN I /\ J[m] = I[m]
    BY <1>1, TicketBounds
  <2> QED BY <2>1 DEF Sound, OneOpenEach
<1> QED BY <1>2, <1>5, <1>6, <1>7, <1>8, <1>9 DEF Sound, Linked

LEMMA RequeueStep ==
  ASSUME TicketInv, NEW p, Tickets!Requeue(p)
  PROVE  TicketInv' /\ Decisions
<1> DEFINE q == made.items + 1
           old == items[p]
           over == [items EXCEPT ![p].at = "released"]
           t == Tickets!Ticket(old.session, old.idea, old.purpose, old.text)
           I == Tickets!Add(over, q, t)
           D == Tickets!Transferred(ideas, p, old, q)
<1>1. /\ Tickets!Requested /\ p \in DOMAIN items /\ old.at = "replaced" /\ made.items < MaxItems
      /\ Tickets!Cardinality(DOMAIN items) < ItemLimit
      /\ made' = [made EXCEPT !.items = made.items + 1] /\ UNCHANGED <<now, seen>>
  BY DEF Tickets!Requeue, Tickets!Requested
<1>2. PICK J \in Tickets!TrimmedItems(I) : Tickets!Persist(J, D, schedules)
  BY DEF Tickets!Requeue
<1>3. /\ made.items \in Nat /\ made.ideas \in Nat /\ Sound(items, ideas, made.items, made.ideas)
      /\ old \in TicketRecords /\ Tickets!Open(old) /\ ItemsTyped(items, made.items)
  <2>1. made.items \in Nat /\ made.ideas \in Nat /\ Sound(items, ideas, made.items, made.ideas)
    BY TicketFacts
  <2>2. old \in TicketRecords
    BY <1>1, <2>1, LinkedFacts
  <2>3. Tickets!Open(old)
    BY <1>1 DEF Tickets!Open
  <2> QED BY <2>1, <2>2, <2>3 DEF Sound
<1>4. /\ made' \in [items : 0 .. MaxItems, ideas : Nat] /\ made'.items = q /\ made'.ideas = made.ideas /\ q \in Nat
  BY <1>1, <1>3, TicketFacts
<1>5. /\ ItemsTyped(over, made.items) /\ DOMAIN over = DOMAIN items
      /\ \A j \in DOMAIN items : j # p => over[j] = items[j]
      /\ over[p].at = "released"
  <2>1. "released" \in TicketStates
    BY DEF TicketStates
  <2> QED BY <1>1, <1>3, <2>1, TicketMoves
<1>6. ~Tickets!Open(over[p]) /\ ~Tickets!Answered(over[p])
  BY <1>5 DEF Tickets!Open, Tickets!Answered
<1>7. /\ t \in TicketRecords /\ t.at = "queued" /\ t.idea = old.idea /\ t.purpose = old.purpose
      /\ t.schedule = Tickets!NoSchedule
  <2>1. old.session \in Sessions /\ old.idea \in Nat /\ old.purpose \in Purposes /\ old.text \in Nat
    BY <1>3 DEF TicketRecords
  <2> QED BY <2>1, TicketRecordFacts
<1> HIDE DEF over, t
<1>8. /\ ItemsTyped(I, q) /\ DOMAIN I = DOMAIN items \cup {q} /\ I[q] = t
      /\ \A j \in DOMAIN items : I[j] = over[j]
  <2>1. ItemsTyped(I, q)
    <3>1. made.items \in Nat /\ ItemsTyped(over, made.items) /\ t \in TicketRecords
      BY <1>3, <1>5, <1>7
    <3>2. ItemsTyped(Tickets!Add(over, made.items + 1, t), made.items + 1)
      BY <3>1, NewTicketTyped
    <3> QED BY <3>2
  <2>2. q \notin DOMAIN over
    BY <1>3, <1>5 DEF ItemsTyped
  <2>3. DOMAIN I = DOMAIN items \cup {q}
    BY <1>5 DEF Tickets!Add
  <2>4. I[q] = t
    BY <2>2 DEF Tickets!Add
  <2>5. \A j \in DOMAIN items : I[j] = over[j]
    BY <1>5, <2>2 DEF Tickets!Add
  <2> QED BY <2>1, <2>3, <2>4, <2>5
<1>9. Cardinality(DOMAIN I) <= ItemLimit
  <2>1. Cardinality(DOMAIN I) = Cardinality(DOMAIN over) + 1
    <3>1. made.items \in Nat /\ ItemsTyped(over, made.items) /\ t \in TicketRecords
      BY <1>3, <1>5, <1>7
    <3>2. Cardinality(DOMAIN Tickets!Add(over, made.items + 1, t)) = Cardinality(DOMAIN over) + 1
      BY <3>1, NewTicketTyped
    <3> QED BY <3>2
  <2>2. Cardinality(DOMAIN items) < ItemLimit
    BY <1>1, TicketsCount
  <2> QED BY <1>5, <2>1, <2>2, TicketFacts
<1>10. /\ D \in [DOMAIN ideas -> IdeaRecords]
       /\ \A x \in DOMAIN ideas : x # t.idea => D[x] = ideas[x]
       /\ t.idea \in DOMAIN ideas =>
           /\ D[t.idea].status = ideas[t.idea].status /\ D[t.idea].source = ideas[t.idea].source
           /\ D[t.idea].rev > ideas[t.idea].rev
           /\ t.purpose = "refinement" => D[t.idea].refinement = q /\ D[t.idea].approved = ideas[t.idea].approved
           /\ t.purpose # "refinement" => D[t.idea].approved = q /\ D[t.idea].refinement = ideas[t.idea].refinement
  <2>1. CASE old.idea = 0
    <3>1. D = ideas
      BY <2>1 DEF Tickets!Transferred
    <3>2. 0 \notin DOMAIN ideas
      BY <1>3, LinkedFacts DEF Sound, IdeasTyped
    <3> QED BY <1>3, <1>7, <2>1, <3>1, <3>2 DEF Sound, IdeasTyped
  <2>2. CASE old.idea # 0
    <3> DEFINE x == old.idea
               d == IF old.purpose = "refinement" THEN [ideas[x] EXCEPT !.refinement = q]
                    ELSE [ideas[x] EXCEPT !.approved = q]
               e == Tickets!Revised(d)
    <3>1. x \in DOMAIN ideas
      BY <1>1, <1>3, <2>2 DEF Sound, Linked, Tickets!TicketFits
    <3>2. ideas[x] \in IdeaRecords
      BY <1>3, <3>1, LinkedFacts
    <3>3. D = [ideas EXCEPT ![x] = e]
      BY <2>2 DEF Tickets!Transferred
    <3>4. /\ d \in IdeaRecords /\ d.status = ideas[x].status /\ d.source = ideas[x].source /\ d.rev = ideas[x].rev
          /\ old.purpose = "refinement" => d.refinement = q /\ d.approved = ideas[x].approved
          /\ old.purpose # "refinement" => d.approved = q /\ d.refinement = ideas[x].refinement
      BY <1>4, <3>2 DEF IdeaRecords
    <3> HIDE DEF d
    <3>5. /\ e \in IdeaRecords /\ e.status = d.status /\ e.source = d.source /\ e.rev > d.rev
          /\ e.refinement = d.refinement /\ e.approved = d.approved
      BY <3>4, RevisedFacts
    <3> HIDE DEF e, D
    <3>6. /\ D \in [DOMAIN ideas -> IdeaRecords] /\ D[x] = e /\ \A y \in DOMAIN ideas : y # x => D[y] = ideas[y]
      BY <1>3, <3>1, <3>3, <3>5 DEF Sound, IdeasTyped
    <3> QED BY <1>7, <3>4, <3>5, <3>6
  <2> QED BY <2>1, <2>2
<1> HIDE DEF I, D, q, old
<1>11. Sound(I, D, q, made.ideas)
  <2>1. q = made.items + 1 /\ t.idea = items[p].idea /\ t.purpose = items[p].purpose /\ Tickets!Open(items[p])
    BY <1>3, <1>7 DEF q, old
  <2>2. /\ \A m \in DOMAIN items : m # p => I[m] = items[m]
        /\ ~Tickets!Open(I[p]) /\ ~Tickets!Answered(I[p])
    BY <1>1, <1>5, <1>6, <1>8
  <2>3. /\ made.items \in Nat /\ made.ideas \in Nat /\ Sound(items, ideas, made.items, made.ideas)
        /\ made.items < MaxItems /\ p \in DOMAIN items
    BY <1>1, <1>3
  <2>4. TakesOver(items, p, I, q, t)
    BY <1>7, <1>8, <2>1, <2>2, <2>3 DEF TakesOver
  <2>5. Relinked(ideas, D, q, t)
    BY <1>10 DEF Relinked
  <2>6. ItemsTyped(I, q) /\ q = made.items + 1
    BY <1>8, <2>1
  <2> QED BY <2>3, <2>4, <2>5, <2>6, TransferKeeps
<1>12. Sound(J, D, q, made.ideas) /\ DOMAIN J \subseteq DOMAIN I
  BY <1>2, <1>3, <1>4, <1>11, TrimKeepsSound
<1>13. Cardinality(DOMAIN J) <= ItemLimit
  <2>1. DOMAIN I \subseteq 1 .. q
    BY <1>8 DEF ItemsTyped
  <2>2. /\ Cardinality(DOMAIN J) \in Nat /\ Cardinality(DOMAIN I) \in Nat
        /\ Cardinality(DOMAIN J) <= Cardinality(DOMAIN I)
    BY <1>4, <1>12, <2>1, RoomFacts
  <2> QED BY <1>9, <2>2, TicketFacts
<1>14. IdeasMove(ideas, D, made.ideas) /\ NoneApproved(ideas, D) /\ DOMAIN D = DOMAIN ideas
  BY <1>10 DEF IdeasMove, NoneApproved
<1>15. StoreInv' /\ ideas' = D
  <2>1. StoreInv /\ TimesFit(schedules, now) /\ Cardinality(DOMAIN D) <= IdeaLimit
    BY <1>14, TicketFacts
  <2>2. made.ideas <= made'.ideas /\ Sound(J, D, made'.items, made'.ideas)
    BY <1>3, <1>4, <1>12
  <2> QED BY <1>1, <1>2, <1>4, <1>13, <1>14, <2>1, <2>2, Written
<1> QED BY <1>1, <1>14, <1>15, RequestKeeps, NoneApprovedDecides

\* The next run begins later.
LEMMA NextRunIsLater ==
  ASSUME NEW t \in Nat PROVE Tickets!NextRun(t) \in Nat /\ Tickets!NextRun(t) > t
<1>1. Minute \in Nat \ {0} /\ t \div Minute \in Nat
  BY TicketBounds
<1>2. Minute * (t \div Minute) + Minute > t
  BY <1>1
<1>3. Minute * (t \div Minute) + Minute \in Nat
  BY <1>1
<1> QED BY <1>2, <1>3 DEF Tickets!NextRun

LEMMA ScheduleFacts ==
  ASSUME TicketInv, NEW k \in DOMAIN schedules
  PROVE  /\ schedules[k] \in ScheduleRecords /\ k \in Schedules
         /\ schedules[k].enabled \in BOOLEAN /\ schedules[k].session \in Sessions
         /\ schedules[k].next \in Nat /\ schedules[k].last \in Nat /\ schedules[k].created \in Nat
         /\ schedules[k].next >= schedules[k].created /\ schedules[k].last <= now
         /\ schedules[k].created > 0 /\ schedules[k].created <= now
         /\ schedules[k].last # 0 => schedules[k].last >= schedules[k].created /\ schedules[k].next > schedules[k].last
<1>1. TimesFit(schedules, now) /\ now \in Nat
  BY TicketFacts
<1> QED BY <1>1 DEF TimesFit, ScheduleRecords, Tickets!ScheduleFits

\* A request about a schedule leaves tickets and ideas alone.
LEMMA ScheduleWritten ==
  ASSUME TicketInv, Tickets!Requested, UNCHANGED made, NEW S, Tickets!Persist(items, ideas, S), TimesFit(S, now)
  PROVE  TicketInv' /\ Decisions
<1>1. /\ made \in [items : 0 .. MaxItems, ideas : Nat] /\ made.ideas <= made'.ideas /\ made' = made
      /\ Sound(items, ideas, made.items, made.ideas) /\ StoreInv
      /\ Cardinality(DOMAIN items) <= ItemLimit /\ Cardinality(DOMAIN ideas) <= IdeaLimit
  BY TicketFacts
<1>2. IdeasMove(ideas, ideas, made.ideas) /\ UNCHANGED <<now, seen>>
  BY DEF IdeasMove, Tickets!Requested
<1>3. made' \in [items : 0 .. MaxItems, ideas : Nat] /\ Sound(items, ideas, made'.items, made'.ideas)
  BY <1>1
<1>4. StoreInv' /\ ideas' = ideas
  BY <1>1, <1>2, <1>3, Written
<1>5. NoneApproved(ideas, ideas')
  BY <1>4 DEF NoneApproved
<1> QED BY <1>4, <1>5, RequestKeeps, NoneApprovedDecides

\* A request that comes within its minute makes a schedule that runs later.
LEMMA CreateScheduleStep ==
  ASSUME InTime, TicketInv, NEW k \in Schedules, NEW s \in Sessions, Tickets!CreateSchedule(k, s)
  PROVE  TicketInv' /\ Decisions
<1>1. Tickets!Requested /\ k \notin DOMAIN schedules /\ UNCHANGED made
  BY DEF Tickets!CreateSchedule
<1>2. PICK asked \in 1 .. now :
        /\ Tickets!NextRun(asked) > now
        /\ Tickets!Persist(items, ideas, Tickets!Add(schedules, k,
             [enabled |-> TRUE, session |-> s, next |-> Tickets!NextRun(asked), last |-> 0, created |-> now]))
  BY DEF Tickets!CreateSchedule, InTime
<1> DEFINE e == [enabled |-> TRUE, session |-> s, next |-> Tickets!NextRun(asked), last |-> 0, created |-> now]
           S == Tickets!Add(schedules, k, e)
<1>3. TimesFit(schedules, now) /\ now \in Nat \ {0}
  BY TicketFacts
<1>4. Tickets!NextRun(asked) \in Nat
  BY <1>3, NextRunIsLater
<1>5. e \in ScheduleRecords /\ e.next > now /\ e.last = 0 /\ e.created = now
  BY <1>2, <1>3, <1>4 DEF ScheduleRecords
<1> HIDE DEF e
<1>6. DOMAIN S = DOMAIN schedules \cup {k} /\ S[k] = e /\ \A j \in DOMAIN schedules : S[j] = schedules[j]
  BY <1>1 DEF Tickets!Add
<1>7. S \in [DOMAIN S -> ScheduleRecords]
  BY <1>1, <1>3, <1>5 DEF Tickets!Add, TimesFit
<1> HIDE DEF S
<1>8. TimesFit(S, now)
  <2> SUFFICES ASSUME NEW j \in DOMAIN S
      PROVE  /\ S[j].next >= S[j].created /\ S[j].created \in 1 .. now /\ S[j].last <= now
             /\ Tickets!ScheduleFits(S[j])
    BY <1>3, <1>6, <1>7 DEF TimesFit
  <2>1. CASE j = k
    BY <1>3, <1>5, <1>6, <2>1 DEF Tickets!ScheduleFits, ScheduleRecords
  <2>2. CASE j # k
    BY <1>3, <1>6, <2>2 DEF TimesFit
  <2> QED BY <2>1, <2>2
<1>9. Tickets!Persist(items, ideas, S)
  BY <1>2 DEF S, e
<1> QED BY <1>1, <1>8, <1>9, ScheduleWritten

\* A schedule that changes keeps its times in order.
LEMMA ScheduleChanges ==
  ASSUME TicketInv, NEW k \in DOMAIN schedules, NEW e \in ScheduleRecords,
         e.created = schedules[k].created, e.last = schedules[k].last,
         e.next = schedules[k].next \/ e.next = Tickets!NextRun(now)
  PROVE  TimesFit([schedules EXCEPT ![k] = e], now)
<1> DEFINE S == [schedules EXCEPT ![k] = e]
<1>1. TimesFit(schedules, now) /\ now \in Nat \ {0}
  BY TicketFacts
<1>2. /\ S \in [DOMAIN schedules -> ScheduleRecords] /\ DOMAIN S = DOMAIN schedules /\ S[k] = e
      /\ \A j \in DOMAIN schedules : j # k => S[j] = schedules[j]
  BY <1>1 DEF TimesFit
<1> HIDE DEF S
<1> SUFFICES ASSUME NEW j \in DOMAIN S
    PROVE  /\ S[j].next >= S[j].created /\ S[j].created \in 1 .. now /\ S[j].last <= now
           /\ Tickets!ScheduleFits(S[j])
  BY <1>1, <1>2 DEF TimesFit, S
<1>3. CASE j = k
  <2>1. Tickets!NextRun(now) \in Nat /\ Tickets!NextRun(now) > now
    BY <1>1, NextRunIsLater
  <2>2. /\ schedules[k].next \in Nat /\ schedules[k].last \in Nat /\ schedules[k].created \in Nat
        /\ schedules[k].next >= schedules[k].created /\ schedules[k].last <= now
        /\ schedules[k].created > 0 /\ schedules[k].created <= now
        /\ schedules[k].last # 0 => schedules[k].last >= schedules[k].created /\ schedules[k].next > schedules[k].last
    BY ScheduleFacts
  <2>3. e.next >= e.created /\ e.created \in 1 .. now /\ e.last <= now /\ (e.last # 0 => e.last >= e.created /\ e.next > e.last)
    BY <1>1, <2>1, <2>2
  <2> QED BY <1>2, <1>3, <2>3 DEF Tickets!ScheduleFits
<1>4. CASE j # k
  BY <1>1, <1>2, <1>4 DEF TimesFit
<1> QED BY <1>3, <1>4

LEMMA ScheduleSteps ==
  ASSUME TicketInv, NEW k \in Schedules,
         \/ Tickets!PauseSchedule(k) \/ Tickets!ResumeSchedule(k)
         \/ Tickets!RetargetSchedule(k) \/ Tickets!DeleteSchedule(k)
  PROVE  TicketInv' /\ Decisions
<1>1. Tickets!Requested /\ k \in DOMAIN schedules /\ UNCHANGED made
  BY DEF Tickets!PauseSchedule, Tickets!ResumeSchedule, Tickets!RetargetSchedule, Tickets!DeleteSchedule
<1>2. TimesFit(schedules, now) /\ now \in Nat /\ schedules[k] \in ScheduleRecords /\ schedules[k].next \in Nat
  BY <1>1, TicketFacts, ScheduleFacts
<1>3. Tickets!NextRun(now) \in Nat
  BY <1>2, NextRunIsLater
<1>4. CASE Tickets!PauseSchedule(k)
  <2> DEFINE e == [schedules[k] EXCEPT !.enabled = FALSE]
  <2>1. /\ e \in ScheduleRecords /\ e.created = schedules[k].created /\ e.last = schedules[k].last
        /\ e.next = schedules[k].next
    BY <1>2 DEF ScheduleRecords
  <2>2. Tickets!Persist(items, ideas, [schedules EXCEPT ![k] = e])
    BY <1>4 DEF Tickets!PauseSchedule
  <2> HIDE DEF e
  <2>3. TimesFit([schedules EXCEPT ![k] = e], now)
    BY <1>1, <2>1, ScheduleChanges
  <2> QED BY <1>1, <2>2, <2>3, ScheduleWritten
<1>5. CASE Tickets!ResumeSchedule(k)
  <2> DEFINE e == [schedules[k] EXCEPT !.enabled = TRUE, !.next = Tickets!NextRun(now)]
  <2>1. /\ e \in ScheduleRecords /\ e.created = schedules[k].created /\ e.last = schedules[k].last
        /\ e.next = Tickets!NextRun(now)
    BY <1>2, <1>3 DEF ScheduleRecords
  <2>2. Tickets!Persist(items, ideas, [schedules EXCEPT ![k] = e])
    BY <1>5 DEF Tickets!ResumeSchedule
  <2> HIDE DEF e
  <2>3. TimesFit([schedules EXCEPT ![k] = e], now)
    BY <1>1, <2>1, ScheduleChanges
  <2> QED BY <1>1, <2>2, <2>3, ScheduleWritten
<1>6. CASE Tickets!RetargetSchedule(k)
  <2> DEFINE next == IF schedules[k].enabled THEN Tickets!NextRun(now) ELSE schedules[k].next
             e == [schedules[k] EXCEPT !.next = next]
  <2>1. next \in Nat /\ (next = schedules[k].next \/ next = Tickets!NextRun(now))
    BY <1>2, <1>3
  <2>2. Tickets!Persist(items, ideas, [schedules EXCEPT ![k] = e])
    BY <1>6 DEF Tickets!RetargetSchedule
  <2> HIDE DEF next
  <2>3. /\ e \in ScheduleRecords /\ e.created = schedules[k].created /\ e.last = schedules[k].last
        /\ e.next = next
    BY <1>2, <2>1 DEF ScheduleRecords
  <2> HIDE DEF e
  <2>4. TimesFit([schedules EXCEPT ![k] = e], now)
    BY <1>1, <2>1, <2>3, ScheduleChanges
  <2> QED BY <1>1, <2>2, <2>4, ScheduleWritten
<1>7. CASE Tickets!DeleteSchedule(k)
  <2> DEFINE S == Tickets!Restrict(schedules, DOMAIN schedules \ {k})
  <2>1. /\ S \in [DOMAIN S -> ScheduleRecords] /\ DOMAIN S \subseteq DOMAIN schedules
        /\ \A j \in DOMAIN S : S[j] = schedules[j]
    BY <1>2 DEF Tickets!Restrict, TimesFit
  <2>2. Tickets!Persist(items, ideas, S)
    BY <1>7 DEF Tickets!DeleteSchedule
  <2> HIDE DEF S
  <2>3. TimesFit(S, now)
    BY <1>2, <2>1 DEF TimesFit
  <2> QED BY <1>1, <2>2, <2>3, ScheduleWritten
<1> QED BY <1>4, <1>5, <1>6, <1>7

\* A ticket of a schedule is about no idea.
LEMMA OccurrenceFacts ==
  ASSUME TicketInv, NEW k \in DOMAIN schedules
  PROVE  /\ Tickets!Occurrence(k) \in TicketRecords /\ Tickets!Occurrence(k).at = "queued"
         /\ Tickets!Occurrence(k).idea = 0 /\ Tickets!Occurrence(k).schedule = k
<1> DEFINE t == Tickets!Ticket(schedules[k].session, 0, "none", 0)
<1>1. schedules[k].session \in Sessions /\ k \in Schedules
  BY ScheduleFacts
<1>2. t \in TicketRecords /\ t.at = "queued" /\ t.idea = 0
  BY <1>1, TicketRecordFacts DEF Purposes
<1> HIDE DEF t
<1>3. [t EXCEPT !.schedule = k] \in TicketRecords
  BY <1>1, <1>2 DEF TicketRecords
<1>4. /\ [t EXCEPT !.schedule = k].at = "queued" /\ [t EXCEPT !.schedule = k].idea = 0
      /\ [t EXCEPT !.schedule = k].schedule = k
  BY <1>1, <1>2 DEF TicketRecords
<1> QED BY <1>3, <1>4 DEF Tickets!Occurrence, t

\* New tickets of schedules that had none open, one each.
Occurring(I, n, J, q) ==
  /\ DOMAIN J = DOMAIN I \cup (n + 1 .. q) /\ J \in [DOMAIN J -> TicketRecords]
  /\ \A m \in DOMAIN I : J[m] = I[m]
  /\ \A m \in n + 1 .. q : J[m].at = "queued" /\ J[m].idea = 0
  /\ \A m \in n + 1 .. q, j \in DOMAIN I : Tickets!Open(I[j]) => I[j].schedule # J[m].schedule
  /\ \A m, j \in n + 1 .. q : J[m].schedule = J[j].schedule => m = j

LEMMA OccurrencesKeep ==
  ASSUME NEW I, NEW D, NEW n \in Nat, NEW k \in Nat, Sound(I, D, n, k), NEW q \in Nat, n <= q, q <= MaxItems,
         NEW J, Occurring(I, n, J, q)
  PROVE  Sound(J, D, q, k)
<1>1. /\ DOMAIN J = DOMAIN I \cup (n + 1 .. q) /\ J \in [DOMAIN J -> TicketRecords]
      /\ \A m \in DOMAIN I : J[m] = I[m]
      /\ \A m \in n + 1 .. q : J[m].at = "queued" /\ J[m].idea = 0 /\ Tickets!Open(J[m])
  BY DEF Occurring, Tickets!Open
<1>2. \A m \in DOMAIN I : m \in 1 .. n
  BY DEF Sound, ItemsTyped
<1>3. ItemsTyped(J, q)
  BY <1>1, <1>2 DEF ItemsTyped
<1>4. \A x \in DOMAIN D : /\ D[x].refinement \in Nat /\ D[x].refinement <= n /\ D[x].approved \in Nat /\ D[x].approved <= n
                          /\ D[x].source \in Nat /\ (D[x].source <= n \/ D[x].source > MaxItems)
  BY DEF Sound, IdeasTyped, IdeaRecords
<1>5. IdeasTyped(D, q, k)
  <2>1. \A x \in DOMAIN D : /\ D[x].refinement <= q /\ D[x].approved <= q
                            /\ D[x].source <= q \/ D[x].source > MaxItems
    BY <1>4, TicketBounds
  <2> QED BY <2>1 DEF Sound, IdeasTyped
<1>6. \A x \in DOMAIN D : /\ D[x].refinement \in DOMAIN J => D[x].refinement \in DOMAIN I
                          /\ D[x].source \in DOMAIN J => D[x].source \in DOMAIN I
  BY <1>1, <1>4, TicketBounds
<1>7. Linked(J, D)
  <2>1. ASSUME NEW x \in DOMAIN D PROVE Tickets!IdeaFits(J, x, D[x])
    BY <1>1, <1>6 DEF Sound, Linked, Tickets!IdeaFits
  <2>2. ASSUME NEW m \in DOMAIN J PROVE Tickets!TicketFits(D, m, J[m])
    BY <1>1 DEF Sound, Linked, Tickets!TicketFits
  <2>3. ASSUME NEW x \in DOMAIN D, D[x].status = "refining"
        PROVE  /\ J[D[x].refinement].idea = x /\ J[D[x].refinement].purpose = "refinement"
               /\ D[x].refinement \in DOMAIN J
    BY <1>1, <2>3 DEF Sound, Linked
  <2> QED BY <2>1, <2>2, <2>3 DEF Linked
<1>8. OneOpenEach(J)
  <2> SUFFICES ASSUME NEW m \in DOMAIN J, NEW j \in DOMAIN J, Tickets!Open(J[m]), Tickets!Open(J[j]),
                      J[m].schedule = J[j].schedule, J[m].schedule \in Schedules
               PROVE  m = j
    BY DEF OneOpenEach
  <2>1. CASE m \in DOMAIN I /\ j \in DOMAIN I
    BY <1>1, <2>1 DEF Sound, OneOpenEach
  <2>2. CASE m \in n + 1 .. q /\ j \in n + 1 .. q
    BY <2>2 DEF Occurring
  <2>3. CASE m \in DOMAIN I /\ j \in n + 1 .. q
    BY <1>1, <2>3 DEF Occurring
  <2>4. CASE m \in n + 1 .. q /\ j \in DOMAIN I
    BY <1>1, <2>4 DEF Occurring
  <2> QED BY <1>1, <2>1, <2>2, <2>3, <2>4
<1> QED BY <1>3, <1>5, <1>7, <1>8 DEF Sound

LEMMA QueueNowStep ==
  ASSUME TicketInv, NEW k \in Schedules, Tickets!QueueNow(k)
  PROVE  TicketInv' /\ Decisions
<1> DEFINE n == made.items
           t == Tickets!Occurrence(k)
<1>1. /\ Tickets!Requested /\ k \in DOMAIN schedules /\ made.items < MaxItems /\ UNCHANGED <<now, seen>>
      /\ ~Tickets!AlreadyOpen(items, k) /\ made' = [made EXCEPT !.items = n + 1]
  BY DEF Tickets!QueueNow, Tickets!Requested
<1>2. PICK I \in Tickets!TrimmedItems(items) :
        /\ Tickets!Cardinality(DOMAIN I) < ItemLimit
        /\ Tickets!Persist(Tickets!Add(I, n + 1, t), ideas, schedules)
  BY DEF Tickets!QueueNow
<1> DEFINE q == n + 1
           J == Tickets!Add(I, q, t)
<1>3. /\ n \in Nat /\ q \in Nat /\ made.ideas \in Nat /\ Sound(items, ideas, n, made.ideas)
      /\ n <= q /\ q <= MaxItems /\ q = n + 1 /\ n + 1 .. q = {q}
      /\ made' \in [items : 0 .. MaxItems, ideas : Nat] /\ made'.items = q /\ made'.ideas = made.ideas
  BY <1>1, TicketFacts
<1>4. /\ Sound(I, ideas, n, made.ideas) /\ DOMAIN I \subseteq DOMAIN items /\ \A m \in DOMAIN I : I[m] = items[m]
      /\ ItemsTyped(I, n)
  BY <1>2, <1>3, TrimKeepsSound DEF Sound
<1>5. t \in TicketRecords /\ t.at = "queued" /\ t.idea = 0 /\ t.schedule = k
  BY <1>1, OccurrenceFacts
<1> HIDE DEF t
<1>6. Cardinality(DOMAIN J) <= ItemLimit
  <2>1. Cardinality(DOMAIN Tickets!Add(I, n + 1, t)) = Cardinality(DOMAIN I) + 1
    <3>1. n \in Nat /\ ItemsTyped(I, n) /\ t \in TicketRecords
      BY <1>3, <1>4, <1>5
    <3> HIDE DEF n
    <3> QED BY <3>1, NewTicketTyped
  <2>2. Cardinality(DOMAIN I) < ItemLimit
    BY <1>2, TicketsCount
  <2>3. Cardinality(DOMAIN I) \in Nat
    BY <1>3, <1>4, RoomFacts DEF ItemsTyped
  <2> QED BY <2>1, <2>2, <2>3, TicketFacts
<1> HIDE DEF n, q
<1>7. Occurring(I, n, J, q)
  <2>1. DOMAIN J = DOMAIN I \cup {q}
    BY DEF Tickets!Add
  <2>2. q \notin DOMAIN I
    BY <1>3, <1>4 DEF ItemsTyped
  <2>3. J[q] = t
    BY DEF Tickets!Add
  <2>4. \A m \in DOMAIN I : J[m] = I[m]
    BY <2>2 DEF Tickets!Add
  <2>5. J \in [DOMAIN J -> TicketRecords]
    BY <1>4, <1>5 DEF ItemsTyped, Tickets!Add
  <2>6. \A j \in DOMAIN I : Tickets!Open(I[j]) => I[j].schedule # k
    BY <1>1, <1>4 DEF Tickets!AlreadyOpen
  <2> HIDE DEF J
  <2> QED BY <1>3, <1>5, <2>1, <2>3, <2>4, <2>5, <2>6 DEF Occurring
<1> HIDE DEF J
<1>8. Sound(J, ideas, q, made.ideas)
  BY <1>3, <1>4, <1>7, OccurrencesKeep
<1>9. StoreInv' /\ ideas' = ideas
  <2>1. /\ StoreInv /\ TimesFit(schedules, now) /\ Cardinality(DOMAIN ideas) <= IdeaLimit
        /\ IdeasMove(ideas, ideas, made.ideas)
    BY TicketFacts DEF IdeasMove
  <2>2. Sound(J, ideas, made'.items, made'.ideas) /\ made.ideas <= made'.ideas
    BY <1>3, <1>8
  <2>3. Tickets!Persist(J, ideas, schedules)
    BY <1>2 DEF J, q
  <2> QED BY <1>1, <1>3, <1>6, <2>1, <2>2, <2>3, Written
<1>10. NoneApproved(ideas, ideas')
  BY <1>9 DEF NoneApproved
<1> QED BY <1>1, <1>9, <1>10, RequestKeeps, NoneApprovedDecides

\* A finite set in an order.
LEMMA OrderFacts ==
  ASSUME NEW Q, IsFiniteSet(Q)
  PROVE  /\ Tickets!Cardinality(Q) \in Nat /\ Tickets!Cardinality(Q) = Cardinality(Q)
         /\ Tickets!SetToSeq(Q) \in [1 .. Cardinality(Q) -> Q]
         /\ \A a, b \in 1 .. Cardinality(Q) : Tickets!SetToSeq(Q)[a] = Tickets!SetToSeq(Q)[b] => a = b
<1>1. Tickets!Cardinality(Q) = Cardinality(Q)
  BY TicketsCount
<1>2. Cardinality(Q) \in Nat /\ ExistsBijection(1 .. Cardinality(Q), Q)
  BY FS_CardinalityType
<1>3. PICK f : f \in Bijection(1 .. Cardinality(Q), Q)
  BY <1>2 DEF ExistsBijection
<1>4. f \in [1 .. Cardinality(Q) -> Q] /\ \A a, b \in 1 .. Cardinality(Q) : f[a] = f[b] => a = b
  BY <1>3, Fun_BijectionProperties
<1>5. Tickets!IsInjective(f)
  BY <1>4 DEF Tickets!IsInjective
<1>6. /\ Tickets!SetToSeq(Q) \in [1 .. Cardinality(Q) -> Q] /\ Tickets!IsInjective(Tickets!SetToSeq(Q))
  <2>1. Tickets!SetToSeq(Q) = CHOOSE g \in [1 .. Cardinality(Q) -> Q] : Tickets!IsInjective(g)
    BY <1>1 DEF Tickets!SetToSeq
  <2> QED BY <1>4, <1>5, <2>1
<1> HIDE DEF Tickets!SetToSeq
<1> QED BY <1>1, <1>2, <1>6 DEF Tickets!IsInjective

\* What leaves the store alone keeps it sound.
LEMMA UnwrittenKeeps ==
  ASSUME StoreInv, UNCHANGED <<items, ideas, schedules, made, now, seen, refused>>
  PROVE  StoreInv' /\ Decisions
<1>1. Sound(items, ideas, made.items, made.ideas)'
  BY DEF StoreInv, Sound, ItemsTyped, IdeasTyped, Linked, OneOpenEach, TicketRecords, TicketStates, Purposes,
         IdeaRecords, Tickets!IdeaFits, Tickets!TicketFits, Tickets!Open, Tickets!Final, Tickets!Answered
<1>2. TimesFit(schedules, now)' /\ SeenFits(ideas, made.ideas)'
  BY DEF StoreInv, TimesFit, SeenFits, ScheduleRecords, Tickets!ScheduleFits
<1>3. Decisions
  BY DEF Decisions
<1> QED BY <1>1, <1>2, <1>3 DEF StoreInv

\* A cycle that does not type a ticket next.
LEMMA CyclePhase ==
  ASSUME PhaseInv, UNCHANGED up, NEW at, at # "typing",
         phase' = Tickets!Resting \/ phase' = [phase EXCEPT !.at = at]
  PROVE  PhaseInv'
<1>1. DOMAIN phase' = {"at", "item"} /\ phase'.at # "typing"
  <2>1. CASE phase' = Tickets!Resting
    BY <2>1 DEF Tickets!Resting
  <2>2. CASE phase' = [phase EXCEPT !.at = at]
    BY <2>2 DEF PhaseInv
  <2> QED BY <2>1, <2>2
<1> QED BY <1>1 DEF PhaseInv

LEMMA AdvancedFits ==
  ASSUME TicketInv, NEW S, NEW due \in SUBSET DOMAIN schedules, \A k \in due : Tickets!Due(k),
         S = [k \in DOMAIN schedules |-> IF k \in due THEN Tickets!Advanced(k) ELSE schedules[k]]
  PROVE  TimesFit(S, now)
<1>1. TimesFit(schedules, now) /\ now \in Nat \ {0}
  BY TicketFacts
<1>2. Tickets!NextRun(now) \in Nat /\ Tickets!NextRun(now) > now
  BY <1>1, NextRunIsLater
<1>3. ASSUME NEW k \in due
      PROVE  /\ S[k] \in ScheduleRecords /\ S[k].next >= S[k].created /\ S[k].created \in 1 .. now /\ S[k].last <= now
             /\ Tickets!ScheduleFits(S[k])
  <2> DEFINE s == schedules[k]
             next == Tickets!NextRun(now)
             e == [s EXCEPT !.last = s.next, !.next = next]
  <2>1. S[k] = e
    BY DEF Tickets!Advanced
  <2>2. /\ s \in ScheduleRecords /\ s.next \in Nat /\ s.created \in Nat
        /\ s.next >= s.created /\ s.created > 0 /\ s.created <= now
    BY ScheduleFacts
  <2>3. s.next <= now
    BY DEF Tickets!Due
  <2> HIDE DEF s, next
  <2>4. next \in Nat /\ next > now
    BY <1>2 DEF next
  <2>5. e \in ScheduleRecords /\ e.last = s.next /\ e.next = next /\ e.created = s.created
    BY <2>2, <2>4 DEF ScheduleRecords
  <2> HIDE DEF e
  <2>6. e.next >= e.created /\ e.created \in 1 .. now /\ e.last <= now
    BY <1>1, <2>2, <2>3, <2>4, <2>5
  <2>7. Tickets!ScheduleFits(e)
    BY <1>1, <2>2, <2>3, <2>4, <2>5 DEF Tickets!ScheduleFits
  <2> QED BY <2>1, <2>5, <2>6, <2>7
<1>4. ASSUME NEW k \in DOMAIN schedules, k \notin due
      PROVE  /\ S[k] \in ScheduleRecords /\ S[k].next >= S[k].created /\ S[k].created \in 1 .. now /\ S[k].last <= now
             /\ Tickets!ScheduleFits(S[k])
  <2>1. S[k] = schedules[k]
    BY <1>4
  <2> QED BY <1>1, <2>1 DEF TimesFit
<1>5. DOMAIN S = DOMAIN schedules
  OBVIOUS
<1>6. S \in [DOMAIN S -> ScheduleRecords]
  BY <1>3, <1>4
<1> QED BY <1>1, <1>3, <1>4, <1>5, <1>6 DEF TimesFit

\* The due schedules that find room get a ticket each, and each of the due moves on.
LEMMA EnqueueDueStep ==
  ASSUME TicketInv, Tickets!EnqueueDue
  PROVE  TicketInv' /\ Decisions
<1> DEFINE n == made.items
           due == {k \in DOMAIN schedules : Tickets!Due(k)}
           S == [k \in DOMAIN schedules |-> IF k \in due THEN Tickets!Advanced(k) ELSE schedules[k]]
<1>1. UNCHANGED <<now, seen, up>> /\ StoreInv /\ PhaseInv
  BY TicketFacts DEF Tickets!EnqueueDue, Tickets!InCycle
<1>2. CASE due = {}
  <2>1. UNCHANGED <<items, ideas, schedules, made, refused>> /\ phase' = [phase EXCEPT !.at = "captures"]
    BY <1>2 DEF Tickets!EnqueueDue, Tickets!NothingWritten, Tickets!Goto, Tickets!store
  <2>2. StoreInv' /\ Decisions
    BY <1>1, <2>1, UnwrittenKeeps
  <2>3. PhaseInv'
    BY <1>1, <2>1, CyclePhase
  <2> QED BY <2>2, <2>3 DEF TicketInv
<1>3. CASE due # {}
  <2>1. /\ \E I \in Tickets!TrimmedItems(items) : \E Q \in SUBSET due :
             LET first == n + 1
                 last == n + Tickets!Cardinality(Q)
                 queued == Tickets!SetToSeq(Q)
             IN  /\ last <= MaxItems /\ Tickets!Cardinality(DOMAIN I) + Tickets!Cardinality(Q) <= ItemLimit
                 /\ \A k \in Q : ~Tickets!AlreadyOpen(I, k)
                 /\ Tickets!Persist([m \in DOMAIN I \cup first .. last |->
                                IF m < first THEN I[m] ELSE Tickets!Occurrence(queued[m - n])], ideas, S)
                 /\ made' = [made EXCEPT !.items = last]
        /\ Tickets!WrittenThenGoto("captures")
    BY <1>3 DEF Tickets!EnqueueDue
  <2>2. PICK I \in Tickets!TrimmedItems(items), Q \in SUBSET due :
             /\ n + Tickets!Cardinality(Q) <= MaxItems
             /\ Tickets!Cardinality(DOMAIN I) + Tickets!Cardinality(Q) <= ItemLimit
             /\ \A k \in Q : ~Tickets!AlreadyOpen(I, k)
             /\ Tickets!Persist([m \in DOMAIN I \cup (n + 1 .. n + Tickets!Cardinality(Q)) |->
                  IF m < n + 1 THEN I[m] ELSE Tickets!Occurrence(Tickets!SetToSeq(Q)[m - n])], ideas, S)
             /\ made' = [made EXCEPT !.items = n + Tickets!Cardinality(Q)]
    BY <2>1
  <2> DEFINE c == Tickets!Cardinality(Q)
             q == n + c
             order == Tickets!SetToSeq(Q)
             J == [m \in DOMAIN I \cup (n + 1 .. q) |-> IF m < n + 1 THEN I[m] ELSE Tickets!Occurrence(order[m - n])]
  <2>3. /\ n \in Nat /\ made.ideas \in Nat /\ MaxItems \in Nat /\ ItemLimit \in Nat
        /\ Sound(items, ideas, n, made.ideas) /\ TimesFit(schedules, now)
        /\ made \in [items : 0 .. MaxItems, ideas : Nat]
    BY TicketFacts
  <2>4. IsFiniteSet(Q)
    <3>1. Q \subseteq Schedules /\ IsFiniteSet(Schedules)
      BY <2>3, TicketBounds DEF TimesFit
    <3> QED BY <3>1, FS_Subset
  <2>5. c \in Nat /\ c = Cardinality(Q)
    BY <2>4, OrderFacts
  <2>6. order \in [1 .. c -> Q] /\ \A a, b \in 1 .. c : order[a] = order[b] => a = b
    BY <2>4, <2>5, OrderFacts
  <2>7. /\ Sound(I, ideas, n, made.ideas) /\ DOMAIN I \subseteq DOMAIN items
        /\ \A m \in DOMAIN I : m \in 1 .. n /\ I[m] \in TicketRecords
    BY <2>2, <2>3, TrimKeepsSound DEF Sound, ItemsTyped
  <2> HIDE DEF c, order, S, due
  <2>8. q \in Nat /\ n <= q /\ q <= MaxItems
    BY <2>2, <2>3, <2>5 DEF c
  <2>9. made' \in [items : 0 .. MaxItems, ideas : Nat] /\ made'.items = q /\ made'.ideas = made.ideas
    <3>1. made' = [made EXCEPT !.items = q]
      BY <2>2 DEF c
    <3> HIDE DEF q
    <3> QED BY <2>3, <2>8, <3>1
  <2>10. \A m \in n + 1 .. q : m - n \in 1 .. c
    BY <2>3, <2>5
  <2>11. \A m \in n + 1 .. q : order[m - n] \in Q /\ order[m - n] \in DOMAIN schedules
    <3>1. Q \subseteq DOMAIN schedules
      BY DEF due
    <3> QED BY <2>6, <2>10, <3>1
  <2>12. /\ DOMAIN J = DOMAIN I \cup (n + 1 .. q)
         /\ \A m \in DOMAIN I : J[m] = I[m]
    BY <2>3, <2>7
  <2>13. \A m \in n + 1 .. q : J[m] = Tickets!Occurrence(order[m - n])
    BY <2>3
  <2> HIDE DEF J, q
  <2>14. \A m \in n + 1 .. q : /\ J[m] \in TicketRecords /\ J[m].at = "queued" /\ J[m].idea = 0
                               /\ J[m].schedule = order[m - n]
    BY <2>11, <2>13, OccurrenceFacts
  <2>15. Occurring(I, n, J, q)
    <3>1. J \in [DOMAIN J -> TicketRecords]
      <4>1. \A m \in DOMAIN J : J[m] \in TicketRecords
        BY <2>7, <2>12, <2>14
      <4>2. J = [m \in DOMAIN J |-> J[m]]
        BY DEF J
      <4> QED BY <4>1, <4>2
    <3>2. \A m \in n + 1 .. q, j \in DOMAIN I : Tickets!Open(I[j]) => I[j].schedule # J[m].schedule
      BY <2>2, <2>11, <2>14 DEF Tickets!AlreadyOpen
    <3>3. \A m, j \in n + 1 .. q : J[m].schedule = J[j].schedule => m = j
      <4> SUFFICES ASSUME NEW m \in n + 1 .. q, NEW j \in n + 1 .. q, J[m].schedule = J[j].schedule PROVE m = j
        OBVIOUS
      <4>1. m - n = j - n
        BY <2>6, <2>10, <2>14
      <4> QED BY <2>3, <2>8, <4>1
    <3> QED BY <2>12, <2>14, <3>1, <3>2, <3>3 DEF Occurring
  <2>16. Sound(J, ideas, q, made.ideas)
    BY <2>3, <2>7, <2>8, <2>15, OccurrencesKeep
  <2>17. Cardinality(DOMAIN J) <= ItemLimit
    <3>1. IsFiniteSet(DOMAIN I) /\ Cardinality(DOMAIN I) \in Nat
      BY <2>3, <2>7, RoomFacts
    <3>2. IsFiniteSet(n + 1 .. q) /\ Cardinality(n + 1 .. q) = c
      <4>1. n + 1 \in Int /\ q \in Int
        BY <2>3, <2>8
      <4>2. Cardinality(n + 1 .. q) = IF n + 1 > q THEN 0 ELSE q - (n + 1) + 1
        BY <4>1, FS_Interval
      <4>3. (IF n + 1 > q THEN 0 ELSE q - (n + 1) + 1) = c
        BY <2>3, <2>5 DEF q
      <4> QED BY <4>1, <4>2, <4>3, FS_Interval
    <3>3. DOMAIN I \cap (n + 1 .. q) = {}
      BY <2>3, <2>7
    <3>4. Cardinality(DOMAIN I \cup (n + 1 .. q)) = Cardinality(DOMAIN I) + c
      <4>1. Cardinality(DOMAIN I \cup (n + 1 .. q))
              = Cardinality(DOMAIN I) + Cardinality(n + 1 .. q) - Cardinality(DOMAIN I \cap (n + 1 .. q))
        BY <3>1, <3>2, FS_Union
      <4>2. Cardinality(DOMAIN I \cap (n + 1 .. q)) = 0
        BY <3>3, FS_EmptySet
      <4> QED BY <2>5, <3>1, <3>2, <4>1, <4>2
    <3>5. Cardinality(DOMAIN I) + c <= ItemLimit
      BY <2>2, TicketsCount DEF c
    <3> QED BY <2>12, <3>4, <3>5
  <2>18. TimesFit(S, now)
    BY AdvancedFits DEF S, due
  <2>19. StoreInv' /\ ideas' = ideas
    <3>1. Cardinality(DOMAIN ideas) <= IdeaLimit /\ IdeasMove(ideas, ideas, made.ideas)
      BY TicketFacts DEF IdeasMove
    <3>2. Sound(J, ideas, made'.items, made'.ideas) /\ made.ideas <= made'.ideas
      BY <2>3, <2>9, <2>16
    <3>3. Tickets!Persist(J, ideas, S)
      BY <2>2 DEF J, q, c, order
    <3> QED BY <1>1, <2>9, <2>17, <2>18, <3>1, <3>2, <3>3, Written
  <2>20. PhaseInv'
    <3>1. phase' = Tickets!Resting \/ phase' = [phase EXCEPT !.at = "captures"]
      BY <2>1 DEF Tickets!WrittenThenGoto
    <3> QED BY <1>1, <3>1, CyclePhase
  <2>21. NoneApproved(ideas, ideas')
    BY <2>19 DEF NoneApproved
  <2> QED BY <2>19, <2>20, <2>21, NoneApprovedDecides DEF TicketInv
<1> QED BY <1>2, <1>3

\* Tickets go on or end, and the ideas whose tickets end may wait for a decision again.
CarriesOn(I, J) ==
  /\ DOMAIN J = DOMAIN I
  /\ \A m \in DOMAIN I : /\ J[m].idea = I[m].idea /\ J[m].purpose = I[m].purpose /\ J[m].schedule = I[m].schedule
                         /\ Tickets!Open(J[m]) => Tickets!Open(I[m])
                         /\ Tickets!Answered(I[m]) => Tickets!Answered(J[m])
FitsOn(J, x, d, e) ==
  \/ e = d /\ (d.status = "refining" => Tickets!Open(J[d.refinement]))
  \/ /\ e.status = "proposed" /\ e.approved = 0 /\ e.refinement = d.refinement /\ e.source = d.source
     /\ \A m \in DOMAIN J : J[m].idea = x => ~Tickets!Open(J[m])

LEMMA GoingOnKeeps ==
  ASSUME NEW I, NEW D, NEW n \in Nat, NEW k \in Nat, Sound(I, D, n, k),
         NEW J, ItemsTyped(J, n), CarriesOn(I, J),
         NEW E, IdeasTyped(E, n, k), DOMAIN E = DOMAIN D, \A x \in DOMAIN D : FitsOn(J, x, D[x], E[x])
  PROVE  Sound(J, E, n, k)
<1>1. ASSUME NEW x \in DOMAIN E PROVE Tickets!IdeaFits(J, x, E[x])
  <2>1. Tickets!IdeaFits(I, x, D[x]) /\ FitsOn(J, x, D[x], E[x])
    BY DEF Sound, Linked
  <2>2. D[x].status = "refining" => /\ I[D[x].refinement].idea = x /\ D[x].refinement \in DOMAIN I
    BY DEF Sound, Linked
  <2>3. CASE E[x] = D[x] /\ (D[x].status = "refining" => Tickets!Open(J[D[x].refinement]))
    BY <2>1, <2>2, <2>3 DEF CarriesOn, Tickets!IdeaFits
  <2>4. CASE /\ E[x].status = "proposed" /\ E[x].approved = 0 /\ E[x].refinement = D[x].refinement
             /\ E[x].source = D[x].source /\ \A m \in DOMAIN J : J[m].idea = x => ~Tickets!Open(J[m])
    <3>1. ~(E[x].refinement \in DOMAIN J /\ Tickets!Open(J[E[x].refinement]))
      BY <2>1, <2>2, <2>4 DEF CarriesOn, Tickets!IdeaFits
    <3>2. E[x].source \in DOMAIN J => Tickets!Answered(J[E[x].source]) /\ J[E[x].source].purpose # "refinement"
      BY <2>1, <2>4 DEF CarriesOn, Tickets!IdeaFits
    <3> QED BY <2>4, <3>1, <3>2 DEF Tickets!IdeaFits
  <2> QED BY <2>1, <2>3, <2>4 DEF FitsOn
<1>2. ASSUME NEW m \in DOMAIN J PROVE Tickets!TicketFits(E, m, J[m])
  <2> SUFFICES ASSUME Tickets!Open(J[m]), J[m].idea # 0
      PROVE  /\ J[m].idea \in DOMAIN E
             /\ J[m].purpose = "refinement" => E[J[m].idea].status = "refining" /\ E[J[m].idea].refinement = m
             /\ J[m].purpose # "refinement" => E[J[m].idea].status = "approved" /\ E[J[m].idea].approved = m
    BY DEF Tickets!TicketFits
  <2>1. Tickets!Open(I[m]) /\ J[m].idea = I[m].idea /\ J[m].purpose = I[m].purpose /\ m \in DOMAIN I
    BY DEF CarriesOn
  <2>2. Tickets!TicketFits(D, m, I[m])
    BY <2>1 DEF Sound, Linked
  <2>3. J[m].idea \in DOMAIN D
    BY <2>1, <2>2 DEF Tickets!TicketFits
  <2>4. E[J[m].idea] = D[J[m].idea]
    BY <2>3 DEF FitsOn
  <2> QED BY <2>1, <2>2, <2>3, <2>4 DEF Tickets!TicketFits
<1>3. ASSUME NEW x \in DOMAIN E, E[x].status = "refining"
      PROVE  /\ J[E[x].refinement].idea = x /\ J[E[x].refinement].purpose = "refinement"
             /\ E[x].refinement \in DOMAIN J
  <2>1. E[x] = D[x]
    BY <1>3 DEF FitsOn
  <2> QED BY <1>3, <2>1 DEF Sound, Linked, CarriesOn
<1>4. OneOpenEach(J)
  BY DEF Sound, OneOpenEach, CarriesOn
<1> QED BY <1>1, <1>2, <1>3, <1>4 DEF Sound, Linked

\* A refining idea belongs to its own ticket.
LEMMA RefiningFacts ==
  ASSUME NEW I, NEW D, NEW n \in Nat, NEW k \in Nat, Sound(I, D, n, k), NEW x \in DOMAIN D, D[x].status = "refining"
  PROVE  /\ D[x].refinement \in DOMAIN I /\ I[D[x].refinement].idea = x
         /\ I[D[x].refinement].purpose = "refinement" /\ Tickets!Open(I[D[x].refinement])
BY DEF Sound, Linked, Tickets!IdeaFits

\* Tickets that stay open leave ideas as they are.
LEMMA StayingOpenKeeps ==
  ASSUME NEW I, NEW D, NEW n \in Nat, NEW k \in Nat, Sound(I, D, n, k),
         NEW J, ItemsTyped(J, n), CarriesOn(I, J), \A m \in DOMAIN I : Tickets!Open(I[m]) => Tickets!Open(J[m])
  PROVE  Sound(J, D, n, k)
<1>1. \A x \in DOMAIN D : FitsOn(J, x, D[x], D[x])
  BY RefiningFacts DEF FitsOn
<1>2. IdeasTyped(D, n, k)
  BY DEF Sound
<1> QED BY <1>1, <1>2, GoingOnKeeps

\* A write of the cycle that changes neither ideas nor schedules and makes no ticket.
LEMMA MoveWritten ==
  ASSUME TicketInv, UNCHANGED <<made, now, seen>>, NEW I, Tickets!Persist(I, ideas, schedules),
         Sound(I, ideas, made.items, made.ideas), DOMAIN I = DOMAIN items
  PROVE  StoreInv' /\ Decisions /\ refused' = FALSE /\ items' = I
<1>1. /\ made \in [items : 0 .. MaxItems, ideas : Nat] /\ made.ideas <= made'.ideas /\ made' = made /\ StoreInv
      /\ Cardinality(DOMAIN I) <= ItemLimit /\ Cardinality(DOMAIN ideas) <= IdeaLimit /\ TimesFit(schedules, now)
  BY TicketFacts
<1>2. IdeasMove(ideas, ideas, made.ideas)
  BY DEF IdeasMove
<1>3. made' \in [items : 0 .. MaxItems, ideas : Nat] /\ Sound(I, ideas, made'.items, made'.ideas)
  BY <1>1
<1>4. StoreInv' /\ ideas' = ideas /\ refused' = FALSE /\ items' = I
  BY <1>1, <1>2, <1>3, Written
<1>5. NoneApproved(ideas, ideas')
  BY <1>4 DEF NoneApproved
<1> QED BY <1>4, <1>5, NoneApprovedDecides

\* A ticket in the terminal or at a review is still open wherever it goes there.
LEMMA MovedOn ==
  ASSUME TicketInv, NEW p \in DOMAIN items, Tickets!Open(items[p]),
         NEW at \in {"dispatching", "waiting", "unsent", "review", "boundary", "replaced"}
  PROVE  /\ Sound([items EXCEPT ![p].at = at], ideas, made.items, made.ideas)
         /\ DOMAIN [items EXCEPT ![p].at = at] = DOMAIN items
         /\ [items EXCEPT ![p].at = at][p].at = at
<1> DEFINE J == [items EXCEPT ![p].at = at]
<1>1. made.items \in Nat /\ made.ideas \in Nat /\ Sound(items, ideas, made.items, made.ideas)
  BY TicketFacts
<1>2. /\ ItemsTyped(J, made.items) /\ DOMAIN J = DOMAIN items /\ \A j \in DOMAIN items : j # p => J[j] = items[j]
      /\ J[p].at = at /\ J[p].idea = items[p].idea /\ J[p].purpose = items[p].purpose
      /\ J[p].schedule = items[p].schedule
  <2>1. ItemsTyped(items, made.items) /\ at \in TicketStates
    BY <1>1 DEF Sound, TicketStates
  <2> QED BY <1>1, <2>1, TicketMoves
<1> HIDE DEF J
<1>3. Tickets!Open(J[p]) /\ ~Tickets!Answered(items[p])
  BY <1>2 DEF Tickets!Open, Tickets!Answered
<1>4. CarriesOn(items, J) /\ \A m \in DOMAIN items : Tickets!Open(items[m]) => Tickets!Open(J[m])
  BY <1>2, <1>3 DEF CarriesOn
<1>5. Sound(J, ideas, made.items, made.ideas)
  BY <1>1, <1>2, <1>4, StayingOpenKeeps
<1> QED BY <1>2, <1>5 DEF J

\* The write of a ticket that goes on in its terminal, or to a review.
LEMMA MovedWritten ==
  ASSUME TicketInv, UNCHANGED <<made, now, seen>>, NEW p \in DOMAIN items, Tickets!Open(items[p]),
         NEW at \in {"dispatching", "waiting", "unsent", "review", "boundary", "replaced"},
         Tickets!Persist([items EXCEPT ![p].at = at], ideas, schedules)
  PROVE  /\ StoreInv' /\ Decisions /\ refused' = FALSE
         /\ DOMAIN items' = DOMAIN items /\ items'[p].at = at
<1> DEFINE J == [items EXCEPT ![p].at = at]
<1>1. Sound(J, ideas, made.items, made.ideas) /\ DOMAIN J = DOMAIN items /\ J[p].at = at
  BY MovedOn
<1>2. Tickets!Persist(J, ideas, schedules)
  OBVIOUS
<1> HIDE DEF J
<1> QED BY <1>1, <1>2, MoveWritten

\* A completion that is captured, of ticket p among I, does its idea and the proposals of its answer.
LEMMA ReconciledKeeps ==
  ASSUME TicketInv, NEW I,
         NEW p \in DOMAIN I, Tickets!Answered(I[p]), ~Tickets!Open(I[p]), I[p] \in TicketRecords,
         ItemsTyped(I, made.items), CarriesOn(items, I),
         \A m \in DOMAIN I : m # p /\ Tickets!Open(items[m]) => Tickets!Open(I[m]),
         NEW D \in Tickets!Reconciled(I, ideas, p), Tickets!Counted(D)
  PROVE  /\ made' \in [items : 0 .. MaxItems, ideas : Nat] /\ made'.items = made.items
         /\ made.ideas <= made'.ideas /\ Sound(I, D, made.items, made'.ideas)
         /\ Cardinality(DOMAIN D) <= IdeaLimit
         /\ IdeasMove(ideas, D, made.ideas) /\ NoneApproved(ideas, D)
<1> DEFINE i == I[p]
           freed == i.purpose = "refinement" /\ i.idea \in DOMAIN ideas
                      /\ ideas[i.idea].refinement = p /\ ideas[i.idea].status = "refining"
<1>1. /\ made.items \in Nat /\ made.ideas \in Nat /\ Sound(items, ideas, made.items, made.ideas)
      /\ made \in [items : 0 .. MaxItems, ideas : Nat] /\ p \in Nat /\ p <= made.items /\ DOMAIN I = DOMAIN items
  BY TicketFacts DEF ItemsTyped, CarriesOn
<1>2. ASSUME NEW x \in DOMAIN ideas, ideas[x].status = "refining", ~Tickets!Open(I[ideas[x].refinement])
      PROVE  freed /\ x = i.idea
  <2>1. /\ ideas[x].refinement \in DOMAIN items /\ items[ideas[x].refinement].idea = x
        /\ items[ideas[x].refinement].purpose = "refinement" /\ Tickets!Open(items[ideas[x].refinement])
    BY <1>1, <1>2, RefiningFacts
  <2>2. ideas[x].refinement = p
    BY <1>1, <1>2, <2>1
  <2> QED BY <1>1, <1>2, <2>1, <2>2 DEF CarriesOn
<1>3. CASE freed
  <2> DEFINE d == [ideas[i.idea] EXCEPT !.status = "proposed", !.text = p]
             e == Tickets!Revised(d)
  <2>1. i.idea \in DOMAIN ideas /\ ideas[i.idea] \in IdeaRecords /\ ideas[i.idea].refinement = p
    BY <1>1, <1>3, LinkedFacts
  <2>2. ideas[i.idea].approved = 0
    BY <1>1, <1>3 DEF Sound, Linked, Tickets!IdeaFits
  <2>3. D = [ideas EXCEPT ![i.idea] = e]
    BY <1>3 DEF Tickets!Reconciled
  <2>4. /\ d \in IdeaRecords /\ d.status = "proposed" /\ d.refinement = p /\ d.rev = ideas[i.idea].rev
        /\ d.approved = ideas[i.idea].approved /\ d.source = ideas[i.idea].source
    BY <1>1, <2>1 DEF IdeaRecords
  <2> HIDE DEF d
  <2>5. /\ e \in IdeaRecords /\ e.status = "proposed" /\ e.refinement = p
        /\ e.approved = ideas[i.idea].approved /\ e.source = ideas[i.idea].source /\ e.rev > ideas[i.idea].rev
    BY <2>4, RevisedFacts
  <2> HIDE DEF e
  <2>6. /\ D \in [DOMAIN ideas -> IdeaRecords] /\ DOMAIN D = DOMAIN ideas /\ D[i.idea] = e
        /\ \A x \in DOMAIN ideas : x # i.idea => D[x] = ideas[x]
    BY <1>1, <2>1, <2>3, <2>5 DEF Sound, IdeasTyped
  <2>7. IdeasTyped(D, made.items, made.ideas)
    BY <1>1, <2>1, <2>5, <2>6 DEF Sound, IdeasTyped
  <2>8. ASSUME NEW x \in DOMAIN ideas PROVE FitsOn(I, x, ideas[x], D[x])
    <3>1. CASE x = i.idea
      <4>1. \A m \in DOMAIN I : I[m].idea = x => ~Tickets!Open(I[m])
        <5> SUFFICES ASSUME NEW m \in DOMAIN I, I[m].idea = x, Tickets!Open(I[m]) PROVE FALSE
          OBVIOUS
        <5>1. Tickets!Open(items[m]) /\ items[m].idea = x /\ m \in DOMAIN items
          BY DEF CarriesOn
        <5>2. x # 0
          BY <1>1 DEF Sound, IdeasTyped
        <5>3. ideas[x].refinement = m
          BY <1>1, <1>3, <3>1, <5>1, <5>2 DEF Sound, Linked, Tickets!TicketFits
        <5> QED BY <2>1, <3>1, <5>3
      <4> QED BY <2>1, <2>2, <2>5, <2>6, <3>1, <4>1 DEF FitsOn
    <3>2. CASE x # i.idea
      BY <1>2, <2>6, <3>2 DEF FitsOn
    <3> QED BY <3>1, <3>2
  <2>9. Sound(I, D, made.items, made.ideas)
    BY <1>1, <2>6, <2>7, <2>8, GoingOnKeeps
  <2>10. made' = made
    <3>1. made.ideas + 1 \notin DOMAIN D
      BY <1>1, <2>7 DEF IdeasTyped
    <3> QED BY <1>1, <3>1 DEF Tickets!Counted
  <2>11. IdeasMove(ideas, D, made.ideas) /\ NoneApproved(ideas, D)
    BY <2>5, <2>6 DEF IdeasMove, NoneApproved
  <2> QED BY <1>1, <2>6, <2>9, <2>10, <2>11, TicketFacts
<1>4. CASE ~freed
  <2>1. \A x \in DOMAIN ideas : FitsOn(I, x, ideas[x], ideas[x])
    BY <1>2, <1>4 DEF FitsOn
  <2>2. IdeasTyped(ideas, made.items, made.ideas)
    BY <1>1 DEF Sound
  <2>3. Sound(I, ideas, made.items, made.ideas)
    BY <1>1, <2>1, <2>2, GoingOnKeeps
  <2>4. CASE i.purpose = "refinement"
    <3>1. D = ideas
      BY <1>4, <2>4 DEF Tickets!Reconciled
    <3>2. made' = made
      <4>1. made.ideas + 1 \notin DOMAIN D
        BY <1>1, <2>2, <3>1 DEF IdeasTyped
      <4> QED BY <1>1, <4>1 DEF Tickets!Counted
    <3>3. IdeasMove(ideas, D, made.ideas) /\ NoneApproved(ideas, D)
      BY <3>1 DEF IdeasMove, NoneApproved
    <3> QED BY <1>1, <2>3, <3>1, <3>2, <3>3, TicketFacts
  <2>5. CASE i.purpose # "refinement"
    <3>1. D \in Tickets!Proposed(I, ideas, i.title, p, i.session)
      BY <2>5 DEF Tickets!Reconciled
    <3>2. i.title \in Titles \cup {Tickets!NoTitle} /\ i.session \in Sessions \cup {Tickets!NoOne}
      BY DEF TicketRecords
    <3>3. p \in DOMAIN I => Tickets!Answered(I[p]) /\ I[p].purpose # "refinement"
      BY <2>5
    <3> QED BY <1>1, <2>3, <3>1, <3>2, <3>3, ProposedKeeps
  <2> QED BY <2>4, <2>5
<1> QED BY <1>3, <1>4

LEMMA CaptureStep ==
  ASSUME Footers, TicketInv, UNCHANGED <<now, seen>>, NEW p \in DOMAIN items, Tickets!CaptureCompletion(p)
  PROVE  StoreInv' /\ Decisions
<1>1. /\ made.items \in Nat /\ made.ideas \in Nat /\ Sound(items, ideas, made.items, made.ideas)
      /\ items[p] \in TicketRecords /\ ItemsTyped(items, made.items)
  <2>1. made.items \in Nat /\ made.ideas \in Nat /\ Sound(items, ideas, made.items, made.ideas)
    BY TicketFacts
  <2> QED BY <2>1, LinkedFacts DEF Sound
<1>2. items[p].at \in {"waiting", "boundary"} /\ Tickets!Open(items[p])
  BY DEF Tickets!CaptureCompletion, Tickets!Open
<1>3. ASSUME NEW at \in Captures, NEW title \in Titles \cup {Tickets!NoTitle},
             NEW D \in Tickets!Reconciled([items EXCEPT ![p] = [items[p] EXCEPT !.at = at, !.title = title]], ideas, p),
             Tickets!Persist([items EXCEPT ![p] = [items[p] EXCEPT !.at = at, !.title = title]], D, schedules),
             Tickets!Counted(D)
      PROVE  StoreInv' /\ Decisions
  <2> DEFINE t == [items[p] EXCEPT !.at = at, !.title = title]
             I == [items EXCEPT ![p] = t]
  <2>1. at \in {"captured", "returned"} /\ at \in TicketStates
    BY TicketBounds DEF Footers, TicketStates
  <2>2. /\ t \in TicketRecords /\ t.at = at /\ t.idea = items[p].idea /\ t.purpose = items[p].purpose
        /\ t.schedule = items[p].schedule
    BY <1>1, <2>1 DEF TicketRecords
  <2> HIDE DEF t
  <2>3. /\ I \in [DOMAIN items -> TicketRecords] /\ DOMAIN I = DOMAIN items /\ I[p] = t
        /\ \A m \in DOMAIN items : m # p => I[m] = items[m]
    BY <1>1, <2>2 DEF ItemsTyped
  <2> HIDE DEF I
  <2>4. Tickets!Answered(I[p]) /\ ~Tickets!Open(I[p]) /\ ItemsTyped(I, made.items) /\ I[p] \in TicketRecords
    BY <1>1, <2>1, <2>2, <2>3 DEF Tickets!Answered, Tickets!Open, ItemsTyped
  <2>5. CarriesOn(items, I)
    BY <1>2, <2>2, <2>3, <2>4 DEF CarriesOn
  <2>6. \A m \in DOMAIN I : m # p /\ Tickets!Open(items[m]) => Tickets!Open(I[m])
    BY <2>3
  <2>7. D \in Tickets!Reconciled(I, ideas, p) /\ Tickets!Persist(I, D, schedules)
    BY <1>3 DEF I, t
  <2>8. /\ made' \in [items : 0 .. MaxItems, ideas : Nat] /\ made'.items = made.items
        /\ made.ideas <= made'.ideas /\ Sound(I, D, made.items, made'.ideas)
        /\ Cardinality(DOMAIN D) <= IdeaLimit
        /\ IdeasMove(ideas, D, made.ideas) /\ NoneApproved(ideas, D)
    BY <1>1, <1>3, <2>3, <2>4, <2>5, <2>6, <2>7, ReconciledKeeps
  <2>9. StoreInv' /\ ideas' = D
    <3>1. StoreInv /\ TimesFit(schedules, now) /\ Cardinality(DOMAIN I) <= ItemLimit
      BY <2>3, TicketFacts
    <3>2. Sound(I, D, made'.items, made'.ideas)
      BY <2>8
    <3> QED BY <2>7, <2>8, <3>1, <3>2, Written
  <2> QED BY <2>8, <2>9, NoneApprovedDecides
<1>4. ASSUME NEW at \in {"review", "boundary", "replaced"}, UNCHANGED made,
             Tickets!Persist([items EXCEPT ![p].at = at], ideas, schedules)
      PROVE  StoreInv' /\ Decisions
  BY <1>2, <1>4, MovedWritten
<1> QED BY <1>3, <1>4 DEF Tickets!CaptureCompletion

LEMMA CaptureCompletionsStep ==
  ASSUME Footers, TicketInv, Tickets!CaptureCompletions
  PROVE  TicketInv' /\ Decisions
<1>1. UNCHANGED <<now, seen, up>> /\ StoreInv /\ PhaseInv
  BY TicketFacts DEF Tickets!CaptureCompletions, Tickets!InCycle
<1>2. CASE (\E p \in DOMAIN items : Tickets!CaptureCompletion(p)) /\ Tickets!WrittenThenGoto("misrouted")
  <2>1. StoreInv' /\ Decisions
    BY <1>1, <1>2, CaptureStep
  <2>2. phase' = Tickets!Resting \/ phase' = [phase EXCEPT !.at = "misrouted"]
    BY <1>2 DEF Tickets!WrittenThenGoto
  <2>3. PhaseInv'
    BY <1>1, <2>2, CyclePhase
  <2> QED BY <2>1, <2>3 DEF TicketInv
<1>3. CASE Tickets!NothingWritten /\ Tickets!Goto("misrouted")
  <2>1. UNCHANGED <<items, ideas, schedules, made, refused>> /\ phase' = [phase EXCEPT !.at = "misrouted"]
    BY <1>3 DEF Tickets!NothingWritten, Tickets!Goto, Tickets!store
  <2>2. StoreInv' /\ Decisions
    BY <1>1, <2>1, UnwrittenKeeps
  <2>3. PhaseInv'
    BY <1>1, <2>1, CyclePhase
  <2> QED BY <2>2, <2>3 DEF TicketInv
<1> QED BY <1>2, <1>3 DEF Tickets!CaptureCompletions

\* Tickets of an older version that would go to the wrong project end, and their ideas wait again.
LEMMA RejectMisroutedStep ==
  ASSUME TicketInv, Tickets!RejectMisrouted
  PROVE  TicketInv' /\ Decisions
<1> DEFINE W == Tickets!Wrong
           I == [n \in DOMAIN items |-> IF n \in W THEN [items[n] EXCEPT !.at = "canceled"] ELSE items[n]]
           D == [x \in DOMAIN ideas |->
                   IF \E n \in W : items[n].idea = x
                   THEN Tickets!Revised([ideas[x] EXCEPT !.status = "proposed", !.approved = 0]) ELSE ideas[x]]
<1>1. /\ UNCHANGED <<now, seen, up, made>> /\ StoreInv /\ PhaseInv
      /\ made.items \in Nat /\ made.ideas \in Nat /\ Sound(items, ideas, made.items, made.ideas)
      /\ made \in [items : 0 .. MaxItems, ideas : Nat] /\ ItemsTyped(items, made.items)
  BY TicketFacts DEF Tickets!RejectMisrouted, Tickets!InCycle, Sound
<1>2. PICK J \in Tickets!TrimmedItems(I) : Tickets!Persist(J, D, schedules)
  BY DEF Tickets!RejectMisrouted
<1>3. /\ W \subseteq DOMAIN items
      /\ \A n \in W : items[n].at = "queued" /\ Tickets!Open(items[n])
  BY DEF Tickets!Wrong, Tickets!Misrouted, Tickets!Open
<1> HIDE DEF W
<1>4. ASSUME NEW n \in DOMAIN items
      PROVE  /\ I[n] \in TicketRecords /\ I[n].idea = items[n].idea /\ I[n].purpose = items[n].purpose
             /\ I[n].schedule = items[n].schedule
             /\ Tickets!Open(I[n]) => n \notin W /\ Tickets!Open(items[n])
             /\ n \notin W => I[n] = items[n]
             /\ Tickets!Answered(items[n]) => Tickets!Answered(I[n])
  <2>1. items[n] \in TicketRecords
    BY <1>1, LinkedFacts
  <2>2. CASE n \in W
    <3>1. I[n] = [items[n] EXCEPT !.at = "canceled"]
      BY <2>2
    <3> HIDE DEF I
    <3>2. /\ I[n] \in TicketRecords /\ I[n].at = "canceled" /\ I[n].idea = items[n].idea
          /\ I[n].purpose = items[n].purpose /\ I[n].schedule = items[n].schedule
      BY <2>1, <3>1 DEF TicketRecords, TicketStates
    <3>3. items[n].at = "queued"
      BY <1>3, <2>2
    <3> QED BY <2>2, <3>2, <3>3 DEF Tickets!Open, Tickets!Answered
  <2>3. CASE n \notin W
    BY <2>1, <2>3
  <2> QED BY <2>2, <2>3
<1>5. ASSUME NEW x \in DOMAIN ideas
      PROVE  /\ D[x] \in IdeaRecords /\ D[x].refinement = ideas[x].refinement /\ D[x].source = ideas[x].source
             /\ \/ D[x] = ideas[x] /\ ~\E n \in W : items[n].idea = x
                \/ /\ D[x].status = "proposed" /\ D[x].approved = 0 /\ D[x].rev > ideas[x].rev
                   /\ \E n \in W : items[n].idea = x
  <2>1. ideas[x] \in IdeaRecords
    BY <1>1, LinkedFacts
  <2>2. CASE \E n \in W : items[n].idea = x
    <3> DEFINE d == [ideas[x] EXCEPT !.status = "proposed", !.approved = 0]
    <3>1. /\ d \in IdeaRecords /\ d.status = "proposed" /\ d.approved = 0 /\ d.refinement = ideas[x].refinement
          /\ d.source = ideas[x].source /\ d.rev = ideas[x].rev
      BY <2>1 DEF IdeaRecords
    <3>2. D[x] = Tickets!Revised(d)
      BY <2>2
    <3> HIDE DEF d, D
    <3> QED BY <2>2, <3>1, <3>2, RevisedFacts
  <2>3. CASE ~\E n \in W : items[n].idea = x
    BY <2>1, <2>3
  <2> QED BY <2>2, <2>3
<1>6. DOMAIN I = DOMAIN items /\ I \in [DOMAIN items -> TicketRecords]
  BY <1>4
<1>7. DOMAIN D = DOMAIN ideas /\ D \in [DOMAIN ideas -> IdeaRecords]
  BY <1>5
<1> HIDE DEF I, D
<1>8. ItemsTyped(I, made.items) /\ CarriesOn(items, I)
  BY <1>1, <1>4, <1>6 DEF ItemsTyped, CarriesOn
<1>9. IdeasTyped(D, made.items, made.ideas)
  <2>1. \A x \in DOMAIN ideas : /\ D[x].refinement <= made.items /\ D[x].approved <= made.items
                                /\ D[x].source <= made.items \/ D[x].source > MaxItems
    BY <1>1, <1>5 DEF Sound, IdeasTyped
  <2> QED BY <1>1, <1>7, <2>1 DEF Sound, IdeasTyped
<1>10. ASSUME NEW x \in DOMAIN ideas PROVE FitsOn(I, x, ideas[x], D[x])
  <2>1. CASE D[x] = ideas[x] /\ ~\E n \in W : items[n].idea = x
    <3>1. ideas[x].status = "refining" => Tickets!Open(I[ideas[x].refinement])
      <4> SUFFICES ASSUME ideas[x].status = "refining" PROVE Tickets!Open(I[ideas[x].refinement])
        OBVIOUS
      <4>1. /\ ideas[x].refinement \in DOMAIN items /\ items[ideas[x].refinement].idea = x
            /\ Tickets!Open(items[ideas[x].refinement])
        BY <1>1, RefiningFacts
      <4>2. ideas[x].refinement \notin W
        BY <2>1, <4>1
      <4> QED BY <1>4, <4>1, <4>2
    <3> QED BY <2>1, <3>1 DEF FitsOn
  <2>2. CASE /\ D[x].status = "proposed" /\ D[x].approved = 0 /\ \E n \in W : items[n].idea = x
    <3>1. PICK n \in W : items[n].idea = x
      BY <2>2
    <3>2. \A m \in DOMAIN I : I[m].idea = x => ~Tickets!Open(I[m])
      <4> SUFFICES ASSUME NEW m \in DOMAIN I, I[m].idea = x, Tickets!Open(I[m]) PROVE FALSE
        OBVIOUS
      <4>1. m \notin W /\ Tickets!Open(items[m]) /\ items[m].idea = x /\ m \in DOMAIN items
        BY <1>4, <1>6
      <4>2. Tickets!Open(items[n]) /\ n \in DOMAIN items
        BY <1>3
      <4>3. x # 0
        BY <1>1 DEF Sound, IdeasTyped
      <4>4. Tickets!TicketFits(ideas, n, items[n]) /\ Tickets!TicketFits(ideas, m, items[m])
        BY <1>1, <4>1, <4>2 DEF Sound, Linked
      <4>5. n = m
        BY <3>1, <4>1, <4>2, <4>3, <4>4 DEF Tickets!TicketFits
      <4> QED BY <4>1, <4>5
    <3> QED BY <1>5, <2>2, <3>2 DEF FitsOn
  <2> QED BY <1>5, <2>1, <2>2
<1>11. Sound(I, D, made.items, made.ideas)
  BY <1>1, <1>7, <1>8, <1>9, <1>10, GoingOnKeeps
<1>12. Sound(J, D, made.items, made.ideas) /\ DOMAIN J \subseteq DOMAIN items
  BY <1>1, <1>2, <1>6, <1>11, TrimKeepsSound
<1>13. Cardinality(DOMAIN J) <= ItemLimit
  <2>1. Cardinality(DOMAIN J) \in Nat /\ Cardinality(DOMAIN J) <= Cardinality(DOMAIN items)
    BY <1>1, <1>12, RoomFacts DEF ItemsTyped
  <2> QED BY <2>1, TicketFacts
<1>14. IdeasMove(ideas, D, made.ideas) /\ NoneApproved(ideas, D)
  BY <1>5, <1>7 DEF IdeasMove, NoneApproved
<1>15. StoreInv' /\ ideas' = D
  <2>1. TimesFit(schedules, now) /\ Cardinality(DOMAIN D) <= IdeaLimit
    BY <1>7, TicketFacts
  <2>2. /\ made' \in [items : 0 .. MaxItems, ideas : Nat] /\ made.ideas <= made'.ideas
        /\ Sound(J, D, made'.items, made'.ideas)
    BY <1>1, <1>12
  <2> QED BY <1>1, <1>2, <1>13, <1>14, <2>1, <2>2, Written
<1>16. PhaseInv'
  <2>1. phase' = Tickets!Resting \/ phase' = [phase EXCEPT !.at = "misrouted"]
    BY DEF Tickets!RejectMisrouted, Tickets!WrittenThenGoto
  <2> QED BY <1>1, <2>1, CyclePhase
<1> QED BY <1>14, <1>15, <1>16, NoneApprovedDecides DEF TicketInv

\* The cycle takes up a ticket, or has none to take up.
LEMMA ClaimStep ==
  ASSUME TicketInv, Tickets!Claim
  PROVE  TicketInv' /\ Decisions
<1>1. UNCHANGED <<now, seen, up, made>> /\ StoreInv /\ PhaseInv
  BY TicketFacts DEF Tickets!Claim, Tickets!InCycle
<1>2. ASSUME NEW p \in Tickets!Heads, Tickets!Persist([items EXCEPT ![p].at = "dispatching"], ideas, schedules),
             phase' = IF refused' THEN Tickets!Resting ELSE [at |-> "typing", item |-> p]
      PROVE  TicketInv' /\ Decisions
  <2>1. p \in DOMAIN items /\ Tickets!Open(items[p])
    BY DEF Tickets!Heads
  <2>2. /\ StoreInv' /\ Decisions /\ refused' = FALSE
        /\ DOMAIN items' = DOMAIN items /\ items'[p].at = "dispatching"
    BY <1>1, <1>2, <2>1, MovedWritten
  <2>3. PhaseInv'
    BY <1>1, <1>2, <2>1, <2>2 DEF PhaseInv
  <2> QED BY <2>2, <2>3 DEF TicketInv
<1>3. CASE Tickets!Rest /\ UNCHANGED <<Tickets!store, refused>>
  <2>1. UNCHANGED <<items, ideas, schedules, refused>> /\ phase' = Tickets!Resting
    BY <1>3 DEF Tickets!Rest, Tickets!store
  <2>2. StoreInv' /\ Decisions
    BY <1>1, <2>1, UnwrittenKeeps
  <2>3. PhaseInv'
    BY <1>1, <2>1, CyclePhase
  <2> QED BY <2>2, <2>3 DEF TicketInv
<1> QED BY <1>2, <1>3 DEF Tickets!Claim

LEMMA TypedStep ==
  ASSUME TicketInv, Tickets!Typed
  PROVE  TicketInv' /\ Decisions
<1>1. UNCHANGED <<now, seen, up, made>> /\ phase.at = "typing" /\ phase' = Tickets!Resting /\ StoreInv /\ PhaseInv
  BY TicketFacts DEF Tickets!Typed, Tickets!InCycle, Tickets!Rest
<1>2. PICK at \in {"waiting", "unsent", "review"} :
        Tickets!Persist([items EXCEPT ![phase.item].at = at], ideas, schedules)
  BY DEF Tickets!Typed
<1>3. phase.item \in DOMAIN items /\ Tickets!Open(items[phase.item])
  BY <1>1 DEF PhaseInv, Tickets!Open
<1>4. StoreInv' /\ Decisions
  BY <1>1, <1>2, <1>3, MovedWritten
<1>5. PhaseInv'
  BY <1>1, CyclePhase
<1> QED BY <1>4, <1>5 DEF TicketInv

LEMMA TickStep ==
  ASSUME TicketInv, Tickets!Tick
  PROVE  TicketInv' /\ Decisions
<1>1. UNCHANGED <<items, ideas, schedules, made, phase, seen, up, refused>> /\ now' = now + 1
  BY DEF Tickets!Tick, Tickets!store
<1>2. TimesFit(schedules, now) /\ now \in Nat \ {0} /\ StoreInv /\ PhaseInv
  BY TicketFacts
<1>3. TimesFit(schedules, now + 1)
  BY <1>2 DEF TimesFit, ScheduleRecords
<1>4. TimesFit(schedules, now)'
  BY <1>1, <1>3 DEF TimesFit, ScheduleRecords, Tickets!ScheduleFits
<1>5. Sound(items, ideas, made.items, made.ideas)'
  BY <1>1, <1>2
     DEF StoreInv, Sound, ItemsTyped, IdeasTyped, Linked, OneOpenEach, TicketRecords, TicketStates, Purposes,
         IdeaRecords, Tickets!IdeaFits, Tickets!TicketFits, Tickets!Open, Tickets!Final, Tickets!Answered
<1>6. SeenFits(ideas, made.ideas)'
  BY <1>1, <1>2 DEF StoreInv, SeenFits
<1>7. now' \in Nat \ {0}
  BY <1>1, <1>2
<1>8. StoreInv'
  BY <1>1, <1>2, <1>4, <1>5, <1>6, <1>7 DEF StoreInv
<1> QED BY <1>1, <1>2, <1>8 DEF TicketInv, PhaseInv, Decisions

\* What a restart works out is written, so that the server starts.
LEMMA RestartStep ==
  ASSUME TicketInv, Tickets!Restart
  PROVE  TicketInv' /\ Decisions
<1> DEFINE I == [n \in DOMAIN items |-> Tickets!Reopened(items[n])]
           answered == {n \in DOMAIN I : Tickets!Answered(I[n])}
           results == UNION {Tickets!Reconciled(I, ideas, n) : n \in answered}
<1>1. /\ UNCHANGED <<now, seen>> /\ phase' = Tickets!Resting /\ up' = ~refused'
      /\ StoreInv /\ TimesFit(schedules, now)
      /\ made.items \in Nat /\ made.ideas \in Nat /\ Sound(items, ideas, made.items, made.ideas)
      /\ made \in [items : 0 .. MaxItems, ideas : Nat] /\ ItemsTyped(items, made.items)
  BY TicketFacts DEF Tickets!Restart, Sound
<1>2. PICK D \in IF results = {} THEN {ideas} ELSE results :
        Tickets!Persist(I, D, schedules) /\ Tickets!Counted(D)
  BY DEF Tickets!Restart
<1>3. ASSUME NEW n \in DOMAIN items
      PROVE  /\ I[n] \in TicketRecords /\ I[n].idea = items[n].idea /\ I[n].purpose = items[n].purpose
             /\ I[n].schedule = items[n].schedule
             /\ Tickets!Open(I[n]) <=> Tickets!Open(items[n])
             /\ Tickets!Answered(items[n]) => Tickets!Answered(I[n])
  <2>1. items[n] \in TicketRecords /\ items[n].at # "bare"
    BY <1>1, LinkedFacts DEF TicketStates
  <2>2. CASE items[n].at = "dispatching"
    <3>1. I[n] = [items[n] EXCEPT !.at = "review"]
      BY <2>2 DEF Tickets!Reopened
    <3> HIDE DEF I
    <3>2. /\ I[n] \in TicketRecords /\ I[n].at = "review" /\ I[n].idea = items[n].idea
          /\ I[n].purpose = items[n].purpose /\ I[n].schedule = items[n].schedule
      BY <2>1, <3>1 DEF TicketRecords, TicketStates
    <3> QED BY <2>2, <3>2 DEF Tickets!Open, Tickets!Answered
  <2>3. CASE items[n].at # "dispatching"
    <3>1. I[n] = items[n]
      BY <2>1, <2>3 DEF Tickets!Reopened
    <3> HIDE DEF I
    <3> QED BY <2>1, <3>1
  <2> QED BY <2>2, <2>3
<1>4. DOMAIN I = DOMAIN items /\ I \in [DOMAIN items -> TicketRecords]
  BY <1>3
<1> HIDE DEF I
<1>5. ItemsTyped(I, made.items) /\ CarriesOn(items, I) /\ \A m \in DOMAIN items : Tickets!Open(items[m]) => Tickets!Open(I[m])
  BY <1>1, <1>3, <1>4 DEF ItemsTyped, CarriesOn
<1>6. /\ made' \in [items : 0 .. MaxItems, ideas : Nat] /\ made'.items = made.items
      /\ made.ideas <= made'.ideas /\ Sound(I, D, made.items, made'.ideas)
      /\ Cardinality(DOMAIN D) <= IdeaLimit
      /\ IdeasMove(ideas, D, made.ideas) /\ NoneApproved(ideas, D)
  <2>1. CASE results = {}
    <3>1. D = ideas
      BY <1>2, <2>1
    <3>2. made' = made
      <4>1. made.ideas + 1 \notin DOMAIN D
        BY <1>1, <3>1 DEF Sound, IdeasTyped
      <4> QED BY <1>1, <1>2, <4>1 DEF Tickets!Counted
    <3>3. Sound(I, ideas, made.items, made.ideas)
      BY <1>1, <1>5, StayingOpenKeeps
    <3>4. IdeasMove(ideas, D, made.ideas) /\ NoneApproved(ideas, D)
      BY <3>1 DEF IdeasMove, NoneApproved
    <3> QED BY <1>1, <3>1, <3>2, <3>3, <3>4, TicketFacts
  <2>2. CASE results # {}
    <3>1. PICK p \in answered : D \in Tickets!Reconciled(I, ideas, p)
      BY <1>2, <2>2
    <3>2. p \in DOMAIN I /\ Tickets!Answered(I[p]) /\ I[p] \in TicketRecords
      BY <1>3, <1>4, <3>1
    <3>3. ~Tickets!Open(I[p])
      BY <3>2, OpenStates
    <3>4. \A m \in DOMAIN I : m # p /\ Tickets!Open(items[m]) => Tickets!Open(I[m])
      BY <1>4, <1>5
    <3> HIDE DEF results, answered
    <3> QED BY <1>2, <1>5, <3>1, <3>2, <3>3, <3>4, ReconciledKeeps
  <2> QED BY <2>1, <2>2
<1>7. StoreInv' /\ ideas' = D /\ refused' = FALSE
  <2>1. Cardinality(DOMAIN I) <= ItemLimit /\ Sound(I, D, made'.items, made'.ideas)
    BY <1>4, <1>6, TicketFacts
  <2> QED BY <1>1, <1>2, <1>6, <2>1, Written
<1>8. PhaseInv'
  BY <1>1, <1>7 DEF PhaseInv, Tickets!Resting
<1> QED BY <1>6, <1>7, <1>8, NoneApprovedDecides DEF TicketInv

---------------------------------------------------------------------------
\* Every step keeps the store fitting, and what is approved is what was seen.
LEMMA TicketSteps ==
  ASSUME Footers, InTime, TicketInv, [Tickets!Next]_(Tickets!vars)
  PROVE  TicketInv' /\ Decisions
<1>1. CASE Tickets!Request
  <2>1. ASSUME NEW t \in Titles, Tickets!CreateIdea(t) PROVE TicketInv' /\ Decisions
    BY <2>1, CreateIdeaStep
  <2>2. ASSUME NEW t \in Titles, NEW n \in 1 .. MaxItems, Tickets!ImportIdeas(n, t) PROVE TicketInv' /\ Decisions
    BY <2>2, ImportIdeasStep
  <2>3. ASSUME NEW x \in 1 .. MaxIdeas, Tickets!Reject(x) PROVE TicketInv' /\ Decisions
    BY <2>3, RejectStep
  <2>4. ASSUME NEW x \in 1 .. MaxIdeas, Tickets!LookAt(x) PROVE TicketInv' /\ Decisions
    BY <2>4, LookAtStep
  <2>5. ASSUME NEW x \in 1 .. MaxIdeas, NEW s \in Sessions, Tickets!Approve(x, s) \/ Tickets!Refine(x, s)
        PROVE  TicketInv' /\ Decisions
    BY <2>5, QueueStep
  <2>6. ASSUME NEW n \in 1 .. MaxItems, Tickets!Cancel(n) \/ Tickets!Dismiss(n) \/ Tickets!Release(n)
        PROVE  TicketInv' /\ Decisions
    BY <2>6, EndSteps
  <2>7. ASSUME NEW n \in 1 .. MaxItems, Tickets!Requeue(n) PROVE TicketInv' /\ Decisions
    BY <2>7, RequeueStep
  <2>8. ASSUME NEW k \in Schedules,
               \/ Tickets!PauseSchedule(k) \/ Tickets!ResumeSchedule(k)
               \/ Tickets!RetargetSchedule(k) \/ Tickets!DeleteSchedule(k)
        PROVE  TicketInv' /\ Decisions
    BY <2>8, ScheduleSteps
  <2>9. ASSUME NEW k \in Schedules, Tickets!QueueNow(k) PROVE TicketInv' /\ Decisions
    BY <2>9, QueueNowStep
  <2>10. ASSUME NEW k \in Schedules, NEW s \in Sessions, Tickets!CreateSchedule(k, s) PROVE TicketInv' /\ Decisions
    BY <2>10, CreateScheduleStep
  <2> QED BY <1>1, <2>1, <2>2, <2>3, <2>4, <2>5, <2>6, <2>7, <2>8, <2>9, <2>10 DEF Tickets!Request
<1>2. CASE Tickets!Cycle
  BY <1>2, EnqueueDueStep, CaptureCompletionsStep, RejectMisroutedStep, ClaimStep, TypedStep DEF Tickets!Cycle
<1>3. CASE Tickets!Tick
  BY <1>3, TickStep
<1>4. CASE Tickets!Restart
  BY <1>4, RestartStep
<1>5. CASE UNCHANGED Tickets!vars
  <2>1. UNCHANGED <<items, ideas, schedules, made, now, phase, seen, up, refused>>
    BY <1>5 DEF Tickets!vars
  <2>2. StoreInv' /\ Decisions
    BY <2>1, UnwrittenKeeps DEF TicketInv
  <2> QED BY <2>1, <2>2 DEF TicketInv, PhaseInv
<1> QED BY <1>1, <1>2, <1>3, <1>4, <1>5 DEF Tickets!Next

\* The first store is empty, or holds one approved idea and its ticket.
LEMMA TicketBegins ==
  ASSUME Tickets!Init PROVE TicketInv
<1>1. /\ schedules = <<>> /\ now = 1 /\ phase = Tickets!Resting /\ up = TRUE /\ refused = FALSE
      /\ seen = [x \in 1 .. MaxIdeas |-> [rev |-> 0, text |-> 0]]
  BY DEF Tickets!Init
<1>2. DOMAIN <<>> = {}
  BY EmptySeq
<1>3. TimesFit(schedules, now)
  BY <1>1, <1>2 DEF TimesFit
<1>4. PhaseInv
  BY <1>1 DEF PhaseInv, Tickets!Resting
<1>5. seen \in [1 .. MaxIdeas -> [rev : Nat, text : Nat]] /\ \A x \in 1 .. MaxIdeas : seen[x].rev = 0
  BY <1>1
<1>6. CASE items = <<>> /\ ideas = <<>> /\ made = [items |-> 0, ideas |-> 0]
  <2>1. /\ made \in [items : 0 .. MaxItems, ideas : Nat] /\ made.items = 0 /\ made.ideas = 0
        /\ DOMAIN items = {} /\ DOMAIN ideas = {}
    BY <1>2, <1>6, TicketBounds
  <2>2. Sound(items, ideas, made.items, made.ideas)
    BY <1>2, <1>6, <2>1 DEF Sound, ItemsTyped, IdeasTyped, Linked, OneOpenEach
  <2>3. Cardinality(DOMAIN items) <= ItemLimit /\ Cardinality(DOMAIN ideas) <= IdeaLimit
    BY <2>1, FS_EmptySet, TicketBounds
  <2>4. SeenFits(ideas, made.ideas)
    BY <1>5, <2>1 DEF SeenFits
  <2> QED BY <1>1, <1>3, <1>4, <1>5, <2>1, <2>2, <2>3, <2>4 DEF TicketInv, StoreInv
<1>7. ASSUME NEW s \in Sessions, NEW w \in Sessions, NEW title \in Titles,
             items = <<Tickets!Ticket(s, 1, "approved", 0)>>,
             ideas = <<[Tickets!Idea(title, MaxItems + 1, w) EXCEPT !.status = "approved", !.approved = 1]>>,
             made = [items |-> 1, ideas |-> 1]
      PROVE  TicketInv
  <2> DEFINE t == Tickets!Ticket(s, 1, "approved", 0)
             i == Tickets!Idea(title, MaxItems + 1, w)
             d == [i EXCEPT !.status = "approved", !.approved = 1]
  <2>1. /\ t \in TicketRecords /\ t.at = "queued" /\ t.idea = 1 /\ t.purpose = "approved"
        /\ t.schedule = Tickets!NoSchedule
    BY TicketRecordFacts DEF Purposes
  <2>2. MaxItems \in Nat \ {0} /\ MaxItems + 1 \in Nat
    BY TicketBounds
  <2>3. /\ i \in IdeaRecords /\ i.status = "proposed" /\ i.refinement = 0 /\ i.approved = 0 /\ i.source = MaxItems + 1
    BY <2>2 DEF Tickets!Idea, IdeaRecords
  <2> HIDE DEF t, i
  <2>4. /\ d \in IdeaRecords /\ d.status = "approved" /\ d.refinement = 0 /\ d.approved = 1 /\ d.source = MaxItems + 1
        /\ d.rev \in Nat \ {0}
    BY <2>3 DEF IdeaRecords
  <2>5. items = <<t>> /\ ideas = <<d>>
    BY <1>7 DEF t, i
  <2> HIDE DEF d
  <2>6. DOMAIN items = {1} /\ items[1] = t /\ DOMAIN ideas = {1} /\ ideas[1] = d
    BY <2>5
  <2>7. made \in [items : 0 .. MaxItems, ideas : Nat] /\ made.items = 1 /\ made.ideas = 1
    BY <1>7, <2>2
  <2>8. Tickets!Open(t)
    BY <2>1 DEF Tickets!Open
  <2>9. items \in [DOMAIN items -> TicketRecords] /\ ideas \in [DOMAIN ideas -> IdeaRecords]
    BY <2>1, <2>4, <2>5, <2>6
  <2>10. ItemsTyped(items, 1) /\ IdeasTyped(ideas, 1, 1)
    BY <2>2, <2>4, <2>6, <2>9 DEF ItemsTyped, IdeasTyped
  <2>11. Linked(items, ideas)
    <3>1. Tickets!IdeaFits(items, 1, ideas[1])
      BY <2>2, <2>4, <2>6 DEF Tickets!IdeaFits
    <3>2. Tickets!TicketFits(ideas, 1, items[1])
      BY <2>1, <2>4, <2>6 DEF Tickets!TicketFits
    <3> QED BY <2>4, <2>6, <3>1, <3>2 DEF Linked
  <2>12. OneOpenEach(items)
    BY <2>6 DEF OneOpenEach
  <2>13. Cardinality(DOMAIN items) <= ItemLimit /\ Cardinality(DOMAIN ideas) <= IdeaLimit
    <3>1. Cardinality({1}) = 1
      BY FS_Singleton
    <3> QED BY <2>6, <3>1, TicketBounds
  <2>14. SeenFits(ideas, made.ideas)
    BY <1>5, <2>4, <2>6, <2>7 DEF SeenFits
  <2>15. Sound(items, ideas, made.items, made.ideas)
    BY <2>7, <2>10, <2>11, <2>12 DEF Sound
  <2> QED BY <1>1, <1>3, <1>4, <1>5, <2>7, <2>13, <2>14, <2>15 DEF TicketInv, StoreInv
<1> QED BY <1>6, <1>7 DEF Tickets!Init

\* TicketSources: tickets, ideas and schedules fit together in every store, whatever operators,
\* agents, the clock and restarts do, when completions have their footer and requests do not
\* outlast their minute.
THEOREM TicketInvariant == Footers /\ InTime => (Tickets!Spec => []TicketInv)
<1> SUFFICES ASSUME Footers, InTime PROVE Tickets!Spec => []TicketInv
  OBVIOUS
<1>1. Tickets!Init => TicketInv
  BY TicketBegins
<1>2. TicketInv /\ [Tickets!Next]_(Tickets!vars) => TicketInv'
  BY TicketSteps
<1> QED BY <1>1, <1>2, PTL DEF Tickets!Spec

\* TicketSources, NoWriteIsRefused: no operation works out a store that persistPromptQueue refuses.
THEOREM NoWriteIsRefusedHolds == Footers /\ InTime => (Tickets!Spec => []NoWriteIsRefused)
<1> SUFFICES ASSUME Footers, InTime PROVE Tickets!Spec => []NoWriteIsRefused
  OBVIOUS
<1>1. TicketInv => NoWriteIsRefused
  BY DEF TicketInv, StoreInv, NoWriteIsRefused, Tickets!NoWriteIsRefused
<1>2. Tickets!Spec => []TicketInv
  BY TicketInvariant
<1> QED BY <1>1, <1>2, PTL

\* TicketSources, OneOccurrence: a schedule has at most one ticket open.
THEOREM OneOccurrenceHolds == Footers /\ InTime => (Tickets!Spec => []OneOccurrence)
<1> SUFFICES ASSUME Footers, InTime PROVE Tickets!Spec => []OneOccurrence
  OBVIOUS
<1>1. TicketInv => OneOccurrence
  <2> SUFFICES ASSUME TicketInv, NEW k \in Schedules
      PROVE  Tickets!Cardinality({n \in DOMAIN items : items[n].schedule = k /\ Tickets!Open(items[n])}) <= 1
    BY DEF OneOccurrence, Tickets!OneOccurrence
  <2> DEFINE S == {n \in DOMAIN items : items[n].schedule = k /\ Tickets!Open(items[n])}
  <2>1. OneOpenEach(items)
    BY TicketFacts DEF Sound
  <2>2. \A n, m \in S : n = m
    BY <2>1 DEF OneOpenEach
  <2>3. S = {} \/ \E n : S = {n}
    BY <2>2
  <2> HIDE DEF S
  <2>4. Cardinality(S) <= 1
    <3>1. CASE S = {}
      BY <3>1, FS_EmptySet
    <3>2. ASSUME NEW n, S = {n} PROVE Cardinality(S) <= 1
      <4>1. Cardinality({n}) = 1
        BY FS_Singleton
      <4> QED BY <3>2, <4>1
    <3> QED BY <2>3, <3>1, <3>2
  <2>5. Tickets!Cardinality(S) <= 1
    BY <2>4, TicketsCount
  <2> QED BY <2>5 DEF S
<1>2. Tickets!Spec => []TicketInv
  BY TicketInvariant
<1> QED BY <1>1, <1>2, PTL

\* TicketSources, ApprovedAsSeen: an approved ticket carries the text that its operator decided on.
THEOREM ApprovedAsSeenHolds == Footers /\ InTime => (Tickets!Spec => ApprovedAsSeen)
<1> SUFFICES ASSUME Footers, InTime PROVE Tickets!Spec => ApprovedAsSeen
  OBVIOUS
<1>1. Tickets!Spec => []TicketInv
  BY TicketInvariant
<1>2. TicketInv /\ [Tickets!Next]_(Tickets!vars)
        => [\A x \in DOMAIN ideas \cap DOMAIN ideas' :
              ideas[x].status = "proposed" /\ ideas'[x].status = "approved"
                => items'[ideas'[x].approved].text = seen[x].text]_(Tickets!vars)
  BY TicketSteps DEF Decisions
<1> QED BY <1>1, <1>2, PTL DEF Tickets!Spec, ApprovedAsSeen, Tickets!ApprovedAsSeen

---------------------------------------------------------------------------
(* PromptCron.                                                             *)

\* The days before a month, in a year with a leap day.
DaysBefore == <<0, 31, 60, 91, 121, 152, 182, 213, 244, 274, 305, 335>>

\* The days of a calendar in which every year has a leap day, or none; there the leap day is the
\* same as the day after it.
LongDays(y, m, d)  == 366 * y + DaysBefore[m] + d
ShortDays(y, m, d) == 365 * y + DaysBefore[m] + d - (IF m <= 2 THEN 0 ELSE 1)
Long(d)  == LongDays(d.year, d.month, d.day)
Short(d) == ShortDays(d.year, d.month, d.day)

LEMMA MonthLengths ==
  ASSUME NEW m \in 1 .. 12
  PROVE  /\ Cron!MaxDaysByMonth[m] \in Nat /\ 29 <= Cron!MaxDaysByMonth[m] /\ Cron!MaxDaysByMonth[m] <= 31
         /\ DaysBefore[m] \in Nat /\ DaysBefore[m] <= 335
         /\ m = 1 => Cron!MaxDaysByMonth[m] = 31 /\ DaysBefore[m] = 0
         /\ m = 2 => Cron!MaxDaysByMonth[m] = 29 /\ DaysBefore[m] = 31
         /\ m >= 3 => DaysBefore[m] >= 60
         /\ m = 12 => Cron!MaxDaysByMonth[m] = 31 /\ DaysBefore[m] = 335
         /\ m < 12 => DaysBefore[m + 1] = DaysBefore[m] + Cron!MaxDaysByMonth[m]
         /\ m # 2 => Cron!MaxDaysByMonth[m] >= 30
<1>1. CASE m = 1
  BY <1>1 DEF Cron!MaxDaysByMonth, DaysBefore
<1>2. CASE m = 2
  BY <1>2 DEF Cron!MaxDaysByMonth, DaysBefore
<1>3. CASE m = 3
  BY <1>3 DEF Cron!MaxDaysByMonth, DaysBefore
<1>4. CASE m = 4
  BY <1>4 DEF Cron!MaxDaysByMonth, DaysBefore
<1>5. CASE m = 5
  BY <1>5 DEF Cron!MaxDaysByMonth, DaysBefore
<1>6. CASE m = 6
  BY <1>6 DEF Cron!MaxDaysByMonth, DaysBefore
<1>7. CASE m = 7
  BY <1>7 DEF Cron!MaxDaysByMonth, DaysBefore
<1>8. CASE m = 8
  BY <1>8 DEF Cron!MaxDaysByMonth, DaysBefore
<1>9. CASE m = 9
  BY <1>9 DEF Cron!MaxDaysByMonth, DaysBefore
<1>10. CASE m = 10
  BY <1>10 DEF Cron!MaxDaysByMonth, DaysBefore
<1>11. CASE m = 11
  BY <1>11 DEF Cron!MaxDaysByMonth, DaysBefore
<1>12. CASE m = 12
  BY <1>12 DEF Cron!MaxDaysByMonth, DaysBefore
<1>13. m \in {1, 2, 3, 4, 5, 6, 7, 8, 9, 10, 11, 12}
  OBVIOUS
<1> QED BY <1>1, <1>2, <1>3, <1>4, <1>5, <1>6, <1>7, <1>8, <1>9, <1>10, <1>11, <1>12, <1>13

LEMMA LaterMonth ==
  ASSUME NEW m \in 1 .. 12, NEW n \in 1 .. 12, m < n
  PROVE  DaysBefore[m] + Cron!MaxDaysByMonth[m] <= DaysBefore[n]
<1>1. /\ DaysBefore[1] = 0 /\ DaysBefore[2] = 31 /\ DaysBefore[3] = 60 /\ DaysBefore[4] = 91
      /\ DaysBefore[5] = 121 /\ DaysBefore[6] = 152 /\ DaysBefore[7] = 182 /\ DaysBefore[8] = 213
      /\ DaysBefore[9] = 244 /\ DaysBefore[10] = 274 /\ DaysBefore[11] = 305 /\ DaysBefore[12] = 335
  BY DEF DaysBefore
<1>2. DaysBefore[m + 1] = DaysBefore[m] + Cron!MaxDaysByMonth[m] /\ m + 1 \in 1 .. 12 /\ m + 1 <= n
  BY MonthLengths
<1>3. ASSUME NEW j \in 1 .. 12, NEW k \in 1 .. 12, j <= k PROVE DaysBefore[j] <= DaysBefore[k]
  <2>1. j \in {1, 2, 3, 4, 5, 6, 7, 8, 9, 10, 11, 12} /\ k \in {1, 2, 3, 4, 5, 6, 7, 8, 9, 10, 11, 12}
    OBVIOUS
  <2> QED BY <1>1, <1>3, <2>1
<1> QED BY <1>2, <1>3

LEMMA DateFacts ==
  ASSUME NEW d, Cron!IsDate(d)
  PROVE  /\ d.year \in Nat /\ d.month \in 1 .. 12 /\ d.day \in 1 .. 31 /\ d.weekday \in 0 .. 6
         /\ d.day <= Cron!MaxDaysByMonth[d.month]
         /\ d.month = 2 /\ ~Cron!LeapYear(d.year) => d.day <= 28
         /\ Cron!LastOf(d) \in Nat /\ 28 <= Cron!LastOf(d) /\ Cron!LastOf(d) <= 31
         /\ Cron!LastOf(d) = IF d.month = 2 /\ ~Cron!LeapYear(d.year) THEN 28 ELSE Cron!MaxDaysByMonth[d.month]
<1>1. d.year \in Nat /\ d.month \in 1 .. 12 /\ d.day \in 1 .. 31 /\ d.weekday \in 0 .. 6 /\ d.day <= Cron!LastOf(d)
  BY DEF Cron!IsDate
<1>2. Cron!LastOf(d) = IF d.month = 2 /\ ~Cron!LeapYear(d.year) THEN 28 ELSE Cron!MaxDaysByMonth[d.month]
  BY DEF Cron!LastOf
<1> QED BY <1>1, <1>2, MonthLengths

\* The three kinds of days: in a month, its last, and the last of a year.
LEMMA TomorrowIs ==
  ASSUME NEW d, Cron!IsDate(d), NEW t, t = Cron!Tomorrow(d)
  PROVE  /\ Cron!IsDate(t) /\ t.weekday = (d.weekday + 1) % 7
         /\ \/ /\ d.day < Cron!LastOf(d) /\ t.year = d.year /\ t.month = d.month /\ t.day = d.day + 1
            \/ /\ d.day = Cron!LastOf(d) /\ d.month < 12
               /\ t.year = d.year /\ t.month = d.month + 1 /\ t.day = 1
            \/ /\ d.day = 31 /\ d.month = 12 /\ t.year = d.year + 1 /\ t.month = 1 /\ t.day = 1
<1>1. /\ d.year \in Nat /\ d.month \in 1 .. 12 /\ d.day \in 1 .. 31 /\ d.weekday \in 0 .. 6
      /\ d.day <= Cron!LastOf(d) /\ Cron!LastOf(d) \in Nat /\ 28 <= Cron!LastOf(d) /\ Cron!LastOf(d) <= 31
      /\ DOMAIN d = {"year", "month", "day", "weekday"}
  BY DateFacts DEF Cron!IsDate
<1> DEFINE w == (d.weekday + 1) % 7
<1>2. w \in 0 .. 6
  BY <1>1
<1> HIDE DEF w
<1>3. CASE d.day < Cron!LastOf(d)
  <2>1. t = [d EXCEPT !.day = @ + 1, !.weekday = w]
    BY <1>1, <1>3 DEF Cron!Tomorrow, w
  <2>2. t.year = d.year /\ t.month = d.month /\ t.day = d.day + 1 /\ t.weekday = w
    BY <1>1, <2>1
  <2>3. Cron!LastOf(t) = Cron!LastOf(d)
    BY <2>2 DEF Cron!LastOf
  <2>4. t \in [year : Nat, month : 1 .. 12, day : 1 .. 31, weekday : 0 .. 6]
    <3>1. d \in [year : Nat, month : 1 .. 12, day : 1 .. 31, weekday : 0 .. 6] /\ d.day + 1 \in 1 .. 31
      BY <1>1, <1>3 DEF Cron!IsDate
    <3> QED BY <1>2, <2>1, <3>1
  <2> QED BY <1>1, <1>3, <2>2, <2>3, <2>4 DEF Cron!IsDate, w
<1>4. CASE d.day = Cron!LastOf(d) /\ d.month < 12
  <2>1. t = [d EXCEPT !.day = 1, !.month = @ + 1, !.weekday = w]
    BY <1>1, <1>4 DEF Cron!Tomorrow, w
  <2>2. t.year = d.year /\ t.month = d.month + 1 /\ t.day = 1 /\ t.weekday = w
    BY <1>1, <2>1
  <2>3. t \in [year : Nat, month : 1 .. 12, day : 1 .. 31, weekday : 0 .. 6]
    <3>1. d \in [year : Nat, month : 1 .. 12, day : 1 .. 31, weekday : 0 .. 6] /\ d.month + 1 \in 1 .. 12 /\ 1 \in 1 .. 31
      BY <1>1, <1>4 DEF Cron!IsDate
    <3> QED BY <1>2, <2>1, <3>1
  <2>4. t.day <= Cron!LastOf(t)
    BY <2>2, <2>3, MonthLengths DEF Cron!LastOf
  <2> QED BY <1>1, <1>4, <2>2, <2>3, <2>4 DEF Cron!IsDate, w
<1>5. CASE d.day = Cron!LastOf(d) /\ d.month = 12
  <2>1. t = [year |-> d.year + 1, month |-> 1, day |-> 1, weekday |-> w]
    BY <1>1, <1>5 DEF Cron!Tomorrow, w
  <2>2. t.year = d.year + 1 /\ t.month = 1 /\ t.day = 1 /\ t.weekday = w /\ d.day = 31
    BY <1>1, <1>5, <2>1, DateFacts, MonthLengths
  <2>3. t \in [year : Nat, month : 1 .. 12, day : 1 .. 31, weekday : 0 .. 6]
    <3>1. d.year + 1 \in Nat /\ 1 \in 1 .. 12 /\ 1 \in 1 .. 31
      BY <1>1
    <3> QED BY <1>2, <2>1, <3>1
  <2>4. t.day <= Cron!LastOf(t)
    BY <2>2, MonthLengths DEF Cron!LastOf
  <2> QED BY <1>1, <1>5, <2>2, <2>3, <2>4 DEF Cron!IsDate, w
<1> QED BY <1>1, <1>3, <1>4, <1>5

LEMMA LongStep ==
  ASSUME NEW d, Cron!IsDate(d), NEW t, t = Cron!Tomorrow(d)
  PROVE  \/ Long(t) = Long(d) + 1
         \/ Long(t) = Long(d) + 2 /\ d.month = 2 /\ d.day = 28
<1>1. /\ d.year \in Nat /\ d.month \in 1 .. 12 /\ d.day \in Nat /\ 1 <= d.day /\ d.day <= 31 /\ DaysBefore[d.month] \in Nat /\ DaysBefore[d.month] <= 335
  BY DateFacts, MonthLengths
<1>2. CASE d.day < Cron!LastOf(d) /\ t.year = d.year /\ t.month = d.month /\ t.day = d.day + 1
  BY <1>1, <1>2 DEF Long, LongDays
<1>3. CASE /\ d.day = Cron!LastOf(d) /\ d.month < 12
           /\ t.year = d.year /\ t.month = d.month + 1 /\ t.day = 1
  <2>1. DaysBefore[d.month + 1] = DaysBefore[d.month] + Cron!MaxDaysByMonth[d.month] /\ Cron!MaxDaysByMonth[d.month] \in Nat /\ 29 <= Cron!MaxDaysByMonth[d.month] /\ Cron!MaxDaysByMonth[d.month] <= 31
    BY <1>1, <1>3, MonthLengths
  <2>2. Long(t) = 366 * d.year + DaysBefore[d.month] + Cron!MaxDaysByMonth[d.month] + 1
    BY <1>1, <1>3, <2>1 DEF Long, LongDays
  <2>3. d.day = Cron!MaxDaysByMonth[d.month] \/ (d.month = 2 /\ d.day = 28 /\ Cron!MaxDaysByMonth[d.month] = 29)
    BY <1>1, <1>3, DateFacts, MonthLengths
  <2> QED BY <1>1, <2>1, <2>2, <2>3 DEF Long, LongDays
<1>4. CASE d.day = 31 /\ d.month = 12 /\ t.year = d.year + 1 /\ t.month = 1 /\ t.day = 1
  <2>1. DaysBefore[12] = 335 /\ DaysBefore[1] = 0
    BY DEF DaysBefore
  <2> QED BY <1>1, <1>4, <2>1 DEF Long, LongDays
<1> QED BY <1>2, <1>3, <1>4, TomorrowIs

LEMMA ShortStep ==
  ASSUME NEW d, Cron!IsDate(d), NEW t, t = Cron!Tomorrow(d), ~(d.month = 2 /\ d.day = 29)
  PROVE  Short(t) = Short(d) + 1
<1>1. /\ d.year \in Nat /\ d.month \in 1 .. 12 /\ d.day \in Nat /\ 1 <= d.day /\ d.day <= 31 /\ DaysBefore[d.month] \in Nat /\ DaysBefore[d.month] <= 335
  BY DateFacts, MonthLengths
<1>2. CASE d.day < Cron!LastOf(d) /\ t.year = d.year /\ t.month = d.month /\ t.day = d.day + 1
  BY <1>1, <1>2 DEF Short, ShortDays
<1>3. CASE /\ d.day = Cron!LastOf(d) /\ d.month < 12
           /\ t.year = d.year /\ t.month = d.month + 1 /\ t.day = 1
  <2>1. DaysBefore[d.month + 1] = DaysBefore[d.month] + Cron!MaxDaysByMonth[d.month] /\ Cron!MaxDaysByMonth[d.month] \in Nat /\ 29 <= Cron!MaxDaysByMonth[d.month] /\ Cron!MaxDaysByMonth[d.month] <= 31
    BY <1>1, <1>3, MonthLengths
  <2>2. Short(t) = 365 * d.year + (DaysBefore[d.month] + Cron!MaxDaysByMonth[d.month]) + 1 - (IF d.month + 1 <= 2 THEN 0 ELSE 1)
    BY <1>3, <2>1 DEF Short, ShortDays
  <2>3. CASE d.month = 1
    <3>1. d.day = Cron!MaxDaysByMonth[d.month]
      BY <1>3, <2>3, DateFacts
    <3> QED BY <1>1, <2>1, <2>2, <2>3, <3>1 DEF Short, ShortDays
  <2>4. CASE d.month = 2
    <3>1. d.day = 28 /\ Cron!MaxDaysByMonth[d.month] = 29
      BY <1>1, <1>3, <2>4, DateFacts, MonthLengths
    <3> QED BY <1>1, <2>1, <2>2, <2>4, <3>1 DEF Short, ShortDays
  <2>5. CASE d.month > 2
    <3>1. d.day = Cron!MaxDaysByMonth[d.month]
      BY <1>3, <2>5, DateFacts
    <3> QED BY <1>1, <2>1, <2>2, <2>5, <3>1 DEF Short, ShortDays
  <2> QED BY <1>1, <2>3, <2>4, <2>5
<1>4. CASE d.day = 31 /\ d.month = 12 /\ t.year = d.year + 1 /\ t.month = 1 /\ t.day = 1
  <2>1. DaysBefore[12] = 335 /\ DaysBefore[1] = 0
    BY DEF DaysBefore
  <2> QED BY <1>1, <1>4, <2>1 DEF Short, ShortDays
<1> QED BY <1>2, <1>3, <1>4, TomorrowIs

LEMMA YearTold ==
  ASSUME NEW y \in Nat, NEW z \in Nat, NEW a \in Nat, NEW b \in Nat,
         1 <= a, a <= 366, 1 <= b, b <= 366, 366 * y + a = 366 * z + b
  PROVE  y = z /\ a = b
<1>1. y = z
  OBVIOUS
<1> QED BY <1>1

\* Long tells the dates of the calendar apart.
IsDay(y, m, d)     == y \in Nat /\ m \in 1 .. 12 /\ d \in 1 .. 31
IsLongDay(y, m, d) == IsDay(y, m, d) /\ d <= Cron!MaxDaysByMonth[m]

LEMMA LongTells ==
  ASSUME NEW y1, NEW m1, NEW d1, IsLongDay(y1, m1, d1), NEW y2, NEW m2, NEW d2, IsLongDay(y2, m2, d2),
         LongDays(y1, m1, d1) = LongDays(y2, m2, d2)
  PROVE  y1 = y2 /\ m1 = m2 /\ d1 = d2
<1>0. /\ y1 \in Nat /\ m1 \in 1 .. 12 /\ d1 \in 1 .. 31 /\ d1 <= Cron!MaxDaysByMonth[m1]
      /\ y2 \in Nat /\ m2 \in 1 .. 12 /\ d2 \in 1 .. 31 /\ d2 <= Cron!MaxDaysByMonth[m2]
  BY DEF IsLongDay, IsDay
<1> DEFINE a1 == DaysBefore[m1] + d1
           a2 == DaysBefore[m2] + d2
<1>1. DaysBefore[m1] \in Nat /\ DaysBefore[m1] <= 335 /\ DaysBefore[m2] \in Nat /\ DaysBefore[m2] <= 335
  BY <1>0, MonthLengths
<1>2. a1 \in Nat /\ 1 <= a1 /\ a1 <= 366 /\ a2 \in Nat /\ 1 <= a2 /\ a2 <= 366
  BY <1>0, <1>1
<1>3. DaysBefore[m1] \in Nat /\ DaysBefore[m2] \in Nat
  BY <1>1
<1>4. 366 * y1 + a1 = 366 * y2 + a2
  BY <1>0, <1>1 DEF LongDays
<1> HIDE DEF a1, a2
<1>5. y1 = y2 /\ a1 = a2
  BY <1>0, <1>2, <1>4, YearTold
<1>6. DaysBefore[m1] + d1 = DaysBefore[m2] + d2
  BY <1>5 DEF a1, a2
<1>7. ~(m1 < m2)
  <2> SUFFICES ASSUME m1 < m2 PROVE FALSE
    OBVIOUS
  <2>1. DaysBefore[m1] + Cron!MaxDaysByMonth[m1] <= DaysBefore[m2] /\ Cron!MaxDaysByMonth[m1] \in Nat /\ 29 <= Cron!MaxDaysByMonth[m1] /\ Cron!MaxDaysByMonth[m1] <= 31
    BY <1>0, LaterMonth, MonthLengths
  <2> QED BY <1>0, <1>3, <1>6, <2>1
<1>8. ~(m2 < m1)
  <2> SUFFICES ASSUME m2 < m1 PROVE FALSE
    OBVIOUS
  <2>1. DaysBefore[m2] + Cron!MaxDaysByMonth[m2] <= DaysBefore[m1] /\ Cron!MaxDaysByMonth[m2] \in Nat /\ 29 <= Cron!MaxDaysByMonth[m2] /\ Cron!MaxDaysByMonth[m2] <= 31
    BY <1>0, LaterMonth, MonthLengths
  <2> QED BY <1>0, <1>3, <1>6, <2>1
<1> QED BY <1>0, <1>3, <1>5, <1>6, <1>7, <1>8

\* No eight years are without a leap year.
LEMMA LeapYearSoon ==
  ASSUME NEW y \in Nat
  PROVE  \E z \in y .. y + 7 : Cron!LeapYear(z)
<1>1. PICK f \in y .. y + 3 : f % 4 = 0
  <2>1. y % 4 = 0 \/ (y + 1) % 4 = 0 \/ (y + 2) % 4 = 0 \/ (y + 3) % 4 = 0
    OBVIOUS
  <2> QED BY <2>1
<1>2. CASE f % 100 # 0
  BY <1>1, <1>2 DEF Cron!LeapYear
<1>3. CASE f % 100 = 0
  <2>1. (f + 4) % 4 = 0 /\ (f + 4) % 100 # 0
    BY <1>1, <1>3
  <2>2. f + 4 \in y .. y + 7
    OBVIOUS
  <2> QED BY <2>1, <2>2 DEF Cron!LeapYear
<1> QED BY <1>2, <1>3

---------------------------------------------------------------------------
LEMMA FieldValues ==
  ASSUME NEW segments, segments \subseteq [from : Nat, to : Nat, step : Nat],
         NEW lowest \in Nat, NEW highest \in Nat, Cron!FieldFits(segments, lowest, highest)
  PROVE  Cron!Values(segments) # {} /\ Cron!Values(segments) \subseteq lowest .. highest
<1>1. segments # {} /\ \A g \in segments : Cron!SegmentFits(g, lowest, highest)
  BY DEF Cron!FieldFits
<1>2. PICK g \in segments : TRUE
  BY <1>1
<1>3. g.from \in Nat /\ g.to \in Nat /\ g.from <= g.to /\ g.step \in Nat /\ g.step > 0
  BY <1>1, <1>2 DEF Cron!SegmentFits
<1>4. (g.from - g.from) % g.step = 0
  <2>1. g.from - g.from = 0
    BY <1>3
  <2>2. 0 % g.step = 0
    BY <1>3
  <2> QED BY <2>1, <2>2
<1>5. g.from \in Cron!Stepped(g)
  BY <1>3, <1>4 DEF Cron!Stepped
<1>6. Cron!Values(segments) # {}
  BY <1>2, <1>5 DEF Cron!Values
<1>7. ASSUME NEW v \in Cron!Values(segments) PROVE v \in lowest .. highest
  <2>1. PICK h \in segments : v \in Cron!Stepped(h)
    BY DEF Cron!Values
  <2>2. v \in h.from .. h.to /\ h.from \in Nat /\ h.to \in Nat /\ lowest <= h.from /\ h.to <= highest
    BY <1>1, <2>1 DEF Cron!Stepped, Cron!SegmentFits
  <2> QED BY <2>2
<1> QED BY <1>6, <1>7

LEMMA AcceptedFields ==
  ASSUME NEW c \in Crons, Cron!Accepted(c)
  PROVE  /\ Cron!Days(c) \subseteq 1 .. 31 /\ Cron!Months(c) \subseteq 1 .. 12 /\ Cron!Months(c) # {}
         /\ Cron!Weekdays(c) \subseteq 0 .. 6 /\ Cron!Weekdays(c) # {}
         /\ Cron!HasPossibleCalendarMatch(c)
<1>1. /\ c.days \subseteq [from : Nat, to : Nat, step : Nat] /\ c.months \subseteq [from : Nat, to : Nat, step : Nat]
      /\ c.weekdays \subseteq [from : Nat, to : Nat, step : Nat]
  BY CronBounds
<1>2. /\ Cron!FieldFits(c.days, 1, 31) /\ Cron!FieldFits(c.months, 1, 12) /\ Cron!FieldFits(c.weekdays, 0, 7)
      /\ Cron!HasPossibleCalendarMatch(c)
  BY DEF Cron!Accepted
<1>3. Cron!Days(c) \subseteq 1 .. 31
  BY <1>1, <1>2, FieldValues DEF Cron!Days
<1>4. Cron!Months(c) \subseteq 1 .. 12 /\ Cron!Months(c) # {}
  BY <1>1, <1>2, FieldValues DEF Cron!Months
<1>5. Cron!Values(c.weekdays) \subseteq 0 .. 7 /\ Cron!Values(c.weekdays) # {}
  BY <1>1, <1>2, FieldValues
<1>6. Cron!Weekdays(c) \subseteq 0 .. 6 /\ Cron!Weekdays(c) # {}
  BY <1>5 DEF Cron!Weekdays
<1> QED BY <1>2, <1>3, <1>4, <1>6

\* A date matches an expression by its day of the month, by its weekday, or by its month alone.
LEMMA MatchFacts ==
  ASSUME NEW c, NEW d, d.month \in Cron!Months(c)
  PROVE  /\ Cron!EveryDay(c) /\ Cron!EveryWeekday(c) => Cron!Matches(c, d)
         /\ ~Cron!EveryDay(c) /\ Cron!EveryWeekday(c) /\ d.day \in Cron!Days(c) => Cron!Matches(c, d)
         /\ ~Cron!EveryWeekday(c) /\ d.weekday \in Cron!Weekdays(c) => Cron!Matches(c, d)
<1>1. CASE Cron!EveryDay(c) /\ Cron!EveryWeekday(c)
  BY <1>1 DEF Cron!Matches
<1>2. CASE Cron!EveryDay(c) /\ ~Cron!EveryWeekday(c)
  BY <1>2 DEF Cron!Matches
<1>3. CASE ~Cron!EveryDay(c) /\ Cron!EveryWeekday(c)
  BY <1>3 DEF Cron!Matches
<1>4. CASE ~Cron!EveryDay(c) /\ ~Cron!EveryWeekday(c)
  BY <1>4 DEF Cron!Matches
<1> QED BY <1>1, <1>2, <1>3, <1>4

---------------------------------------------------------------------------
\* The expression matches every date of that day of a month, or of that weekday in a month.
DayMatches(c, m, k) == \A d : Cron!IsDate(d) /\ d.month = m /\ d.day = k => Cron!Matches(c, d)
WeekdayMatches(c, m, w) == \A d : Cron!IsDate(d) /\ d.month = m /\ d.weekday = w => Cron!Matches(c, d)

\* From the date d, after n days of search, a match is near enough: the leap day of a year,
LeapDayAhead(c, d, n) ==
  /\ DayMatches(c, 2, 29)
  /\ \E y \in Nat : /\ Cron!LeapYear(y) /\ d.year <= y /\ (d.year = y => d.month <= 2)
                    /\ n + ShortDays(y, 2, 29) <= 2927 + Short(d)

\* another day of a month,
DayAhead(c, d, n) ==
  \E m \in 1 .. 12, k \in 1 .. 31 :
    /\ k <= Cron!MaxDaysByMonth[m] /\ ~(m = 2 /\ k = 29) /\ DayMatches(c, m, k)
    /\ \E y \in Nat : Long(d) <= LongDays(y, m, k) /\ n + LongDays(y, m, k) <= 2000 + Long(d)

\* or a weekday in the first week of a month, which begins later or has begun.
MonthAhead(m, d, n) ==
  \E y \in Nat : Long(d) < LongDays(y, m, 1) /\ n + LongDays(y, m, 1) <= 2000 + Long(d)
WeekAhead(m, w, d, n) ==
  /\ d.month = m
  /\ \E j \in 0 .. 6 : (d.weekday + j) % 7 = w /\ d.day + j <= 7 /\ n + j <= 2010
WeekdayAhead(c, d, n) ==
  \E m \in 1 .. 12, w \in 0 .. 6 : WeekdayMatches(c, m, w) /\ (MonthAhead(m, d, n) \/ WeekAhead(m, w, d, n))

MatchAhead(c, d, n) == LeapDayAhead(c, d, n) \/ DayAhead(c, d, n) \/ WeekdayAhead(c, d, n)

CronInv ==
  /\ cron \in Crons /\ Cron!Accepted(cron) /\ Cron!IsDate(date) /\ offset \in Nat
  /\ search \in {"begins", "searching", "found"}
  /\ search = "begins" => offset \in {0, 1}
  /\ search = "searching" => MatchAhead(cron, date, offset)

LEMMA LongIsNat ==
  ASSUME NEW d, Cron!IsDate(d)
  PROVE  /\ Long(d) \in Nat /\ 366 * d.year + 1 <= Long(d) /\ Long(d) <= 366 * d.year + 366
         /\ Long(d) = LongDays(d.year, d.month, d.day)
<1>1. /\ d.year \in Nat /\ d.month \in 1 .. 12 /\ d.day \in Nat /\ 1 <= d.day /\ d.day <= 31
      /\ DaysBefore[d.month] \in Nat /\ DaysBefore[d.month] <= 335
  BY DateFacts, MonthLengths
<1> QED BY <1>1 DEF Long, LongDays

LEMMA LongDaysIsNat ==
  ASSUME NEW y, NEW m, NEW k, IsDay(y, m, k)
  PROVE  /\ LongDays(y, m, k) \in Nat /\ 366 * y + 1 <= LongDays(y, m, k) /\ LongDays(y, m, k) <= 366 * y + 366
<1>1. y \in Nat /\ DaysBefore[m] \in Nat /\ DaysBefore[m] <= 335 /\ k \in Nat /\ 1 <= k /\ k <= 31
  BY MonthLengths DEF IsDay
<1> QED BY <1>1 DEF LongDays

LEMMA ShortIsNat ==
  ASSUME NEW d, Cron!IsDate(d), NEW y \in Nat
  PROVE  /\ Short(d) \in Nat /\ 365 * d.year <= Short(d) /\ Short(d) <= 365 * d.year + 365
         /\ ShortDays(y, 2, 29) = 365 * y + 60
         /\ d.month <= 2 => Short(d) <= 365 * d.year + 60
         /\ d.month > 2 => Short(d) >= 365 * d.year + 60
<1>1. /\ d.year \in Nat /\ d.month \in 1 .. 12 /\ d.day \in Nat /\ 1 <= d.day /\ d.day <= 31
      /\ DaysBefore[d.month] \in Nat /\ DaysBefore[d.month] <= 335
  BY DateFacts, MonthLengths
<1>2. DaysBefore[2] = 31
  BY MonthLengths
<1>3. ShortDays(y, 2, 29) = 365 * y + 60
  BY <1>2 DEF ShortDays
<1>4. Short(d) = 365 * d.year + DaysBefore[d.month] + d.day - (IF d.month <= 2 THEN 0 ELSE 1)
  BY DEF Short, ShortDays
<1>5. CASE d.month <= 2
  <2>1. Short(d) = 365 * d.year + DaysBefore[d.month] + d.day
    BY <1>1, <1>4, <1>5
  <2>2. DaysBefore[d.month] + d.day <= 60
    <3>1. CASE d.month = 1
      BY <1>1, <3>1, MonthLengths
    <3>2. CASE d.month = 2
      <4>1. d.day <= 29
        BY <3>2, DateFacts, MonthLengths
      <4> QED BY <1>1, <1>2, <3>2, <4>1
    <3> QED BY <1>1, <1>5, <3>1, <3>2
  <2> QED BY <1>1, <1>3, <1>5, <2>1, <2>2
<1>6. CASE d.month > 2
  <2>1. Short(d) = 365 * d.year + DaysBefore[d.month] + d.day - 1
    BY <1>1, <1>4, <1>6
  <2>2. DaysBefore[d.month] >= 60
    BY <1>1, <1>6, MonthLengths
  <2> QED BY <1>1, <1>3, <1>6, <2>1, <2>2
<1> QED BY <1>1, <1>5, <1>6

\* A year from every date there is one of every day and month.
LEMMA DaySoon ==
  ASSUME NEW d, Cron!IsDate(d), NEW n \in {0, 1}, NEW m \in 1 .. 12, NEW k \in 1 .. 31
  PROVE  \E y \in Nat : Long(d) < LongDays(y, m, k) /\ n + LongDays(y, m, k) <= 2000 + Long(d)
<1>1. d.year \in Nat /\ d.year + 1 \in Nat /\ IsDay(d.year + 1, m, k)
  BY DateFacts DEF IsDay
<1>2. /\ LongDays(d.year + 1, m, k) \in Nat /\ 366 * (d.year + 1) + 1 <= LongDays(d.year + 1, m, k)
      /\ LongDays(d.year + 1, m, k) <= 366 * (d.year + 1) + 366
  BY <1>1, LongDaysIsNat
<1>3. Long(d) < LongDays(d.year + 1, m, k) /\ n + LongDays(d.year + 1, m, k) <= 2000 + Long(d)
  BY <1>1, <1>2, LongIsNat
<1> QED BY <1>1, <1>3

LEMMA LeapDaySoon ==
  ASSUME NEW c, NEW d, Cron!IsDate(d), NEW n \in {0, 1}, DayMatches(c, 2, 29)
  PROVE  LeapDayAhead(c, d, n)
<1>1. d.year \in Nat /\ d.month \in 1 .. 12 /\ d.year + 1 \in Nat
  BY DateFacts
<1>2. CASE d.month <= 2
  <2>1. PICK y \in d.year .. d.year + 7 : Cron!LeapYear(y)
    BY <1>1, LeapYearSoon
  <2>2. y \in Nat /\ d.year <= y /\ y <= d.year + 7
    BY <1>1, <2>1
  <2>3. n + ShortDays(y, 2, 29) <= 2927 + Short(d)
    BY <1>1, <2>2, ShortIsNat
  <2> QED BY <1>2, <2>1, <2>2, <2>3 DEF LeapDayAhead
<1>3. CASE d.month > 2
  <2>1. PICK y \in d.year + 1 .. d.year + 1 + 7 : Cron!LeapYear(y)
    BY <1>1, LeapYearSoon
  <2>2. y \in Nat /\ d.year <= y /\ d.year # y /\ y <= d.year + 8
    BY <1>1, <2>1
  <2>3. n + ShortDays(y, 2, 29) <= 2927 + Short(d)
    BY <1>1, <1>3, <2>2, ShortIsNat
  <2> QED BY <2>1, <2>2, <2>3 DEF LeapDayAhead
<1> QED BY <1>1, <1>2, <1>3

LEMMA MatchIsAhead ==
  ASSUME NEW c \in Crons, Cron!Accepted(c), NEW d, Cron!IsDate(d), NEW n \in {0, 1}
  PROVE  MatchAhead(c, d, n)
<1>1. CASE ~Cron!EveryWeekday(c)
  <2>1. PICK m \in Cron!Months(c) : TRUE
    BY AcceptedFields
  <2>2. PICK w \in Cron!Weekdays(c) : TRUE
    BY AcceptedFields
  <2>3. m \in 1 .. 12 /\ w \in 0 .. 6
    BY <2>1, <2>2, AcceptedFields
  <2>4. WeekdayMatches(c, m, w)
    BY <1>1, <2>1, <2>2, MatchFacts DEF WeekdayMatches
  <2>5. MonthAhead(m, d, n)
    <3>1. 1 \in 1 .. 31
      OBVIOUS
    <3> QED BY <2>3, <3>1, DaySoon DEF MonthAhead
  <2> QED BY <2>3, <2>4, <2>5 DEF MatchAhead, WeekdayAhead
<1>2. CASE Cron!EveryWeekday(c)
  <2>1. \E m \in 1 .. 12, k \in 1 .. 31 : k <= Cron!MaxDaysByMonth[m] /\ DayMatches(c, m, k)
    <3>1. CASE Cron!EveryDay(c)
      <4>1. PICK m \in Cron!Months(c) : TRUE
        BY AcceptedFields
      <4>2. m \in 1 .. 12 /\ 1 \in 1 .. 31 /\ 1 <= Cron!MaxDaysByMonth[m]
        BY <4>1, AcceptedFields, MonthLengths
      <4>3. DayMatches(c, m, 1)
        BY <1>2, <3>1, <4>1, MatchFacts DEF DayMatches
      <4> QED BY <4>2, <4>3
    <3>2. CASE ~Cron!EveryDay(c)
      <4>1. \E m \in Cron!Months(c), k \in Cron!Days(c) : k <= Cron!MaxDaysByMonth[m]
        BY <1>2, <3>2, AcceptedFields DEF Cron!HasPossibleCalendarMatch
      <4>2. PICK m \in Cron!Months(c), k \in Cron!Days(c) : k <= Cron!MaxDaysByMonth[m]
        BY <4>1
      <4>3. m \in 1 .. 12 /\ k \in 1 .. 31
        BY <4>2, AcceptedFields
      <4>4. DayMatches(c, m, k)
        BY <1>2, <3>2, <4>2, MatchFacts DEF DayMatches
      <4> QED BY <4>2, <4>3, <4>4
    <3> QED BY <3>1, <3>2
  <2>2. PICK m \in 1 .. 12, k \in 1 .. 31 : k <= Cron!MaxDaysByMonth[m] /\ DayMatches(c, m, k)
    BY <2>1
  <2>3. CASE m = 2 /\ k = 29
    BY <2>2, <2>3, LeapDaySoon DEF MatchAhead
  <2>4. CASE ~(m = 2 /\ k = 29)
    <3>1. PICK y \in Nat : Long(d) < LongDays(y, m, k) /\ n + LongDays(y, m, k) <= 2000 + Long(d)
      BY DaySoon
    <3>2. IsDay(y, m, k)
      BY DEF IsDay
    <3>3. LongDays(y, m, k) \in Nat
      BY <3>2, LongDaysIsNat
    <3>4. Long(d) \in Nat
      BY LongIsNat
    <3>5. Long(d) <= LongDays(y, m, k)
      BY <3>1, <3>3, <3>4
    <3>6. DayAhead(c, d, n)
      BY <2>2, <2>4, <3>1, <3>5 DEF DayAhead
    <3> QED BY <3>6 DEF MatchAhead
  <2> QED BY <2>3, <2>4
<1> QED BY <1>1, <1>2

---------------------------------------------------------------------------
LEMMA LeapDayNearer ==
  ASSUME NEW c, NEW d, Cron!IsDate(d), NEW n \in Nat, LeapDayAhead(c, d, n), ~Cron!Matches(c, d),
         NEW t, t = Cron!Tomorrow(d)
  PROVE  LeapDayAhead(c, t, n + 1)
<1>1. DayMatches(c, 2, 29)
  BY DEF LeapDayAhead
<1>2. PICK y \in Nat : /\ Cron!LeapYear(y) /\ d.year <= y /\ (d.year = y => d.month <= 2)
                       /\ n + ShortDays(y, 2, 29) <= 2927 + Short(d)
  BY DEF LeapDayAhead
<1>3. ~(d.month = 2 /\ d.day = 29)
  BY <1>1 DEF DayMatches
<1>4. Short(t) = Short(d) + 1 /\ Cron!IsDate(t)
  BY <1>3, ShortStep, TomorrowIs
<1>5. n + 1 + ShortDays(y, 2, 29) <= 2927 + Short(t)
  BY <1>2, <1>4, ShortIsNat
<1>6. d.year \in Nat /\ d.month \in 1 .. 12
  BY DateFacts
<1>7. t.year <= y /\ (t.year = y => t.month <= 2)
  <2>1. CASE t.year = d.year /\ t.month = d.month
    BY <1>2, <2>1
  <2>2. CASE d.day = Cron!LastOf(d) /\ t.year = d.year /\ t.month = d.month + 1
    <3>1. d.year = y /\ d.month = 2 => d.day = 29
      BY <1>2, <2>2, DateFacts, MonthLengths
    <3> QED BY <1>2, <1>3, <1>6, <2>2, <3>1
  <2>3. CASE d.month = 12 /\ t.year = d.year + 1 /\ t.month = 1
    BY <1>2, <1>6, <2>3
  <2> QED BY <2>1, <2>2, <2>3, TomorrowIs
<1>8. y \in Nat /\ Cron!LeapYear(y)
  BY <1>2
<1> QED BY <1>1, <1>5, <1>7, <1>8 DEF LeapDayAhead

\* The day after a date before another one is not after that, if that is no leap day.
LEMMA NotBeyond ==
  ASSUME NEW d, Cron!IsDate(d), NEW t, t = Cron!Tomorrow(d), NEW y \in Nat, NEW m \in 1 .. 12, NEW k \in 1 .. 31,
         k <= Cron!MaxDaysByMonth[m], ~(m = 2 /\ k = 29), Long(d) < LongDays(y, m, k)
  PROVE  Long(t) <= LongDays(y, m, k) /\ Long(t) >= Long(d) + 1 /\ Long(t) \in Nat /\ Cron!IsDate(t)
<1>1. Cron!IsDate(t) /\ Long(t) \in Nat /\ Long(d) \in Nat /\ LongDays(y, m, k) \in Nat
  <2>1. Cron!IsDate(t)
    BY TomorrowIs
  <2>2. IsDay(y, m, k)
    BY DEF IsDay
  <2>3. LongDays(y, m, k) \in Nat
    BY <2>2, LongDaysIsNat
  <2> QED BY <2>1, <2>3, LongIsNat
<1>2. CASE Long(t) = Long(d) + 1
  BY <1>1, <1>2
<1>3. CASE Long(t) = Long(d) + 2 /\ d.month = 2 /\ d.day = 28
  <2>1. LongDays(y, m, k) # Long(d) + 1
    <3> SUFFICES ASSUME LongDays(y, m, k) = Long(d) + 1 PROVE FALSE
      OBVIOUS
    <3>1. LongDays(d.year, 2, 29) = Long(d) + 1
      <4>1. d.year \in Nat /\ DaysBefore[2] = 31
        BY DateFacts, MonthLengths
      <4> QED BY <1>3, <4>1 DEF Long, LongDays
    <3>2. IsLongDay(d.year, 2, 29)
      <4>1. 29 \in 1 .. 31 /\ 2 \in 1 .. 12
        OBVIOUS
      <4> QED BY <4>1, DateFacts, MonthLengths DEF IsLongDay, IsDay
    <3>3. LongDays(y, m, k) = LongDays(d.year, 2, 29)
      BY <3>1
    <3>4. IsLongDay(y, m, k)
      BY DEF IsLongDay, IsDay
    <3>5. m = 2 /\ k = 29
      BY <3>2, <3>3, <3>4, LongTells
    <3> QED BY <3>5
  <2> QED BY <1>1, <1>3, <2>1
<1> QED BY <1>1, <1>2, <1>3, LongStep

LEMMA DayNearer ==
  ASSUME NEW c, NEW d, Cron!IsDate(d), NEW n \in Nat, DayAhead(c, d, n), ~Cron!Matches(c, d),
         NEW t, t = Cron!Tomorrow(d)
  PROVE  DayAhead(c, t, n + 1)
<1>1. PICK m \in 1 .. 12, k \in 1 .. 31 :
        /\ k <= Cron!MaxDaysByMonth[m] /\ ~(m = 2 /\ k = 29) /\ DayMatches(c, m, k)
        /\ \E y \in Nat : Long(d) <= LongDays(y, m, k) /\ n + LongDays(y, m, k) <= 2000 + Long(d)
  BY DEF DayAhead
<1>2. PICK y \in Nat : Long(d) <= LongDays(y, m, k) /\ n + LongDays(y, m, k) <= 2000 + Long(d)
  BY <1>1
<1>3. Long(d) # LongDays(y, m, k)
  <2> SUFFICES ASSUME Long(d) = LongDays(y, m, k) PROVE FALSE
    OBVIOUS
  <2>1. IsLongDay(d.year, d.month, d.day) /\ LongDays(d.year, d.month, d.day) = LongDays(y, m, k)
    BY DateFacts, LongIsNat DEF IsLongDay, IsDay
  <2>2. IsLongDay(y, m, k)
    BY <1>1 DEF IsLongDay, IsDay
  <2>3. d.month = m /\ d.day = k
    BY <2>1, <2>2, LongTells
  <2>4. DayMatches(c, m, k)
    BY <1>1
  <2> QED BY <2>3, <2>4 DEF DayMatches
<1>4. Long(d) \in Nat /\ LongDays(y, m, k) \in Nat
  <2>1. IsDay(y, m, k)
    BY DEF IsDay
  <2>2. LongDays(y, m, k) \in Nat
    BY <2>1, LongDaysIsNat
  <2> QED BY <2>2, LongIsNat
<1>5. Long(d) < LongDays(y, m, k)
  BY <1>2, <1>3, <1>4
<1>6. Long(t) <= LongDays(y, m, k) /\ Long(t) >= Long(d) + 1 /\ Long(t) \in Nat
  <2>1. /\ y \in Nat /\ m \in 1 .. 12 /\ k \in 1 .. 31
        /\ k <= Cron!MaxDaysByMonth[m] /\ ~(m = 2 /\ k = 29)
    BY <1>1
  <2> QED BY <1>5, <2>1, NotBeyond, Zenon
<1>7. n + 1 + LongDays(y, m, k) <= 2000 + Long(t)
  BY <1>2, <1>4, <1>6
<1> QED BY <1>1, <1>6, <1>7 DEF DayAhead

LEMMA WeekdaySoon ==
  ASSUME NEW v \in 0 .. 6, NEW w \in 0 .. 6
  PROVE  \E j \in 0 .. 6 : (v + j) % 7 = w
<1>1. CASE v <= w
  <2>1. w - v \in 0 .. 6 /\ (v + (w - v)) % 7 = w
    BY <1>1
  <2> QED BY <2>1
<1>2. CASE v > w
  <2>1. w + 7 - v \in 0 .. 6 /\ (v + (w + 7 - v)) % 7 = w
    BY <1>2
  <2> QED BY <2>1
<1> QED BY <1>1, <1>2

LEMMA WeekdayGoesOn ==
  ASSUME NEW v \in 0 .. 6, NEW j \in 1 .. 6, NEW w, (v + j) % 7 = w
  PROVE  (((v + 1) % 7) + (j - 1)) % 7 = w
<1>1. CASE v = 6
  <2>1. (v + 1) % 7 = 0 /\ (v + j) % 7 = j - 1 /\ (0 + (j - 1)) % 7 = j - 1
    BY <1>1
  <2> QED BY <2>1
<1>2. CASE v < 6
  <2>1. (v + 1) % 7 = v + 1 /\ (v + 1) + (j - 1) = v + j
    BY <1>2
  <2> QED BY <2>1
<1> QED BY <1>1, <1>2

LEMMA WeekdayNearer ==
  ASSUME NEW c, NEW d, Cron!IsDate(d), NEW n \in Nat, WeekdayAhead(c, d, n), ~Cron!Matches(c, d),
         NEW t, t = Cron!Tomorrow(d)
  PROVE  WeekdayAhead(c, t, n + 1)
<1>1. PICK m \in 1 .. 12, w \in 0 .. 6 : WeekdayMatches(c, m, w) /\ (MonthAhead(m, d, n) \/ WeekAhead(m, w, d, n))
  BY DEF WeekdayAhead
<1>2. CASE MonthAhead(m, d, n)
  <2>1. PICK y \in Nat : Long(d) < LongDays(y, m, 1) /\ n + LongDays(y, m, 1) <= 2000 + Long(d)
    BY <1>2 DEF MonthAhead
  <2>2. y \in Nat /\ m \in 1 .. 12 /\ 1 \in 1 .. 31 /\ 1 <= Cron!MaxDaysByMonth[m] /\ ~(m = 2 /\ 1 = 29)
    BY <1>1, <2>1, MonthLengths
  <2>3. Long(t) <= LongDays(y, m, 1) /\ Long(t) >= Long(d) + 1 /\ Long(t) \in Nat /\ Cron!IsDate(t)
    BY <2>1, <2>2, NotBeyond
  <2>4. Long(d) \in Nat /\ LongDays(y, m, 1) \in Nat
    <3>1. IsDay(y, m, 1)
      BY <2>2 DEF IsDay
    <3>2. LongDays(y, m, 1) \in Nat
      BY <3>1, LongDaysIsNat
    <3> QED BY <3>2, LongIsNat
  <2>5. n + 1 + LongDays(y, m, 1) <= 2000 + Long(t)
    BY <2>1, <2>3, <2>4
  <2>6. CASE Long(t) # LongDays(y, m, 1)
    <3>1. Long(t) < LongDays(y, m, 1)
      BY <2>3, <2>4, <2>6
    <3>2. MonthAhead(m, t, n + 1)
      BY <2>5, <3>1 DEF MonthAhead
    <3> QED BY <1>1, <3>2 DEF WeekdayAhead
  <2>7. CASE Long(t) = LongDays(y, m, 1)
    <3>1. /\ IsLongDay(t.year, t.month, t.day) /\ IsLongDay(y, m, 1)
          /\ LongDays(t.year, t.month, t.day) = LongDays(y, m, 1) /\ t.weekday \in 0 .. 6
      BY <2>2, <2>3, <2>7, DateFacts, LongIsNat DEF IsLongDay, IsDay
    <3>2. t.month = m /\ t.day = 1
      BY <3>1, LongTells
    <3>3. PICK j \in 0 .. 6 : (t.weekday + j) % 7 = w
      BY <3>1, WeekdaySoon
    <3>4. t.day + j <= 7 /\ n + 1 + j <= 2010
      BY <2>5, <2>7, <2>3, <3>2
    <3>5. WeekAhead(m, w, t, n + 1)
      BY <3>2, <3>3, <3>4 DEF WeekAhead
    <3> QED BY <1>1, <3>5 DEF WeekdayAhead
  <2> QED BY <2>6, <2>7
<1>3. CASE WeekAhead(m, w, d, n)
  <2>1. PICK j \in 0 .. 6 : (d.weekday + j) % 7 = w /\ d.day + j <= 7 /\ n + j <= 2010
    BY <1>3 DEF WeekAhead
  <2>2. d.month = m /\ d.day \in 1 .. 31 /\ d.weekday \in 0 .. 6 /\ Cron!LastOf(d) \in Nat /\ 28 <= Cron!LastOf(d)
    BY <1>3, DateFacts DEF WeekAhead
  <2>3. j # 0
    <3> SUFFICES ASSUME j = 0 PROVE FALSE
      OBVIOUS
    <3>1. d.weekday = w
      BY <2>1, <2>2
    <3> QED BY <1>1, <2>2, <3>1 DEF WeekdayMatches
  <2>4. d.day < Cron!LastOf(d) /\ d.day \in Nat /\ j \in 1 .. 6
    BY <2>1, <2>2, <2>3
  <2>5. t.month = m /\ t.day = d.day + 1 /\ t.weekday = (d.weekday + 1) % 7
    BY <2>2, <2>4, TomorrowIs, DateFacts
  <2>6. j - 1 \in 0 .. 6 /\ (((d.weekday + 1) % 7) + (j - 1)) % 7 = w
    <3>1. j - 1 \in 0 .. 6
      BY <2>4
    <3>2. (((d.weekday + 1) % 7) + (j - 1)) % 7 = w
      BY <2>1, <2>2, <2>4, WeekdayGoesOn
    <3> QED BY <3>1, <3>2
  <2>7. t.day + (j - 1) <= 7 /\ n + 1 + (j - 1) <= 2010
    BY <2>1, <2>2, <2>5
  <2>8. WeekAhead(m, w, t, n + 1)
    BY <2>5, <2>6, <2>7 DEF WeekAhead
  <2> QED BY <1>1, <2>8 DEF WeekdayAhead
<1> QED BY <1>1, <1>2, <1>3

LEMMA SearchIsShort ==
  ASSUME NEW c, NEW d, Cron!IsDate(d), NEW n \in Nat, MatchAhead(c, d, n)
  PROVE  n < Cron!SearchDays
<1>1. Cron!SearchDays = 2928
  BY DEF Cron!SearchDays
<1>2. CASE LeapDayAhead(c, d, n)
  <2>1. PICK y \in Nat : /\ d.year <= y /\ (d.year = y => d.month <= 2)
                         /\ n + ShortDays(y, 2, 29) <= 2927 + Short(d)
    BY <1>2 DEF LeapDayAhead
  <2>2. d.year \in Nat /\ d.month \in 1 .. 12
    BY DateFacts
  <2>3. Short(d) <= 365 * y + 60
    BY <2>1, <2>2, ShortIsNat
  <2> QED BY <1>1, <2>1, <2>3, ShortIsNat
<1>3. CASE DayAhead(c, d, n)
  <2>1. PICK m \in 1 .. 12, k \in 1 .. 31 :
          /\ k <= Cron!MaxDaysByMonth[m] /\ ~(m = 2 /\ k = 29) /\ DayMatches(c, m, k)
          /\ \E y \in Nat : Long(d) <= LongDays(y, m, k) /\ n + LongDays(y, m, k) <= 2000 + Long(d)
    BY <1>3 DEF DayAhead
  <2>2. PICK y \in Nat : Long(d) <= LongDays(y, m, k) /\ n + LongDays(y, m, k) <= 2000 + Long(d)
    BY <2>1
  <2>3. IsDay(y, m, k)
    BY DEF IsDay
  <2>4. LongDays(y, m, k) \in Nat
    BY <2>3, LongDaysIsNat
  <2>5. Long(d) \in Nat
    BY LongIsNat
  <2> QED BY <1>1, <2>2, <2>4, <2>5
<1>4. CASE WeekdayAhead(c, d, n)
  <2>1. PICK m \in 1 .. 12, w \in 0 .. 6 : WeekdayMatches(c, m, w) /\ (MonthAhead(m, d, n) \/ WeekAhead(m, w, d, n))
    BY <1>4 DEF WeekdayAhead
  <2>2. CASE MonthAhead(m, d, n)
    <3>1. PICK y \in Nat : Long(d) < LongDays(y, m, 1) /\ n + LongDays(y, m, 1) <= 2000 + Long(d)
      BY <2>2 DEF MonthAhead
    <3>2. IsDay(y, m, 1)
      <4>1. 1 \in 1 .. 31
        OBVIOUS
      <4> QED BY <4>1 DEF IsDay
    <3>3. LongDays(y, m, 1) \in Nat
      BY <3>2, LongDaysIsNat
    <3>4. Long(d) \in Nat
      BY LongIsNat
    <3> QED BY <1>1, <3>1, <3>3, <3>4
  <2>3. CASE WeekAhead(m, w, d, n)
    BY <1>1, <2>3 DEF WeekAhead
  <2> QED BY <2>1, <2>2, <2>3
<1> QED BY <1>2, <1>3, <1>4 DEF MatchAhead

LEMMA CronStep ==
  ASSUME CronInv, [Cron!Next]_(Cron!vars)
  PROVE  CronInv'
<1>1. CASE Cron!Begin
  <2>1. /\ search = "begins" /\ search' = "searching" /\ UNCHANGED <<cron, offset>>
        /\ date' = IF offset = 1 THEN Cron!Tomorrow(date) ELSE date
    BY <1>1 DEF Cron!Begin
  <2>2. Cron!IsDate(date') /\ offset \in {0, 1} /\ cron \in Crons /\ Cron!Accepted(cron)
    BY <2>1, TomorrowIs DEF CronInv
  <2>3. MatchAhead(cron, date', offset)
    BY <2>2, MatchIsAhead
  <2> QED BY <2>1, <2>2, <2>3 DEF CronInv
<1>2. CASE Cron!Advance
  <2>1. /\ search = "searching" /\ ~Cron!Matches(cron, date) /\ UNCHANGED <<cron, search>>
        /\ date' = Cron!Tomorrow(date) /\ offset' = offset + 1
    BY <1>2 DEF Cron!Advance, Cron!Ended
  <2>2. Cron!IsDate(date) /\ offset \in Nat /\ MatchAhead(cron, date, offset)
    BY <2>1 DEF CronInv
  <2>3. MatchAhead(cron, date', offset + 1)
    BY <2>1, <2>2, LeapDayNearer, DayNearer, WeekdayNearer DEF MatchAhead
  <2>4. Cron!IsDate(date') /\ offset' \in Nat
    BY <2>1, <2>2, TomorrowIs
  <2> QED BY <2>1, <2>3, <2>4 DEF CronInv
<1>3. CASE Cron!Answer
  <2>1. offset < Cron!SearchDays
    BY <1>3, SearchIsShort DEF CronInv, Cron!Answer
  <2>2. search' = "found" /\ UNCHANGED <<cron, date, offset>>
    BY <1>3, <2>1 DEF Cron!Answer
  <2> QED BY <2>2 DEF CronInv
<1>4. CASE UNCHANGED Cron!vars
  BY <1>4 DEF Cron!vars, CronInv
<1> QED BY <1>1, <1>2, <1>3, <1>4 DEF Cron!Next

\* Every expression that is accepted has a next run from every date of the calendar: a leap day is at
\* most eight years away, also where a century has none, and any other match comes by the next year's end.
THEOREM AcceptedIsFoundHolds == Cron!Spec => []AcceptedIsFound
<1>1. Cron!Init => CronInv
  BY CronBounds DEF Cron!Init, CronInv
<1>2. CronInv /\ [Cron!Next]_(Cron!vars) => CronInv'
  BY CronStep
<1>3. CronInv => AcceptedIsFound
  BY DEF CronInv, AcceptedIsFound, Cron!AcceptedIsFound
<1> QED BY <1>1, <1>2, <1>3, PTL DEF Cron!Spec
=============================================================================
