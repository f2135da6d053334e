----------------------------- MODULE AtomicFile -----------------------------
(***************************************************************************)
(* What an atomically written file promises: it always holds one of the    *)
(* versions given to it, complete; a new version replaces it at once; and  *)
(* after a power failure it holds a version at least as new as the last    *)
(* one that was confirmed.                                                 *)
(***************************************************************************)
EXTENDS Naturals, Sequences

CONSTANT Versions
VARIABLES
  versions, \* the versions the file has had, the last one is in it
  sure      \* how many of them a power failure cannot take back

Init == versions = <<>> /\ sure = 0

Replace(v) == versions' = Append(versions, v) /\ UNCHANGED sure

Confirm == sure' = Len(versions) /\ UNCHANGED versions

PowerFails == \E n \in sure .. Len(versions) :
                versions' = SubSeq(versions, 1, n) /\ sure' = n

Next == (\E v \in Versions : Replace(v)) \/ Confirm \/ PowerFails

Spec == Init /\ [][Next]_<<versions, sure>>
=============================================================================
