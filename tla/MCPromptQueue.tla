--------------------------- MODULE MCPromptQueue ---------------------------
EXTENDS PromptQueue, TLC

CONSTANTS s1, s2, i1, i2, i3

\* Bound of the run with fairness: a crash or a failed write, not both.
TroubleIsRare == spent.crashes + spent.faults <= 1
AnswersSpec == Init /\ [][Next /\ TroubleIsRare']_vars /\ Fairness
=============================================================================
