---------------------------- MODULE MCAccessRules ----------------------------
(* The groups that small instances of AccessRules start from: with an open *)
(* rescue of one port or two, and without one.                             *)
EXTENDS AccessRules

CONSTANTS a, b

R(i, p, c, o) == [id |-> i, port |-> p, source |-> c, owner |-> o]

Starts == {{R(1, 22, Anyone, "rescue"), R(2, 4173, b, "managed")},
           {R(1, 22, Anyone, "rescue"), R(3, 4173, Anyone, "rescue"), R(4, 22, b, "managed")},
           {R(4, 22, b, "managed"), R(5, 4173, a, "static"), R(6, 8080, a, "static")}}
=============================================================================
