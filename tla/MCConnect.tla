----------------------------- MODULE MCConnect ------------------------------
(***************************************************************************)
(* Small instances of Connect: two processes and two tasks, of which the   *)
(* second reads what the first writes.                                     *)
(***************************************************************************)
EXTENDS Connect

CONSTANTS p1, p2, k1, k2, r1, r2

MCAsks == [r \in Request |-> IF r = r1 THEN k1 ELSE k2]

MCReads == [k \in {k1, k2} |-> IF k = k1 THEN {} ELSE {k1}]
=============================================================================
