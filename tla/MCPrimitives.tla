---------------------------- MODULE MCPrimitives ----------------------------
EXTENDS Primitives

CONSTANTS a1, a2, a3

\* Two agents of a kind and one that comes before them.
MCPriority == [a \in Agent |-> IF a = a3 THEN 1 ELSE 0]
\* A task each for the first two.
MCOwner == [t \in Task |-> IF t = 1 THEN a1 ELSE a2]
=============================================================================
