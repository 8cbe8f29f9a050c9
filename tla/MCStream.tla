------------------------------- MODULE MCStream -------------------------------
\* Two connections, the first for an output or an input write, the second for whatever follows.
EXTENDS Stream

CONSTANTS c1, c2

MCOpens == [c \in Conns |-> IF c = c1 THEN {"output", "input"} ELSE {"output", "blob", "wait", "input"}]
=============================================================================
