--------------------------- MODULE OutputLogStream ---------------------------
(***************************************************************************)
(* The refinement mapping under which OutputLog implements OutputStream:   *)
(* generations are laid end to end, and a cursor is the number of recorded *)
(* bytes before it.                                                        *)
(***************************************************************************)
EXTENDS OutputLog, SequencesExt

CONSTANT Detached

Logged(g) == SubSeq(disk[g], 1, Recorded(g))
Start[g \in Nat] == IF g <= 1 THEN 0 ELSE Start[g - 1] + Recorded(g - 1)
Position(c) == Start[c.gen] + c.off

StreamOf == FlattenSeq([g \in 1 .. generation |-> Logged(g)])
LostOf   == UNION {Start[g] + 1 .. Start[g] + Recorded(g) : g \in (1 .. generation) \ Retained}
PosOf    == [r \in Readers |-> IF phase[r] \in {"none", "pin"} THEN Detached
                               ELSE Position(cursor[r])]

Abstract == INSTANCE OutputStream
              WITH stream <- StreamOf, lost <- LostOf, pos <- PosOf, offer <- want

\* Seen from its clients the log is one stream: a cursor never goes back,
\* nothing is delivered twice or out of order, a size comes only with bytes
\* produced for it, and a reader passes over a byte without delivering it only
\* when prune removed that byte.
ImplementsStream == Abstract!Spec
=============================================================================
