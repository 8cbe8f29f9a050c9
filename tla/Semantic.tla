------------------------------- MODULE Semantic -------------------------------
(***************************************************************************)
(* OSC 133 semantic prompt markers (semantic.go, terminal.go): the markers *)
(* findOSC133 finds in one chunk, what each does to the metadata of the    *)
(* shell.  Commands are numbered; 0 is a command whose text is unknown, or *)
(* none.                                                                   *)
(***************************************************************************)
EXTENDS Naturals, Sequences, FiniteSets

Least(S) == CHOOSE i \in S : \A j \in S : i <= j

Statuses == {"0", "1"}   \* the payload ";<n>" of D, when it is an exit status

\* parseOSC133At: the marker whose "]133;" is data[i]; at = 0 if it is not terminated.
parseOSC133At(data, i) ==
  LET ends == {j \in (i + 2)..Len(data) :
                 data[j] = "bel" \/ (data[j] = "esc" /\ j < Len(data) /\ data[j + 1] = "\\")}
      j    == Least(ends)
      body == SubSeq(data, i + 2, j - 1)
  IN IF ends = {} THEN [kind |-> "none", exit |-> "none", end |-> 0]
     ELSE [kind |-> data[i + 1],
           exit |-> IF data[i + 1] = "D" /\ body # <<>> /\ body[1] \in Statuses THEN body[1] ELSE "none",
           end  |-> IF data[j] = "bel" THEN j ELSE j + 1]

\* findOSC133: the complete markers of data after `position`.
RECURSIVE FindFrom(_, _)
FindFrom(data, position) ==
  LET starts == {i \in (position + 1)..Len(data) : data[i] = "]133;" /\ i > 1 /\ data[i - 1] = "esc"}
      span   == parseOSC133At(data, Least(starts))
  IN IF starts = {} \/ span.end = 0 THEN <<>> ELSE <<span>> \o FindFrom(data, span.end)

findOSC133(data) == FindFrom(data, 0)

\* vtTerminal's fields; `exit` is lastExitCode, "none" while it is not known.
NoShell == [seen |-> FALSE, atPrompt |-> FALSE, running |-> 0, last |-> 0, exit |-> "none"]

\* applyOSC133Locked, with the command line that captureInputLocked finds.
applyOSC133Locked(v, span, input) ==
  CASE span.kind = "C" -> [v EXCEPT !.seen = TRUE, !.running = input]
    [] span.kind = "D" -> [v EXCEPT !.seen = TRUE, !.last = v.running, !.running = 0,
                                    !.exit = IF span.exit # "none" THEN span.exit ELSE @]
    [] span.kind \in {"A", "B"} -> [v EXCEPT !.seen = TRUE]
    [] OTHER -> v

\* refreshAtPromptLocked, given whether the emulator's cursor is at a prompt.
refreshAtPromptLocked(v, atPrompt) == [v EXCEPT !.seen = @ \/ atPrompt, !.atPrompt = atPrompt]
=============================================================================
