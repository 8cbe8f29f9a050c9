-------------------------------- MODULE Query --------------------------------
(***************************************************************************)
(* The scan of QueryResponder.feedLocked (query.go): which replies the     *)
(* bytes of one chunk complete, given what earlier chunks left pending.    *)
(*                                                                         *)
(* A byte is a name: "esc", "bel", "ctl" for the controls, "[", "]", "\\", *)
(* "c", "n" for bytes that can end a CSI sequence, "]133;" for the start   *)
(* of a semantic marker, anything else for a byte of a sequence's body.    *)
(***************************************************************************)
EXTENDS Naturals, Sequences, FiniteSetsExt

CONSTANTS MaxCSI, MaxOSC   \* bytes of an incomplete sequence that are kept (256, 4096)

Controls == {"esc", "bel", "ctl"}
Finals   == {"[", "]", "\\", "c", "n"}
From(s, i) == SubSeq(s, i, Len(s))

\* The first byte of s that is in stops, or 0.
FirstOf(s, stops) == LET at == {i \in 1..Len(s) : s[i] \in stops}
                     IN IF at = {} THEN 0 ELSE Min(at)

\* The queries the model tells apart: DA (any parameters), DSR, the colour query.
csiReply(sequence) ==
  IF sequence[Len(sequence)] = "c" THEN <<"da">>
  ELSE IF sequence = <<"6", "n">> THEN <<"dsr">> ELSE <<>>
oscColorQuery(sequence) == IF sequence = <<"10;?">> THEN <<"color">> ELSE <<>>

\* Where a sequence ends or breaks off, and which of the two it does.
csiFinal(body) == FirstOf(body, Finals \cup Controls)
oscEnd(body)   == FirstOf(body, Controls)

csiComplete(body, i) == body[i] \in Finals

\* Faulty variant: any escape ends an OSC string.
Faulty_oscComplete(body, i) == body[i] \in {"bel", "esc"}

oscComplete(body, i) == body[i] = "bel" \/ (body[i] = "esc" /\ i < Len(body) /\ body[i + 1] = "\\")

\* What stays pending, unless it is too long to be a query.
Keep(p, limit, replies) == [pending |-> IF Len(p) > limit THEN <<>> ELSE p,
                            replies |-> replies, dropped |-> Len(p) > limit]

\* The loop: pending bytes p, replies found so far.
RECURSIVE Scan(_, _)
Scan(p, replies) ==
  LET first == FirstOf(p, {"esc"})
      body  == From(p, 3)
      f     == csiFinal(body)
      e     == oscEnd(body)
  IN CASE first = 0 -> Keep(<<>>, 0, replies)
       [] first > 1 -> Scan(From(p, first), replies)
       [] Len(p) < 2 -> Keep(p, 2, replies)
       [] p[2] = "[" ->
            IF f = 0 THEN Keep(p, MaxCSI, replies)
            ELSE IF ~csiComplete(body, f) THEN Scan(Tail(p), replies)
            ELSE Scan(From(body, f + 1), replies \o csiReply(SubSeq(body, 1, f)))
       [] p[2] \in {"]", "]133;"} ->
            IF e = 0 THEN Keep(p, MaxOSC, replies)
            ELSE IF ~oscComplete(body, e) THEN Scan(Tail(p), replies)
            ELSE Scan(From(body, e), replies \o oscColorQuery(SubSeq(body, 1, e - 1)))
       [] OTHER -> Scan(Tail(p), replies)

\* Faulty variant: each chunk is scanned by itself.
Faulty_feedLocked(pending, data) == Scan(data, <<>>)

feedLocked(pending, data) == Scan(pending \o data, <<>>)
=============================================================================
