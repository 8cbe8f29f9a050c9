------------------------------- MODULE Terminal -------------------------------
(***************************************************************************)
(* One program's output and a scanner of it: the copy loop's vtTerminal,   *)
(* whose Feed acts on semantic markers, or a caller's QueryResponder,      *)
(* whose Feed answers queries (examples/minimux feeds one what it reads    *)
(* from its session).  The program is a shell: it prompts, runs a command, *)
(* whose output may ask the terminal something, and reports how it ended.  *)
(* The reads cut the output into chunks anywhere.                          *)
(***************************************************************************)
EXTENDS Query, Semantic, SequencesExt

CONSTANTS MaxCommands, MaxQueries,  \* commands run, sequences they write in all
          MaxUnparsed, MaxUnscanned \* bytes the terminal, a responder has not read when more is written

ASSUME TerminalAssumption == /\ MaxCSI \in Nat \ {0} /\ MaxOSC \in Nat \ {0}
                             /\ MaxCommands \in Nat /\ MaxQueries \in Nat
                             /\ MaxUnparsed \in Nat /\ MaxUnscanned \in Nat

Bytes(s) == [i \in 1..Len(s) |-> s[i].b]

VARIABLES reader, ending,   \* who reads: the terminal or a responder; how the shell ends C and D
          todo,             \* bytes the program wrote and it has not read
          phase, command,   \* where the shell is, the number of its command
          vt, shell,        \* the emulator's prompt state; vtTerminal's metadata
          pending, replies, \* QueryResponder.pending; the replies it has made
          asked, queries,   \* the replies asked for so far; the sequences written
          reported,         \* command -> the status its D carried
          cut, torn         \* the markers a chunk ended within; it ended within an ST, or past a limit

programVars == <<phase, command, asked, queries, reported>>
vtVars      == <<vt, shell>>
queryVars   == <<pending, replies>>
vars        == <<reader, ending, todo, programVars, vtVars, queryVars, cut, torn>>

\* The emulator (libghostty-vt) sees every byte: a sequence takes effect at its last one.
Sequence(bytes, effect) ==
  [i \in 1..Len(bytes) |-> [b |-> bytes[i], effect |-> IF i = Len(bytes) THEN effect ELSE "none",
                            line |-> command', within |-> IF i < Len(bytes) THEN effect ELSE "none"]]
Effect(byte, v) ==
  CASE byte.effect = "prompt" -> [atPrompt |-> TRUE, input |-> 0]
    [] byte.effect = "typed"  -> [v EXCEPT !.input = byte.line]
    [] byte.effect \in {"start", "end"} -> [v EXCEPT !.atPrompt = FALSE]
    [] OTHER                  -> v
Emulate(v, bytes) == FoldLeft(LAMBDA w, byte : Effect(byte, w), v, bytes)

Bell == <<"bel">>
ST   == <<"esc", "\\">>

Init == /\ reader \in {"terminal", "responder"} /\ ending \in {Bell, ST}
        /\ todo = <<>> /\ phase = "idle" /\ command = 0
        /\ vt = [atPrompt |-> FALSE, input |-> 0] /\ shell = NoShell
        /\ pending = <<>> /\ replies = <<>> /\ asked = <<>> /\ queries = 0
        /\ reported = [k \in 1..MaxCommands |-> "none"]
        /\ cut = {} /\ torn = FALSE

-----------------------------------------------------------------------------
\* The program.

Marker(kind, payload, end) == <<"esc", "]133;", kind>> \o payload \o end

Writes(bytes) == /\ Len(todo) <= (IF reader = "terminal" THEN MaxUnparsed ELSE MaxUnscanned)
                 /\ todo' = todo \o bytes
                 /\ UNCHANGED <<reader, ending, vtVars, queryVars, cut, torn>>

\* The shell prompts and a command line is typed.
Prompt ==
  /\ phase = "idle" /\ command < MaxCommands
  /\ phase' = "typed" /\ command' = command + 1 /\ UNCHANGED <<asked, queries, reported>>
  /\ Writes(Sequence(Marker("A", <<>>, Bell), "prompt") \o Sequence(Marker("B", <<>>, Bell), "input")
            \o Sequence(<<"text">>, "typed"))

Run == /\ phase = "typed" /\ phase' = "running" /\ UNCHANGED <<command, asked, queries, reported>>
       /\ Writes(Sequence(Marker("C", <<>>, ending), "start"))

\* What a program may write: queries, a long one, and sequences that break off.
Queries == {[bytes |-> <<"esc", "[", "6", "n">>, reply |-> <<"dsr">>],
            [bytes |-> <<"esc", "[", ">", "0", ";", "c">>, reply |-> <<"da">>],
            [bytes |-> <<"esc", "]", "10;?", "bel">>, reply |-> <<"color">>],
            [bytes |-> <<"esc", "]", "10;?", "esc", "\\">>, reply |-> <<"color">>],
            [bytes |-> <<"esc", "[", "6", "ctl", "n">>, reply |-> <<>>],
            [bytes |-> <<"esc", "]", "10;?">>, reply |-> <<>>],
            [bytes |-> <<"esc">>, reply |-> <<>>]}

\* To the terminal's metadata they are all output, but for an escape before a marker.
Outputs == IF reader = "terminal" THEN {q \in Queries : q.bytes = <<"esc">>} ELSE Queries

Output == /\ phase = "running" /\ MaxQueries > queries /\ queries' = queries + 1
          /\ UNCHANGED <<phase, command, reported>>
          /\ \E q \in Outputs : /\ asked' = asked \o q.reply
                                /\ Writes(Sequence(q.bytes, "none"))

\* The command ends; the shell may or may not say how.
Finish == /\ phase = "running" /\ phase' = "idle" /\ UNCHANGED <<command, asked, queries>>
          /\ \E status \in Statuses \cup {"none"} :
               /\ reported' = [reported EXCEPT ![command] = status]
               /\ Writes(Sequence(Marker("D", IF status = "none" THEN <<>> ELSE <<status>>, ending), "end"))

-----------------------------------------------------------------------------
\* A read: the first n bytes there are.
Reads(n) == todo' = From(todo, n + 1) /\ UNCHANGED <<reader, ending, programVars>>

\* Faulty variants: the markers are acted on once all of the chunk is read; the prompt is
\* looked for only when there is one.
Faulty_VTFeed(chunk) ==
  LET end == Emulate(vt, chunk)
      apply(v, span) == applyOSC133Locked(v, span, end.input)
  IN /\ vt' = end
     /\ shell' = refreshAtPromptLocked(FoldLeft(apply, shell, findOSC133(Bytes(chunk))), end.atPrompt)

Faulty_VTFeedMarkers(chunk) ==
  LET at(end) == Emulate(vt, SubSeq(chunk, 1, end))
      apply(v, span) == refreshAtPromptLocked(applyOSC133Locked(v, span, at(span.end).input),
                                              at(span.end).atPrompt)
  IN /\ vt' = at(Len(chunk))
     /\ shell' = FoldLeft(apply, shell, findOSC133(Bytes(chunk)))

\* vtTerminal.Feed: each marker is acted on when the emulator has read up to its end.
VTFeed(chunk) ==
  LET at(end) == Emulate(vt, SubSeq(chunk, 1, end))
      apply(v, span) == refreshAtPromptLocked(applyOSC133Locked(v, span, at(span.end).input),
                                              at(span.end).atPrompt)
  IN /\ vt' = at(Len(chunk))
     /\ shell' = refreshAtPromptLocked(FoldLeft(apply, shell, findOSC133(Bytes(chunk))), vt'.atPrompt)

\* A chunk of the copy loop.
Feed(n) ==
  /\ reader = "terminal" /\ VTFeed(SubSeq(todo, 1, n)) /\ Reads(n)
  /\ cut' = IF todo[n].within = "none" THEN cut ELSE cut \cup {<<todo[n].within, todo[n].line>>}
  /\ UNCHANGED <<queryVars, torn>>

\* QueryResponder.Feed; the replies go back to the program.
Respond(n) ==
  LET result == feedLocked(pending, Bytes(SubSeq(todo, 1, n)))
  IN /\ reader = "responder" /\ Reads(n)
     /\ pending' = result.pending /\ replies' = replies \o result.replies
     /\ torn' = \/ torn \/ result.dropped
                \/ todo[n].b = "esc" /\ n < Len(todo) /\ todo[n + 1].b = "\\"
     /\ UNCHANGED <<vtVars, cut>>

Next == Prompt \/ Run \/ Output \/ Finish \/ \E n \in 1..Len(todo) : Feed(n) \/ Respond(n)

Spec == Init /\ [][Next]_vars

-----------------------------------------------------------------------------
\* Every variable stays within its type, and what is pending starts with an escape and
\* fits the limits (query.go:128, query.go:149).
TypeOK ==
  /\ phase \in {"idle", "typed", "running"} /\ command \in 0..MaxCommands
  /\ queries \in 0..MaxQueries
  /\ vt \in [atPrompt : BOOLEAN, input : 0..MaxCommands]
  /\ shell \in [seen : BOOLEAN, atPrompt : BOOLEAN, running : 0..MaxCommands,
                last : 0..MaxCommands, exit : Statuses \cup {"none"}]
  /\ reader \in {"terminal", "responder"} /\ ending \in {Bell, ST}
  /\ cut \subseteq {"prompt", "input", "start", "end"} \X (1..MaxCommands) /\ torn \in BOOLEAN
  /\ pending = <<>> \/ (pending[1] = "esc" /\ Len(pending) <= Max({2, MaxCSI, MaxOSC}))

\* However the output is cut, no reply is made that no query asked for, or made twice:
\* the replies are asked-for ones, in their order (query.go feedLocked).
NoReplyInvented ==
  \E of \in [1..Len(replies) -> 1..Len(asked)] :
    /\ \A i \in 1..Len(replies) : replies[i] = asked[of[i]]
    /\ \A i, j \in 1..Len(replies) : i < j => of[i] < of[j]

\* A query is answered however it is cut, if not between the ESC and the backslash of an
\* ST and if it is within the limits (query.go feedLocked).
UncutAnswered == reader = "responder" /\ todo = <<>> /\ ~torn => replies = asked

\* Feed: "Queries split across chunks are buffered until complete or until they prove
\* not to be queries" (query.go:76).
SplitAnswered == reader = "responder" /\ todo = <<>> /\ pending = <<>> => replies = asked

\* A cut marker harms only its own command: once a command's start is read whole the metadata
\* says that it runs, once its end is that none does, and after both that it was the last,
\* whichever markers were cut before and however many share a chunk (terminal.go Feed).
CommandsExact ==
  LET whole(effect, k) == <<effect, k>> \notin cut
      ended == IF phase = "idle" THEN command ELSE command - 1
  IN reader = "terminal" /\ todo = <<>> =>
       /\ phase = "running" /\ whole("start", command) => shell.running = command
       /\ phase # "running" /\ (ended > 0 => whole("end", ended)) => shell.running = 0
       /\ ended > 0 /\ whole("start", ended) /\ whole("end", ended) => shell.last = ended

\* Whether the cursor is at a prompt is known however markers are cut: the emulator, unlike
\* findOSC133, keeps what it has read of one, and every chunk ends with a look at it
\* (terminal.go refreshAtPromptLocked).
AtPromptExact == reader = "terminal" /\ todo = <<>> => shell.atPrompt = (phase = "typed")

\* Of a marker that was cut "the safe result is unknown, never a guessed value"
\* (semantic.go:47): a command is not said to run when another does, or none.
NeverGuessed ==
  reader = "terminal" /\ todo = <<>> => shell.running \in {0, IF phase = "running" THEN command ELSE 0}

\* "LastExitCode is the exit status the shell reported for the last command through
\* OSC 133;D" (session.go:226).
ExitOfLast == shell.exit # "none" /\ shell.last # 0 => shell.exit = reported[shell.last]
=============================================================================
