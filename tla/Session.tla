------------------------------- MODULE Session -------------------------------
(***************************************************************************)
(* One live session (src/process.go, src/session.go): the child on its     *)
(* PTY, the copy loop that records its output in the log and feeds the     *)
(* emulator, the clients that resize, checkpoint, rotate, write input and  *)
(* terminate, and the admin handler that pauses the copy loop with a       *)
(* migration ticket and then commits or aborts the handoff.                *)
(*                                                                         *)
(* The locks are not variables: who holds one follows from where it is.    *)
(*   lifecycleMu   read: a client that is not idle;  write: adm in Frozen  *)
(*   operationMu   read: Shares(c);  write: Excludes(c), a pending ticket  *)
(*   inputMu       Inputs(c)                                               *)
(*   outputMu      HoldsOutput(a)                                          *)
(* Terminal sizes are numbered in the order the resizes happen: size k is  *)
(* the one the k-th resize sets.                                           *)
(***************************************************************************)
EXTENDS Naturals, Sequences, FiniteSets

CONSTANTS
  Clients,     \* goroutines that call the session's methods
  Loop,        \* the goroutine of copyOutput
  Ops,         \* the calls the clients make
  MaxBytes,    \* bound on the bytes the child writes
  MaxSize,     \* bound on the resizes
  MaxTickets,  \* bound on the handoff attempts
  Hardships    \* what the environment may do: see Hardship

\* "detach": the child closes its terminal and runs on; "escape": a descendant
\* outside the process group keeps the terminal open; "slowkill": a killed
\* child outlives terminateWait; "noread": the child stops reading its input;
\* "disk": a write to the log fails; "stall": the copy loop is held up (by a
\* slow disk) for longer than adminTimeout.
Hardship == {"detach", "escape", "slowkill", "noread", "disk", "stall"}
AllOps   == {"resize", "checkpoint", "rotate", "input", "terminate"}

ASSUME SessionAssumption ==
  /\ Loop \notin Clients
  /\ Ops \subseteq AllOps
  /\ MaxBytes \in Nat /\ MaxSize \in Nat /\ MaxTickets \in Nat
  /\ Hardships \subseteq Hardship

VARIABLES
  procs,     \* processes that run: the child, a descendant that escaped
  holds,     \* those that have the slave side open
  killed,    \* SIGKILL was sent to the child's process group
  ours,      \* state.command # nil: the child is this process's to reap
  made,      \* bytes the child wrote
  pty,       \* those the master has not read, with the size they were made for
  winsize,   \* size of the PTY
  room,      \* the input queue of the PTY has room
  master,    \* the master is open
  log,       \* recorded bytes, each with the size the log gives for it
  gen,       \* the log's generation
  failed,    \* the log refused a write: terminalError # nil
  vt,        \* bytes fed to the emulator, each with the grid it was parsed on
  vtsize,    \* the emulator's grid
  size,      \* state.size and the last size mark
  ended,     \* closeOnce has run: the emulator and the log are closed
  reaped,    \* state.reaped is closed
  done,      \* state.done is closed
  migrated,  \* state.migrated
  tickets,   \* every ticket ever made
  migration, \* state.migration: an index into tickets, 0 for nil
  wake,      \* bytes in the migration wake pipe
  mine,      \* the ticket the copy loop serves, 0 if none
  pc,        \* where the copy loop and the clients are
  hand,      \* the chunk each of them has read from the master
  shot,      \* the last checkpoint of each client
  adm        \* where the admin handler is

procVars   == <<procs, holds, killed, ours>>
ptyVars    == <<made, pty, winsize, room>>
logVars    == <<log, gen, failed>>
screenVars == <<vt, vtsize, size>>
endVars    == <<master, ended, reaped, done>>
ticketVars == <<migrated, tickets, migration, wake, adm>>
outside == <<procVars, endVars, ticketVars, mine>>
data    == <<ptyVars, logVars, screenVars>>
local   == <<pc, hand, shot>>
vars    == <<outside, data, local>>

Actors == Clients \cup {Loop}
NoShot == [screen |-> <<>>, cursor |-> 0]
Goto(a, where) == pc' = [pc EXCEPT ![a] = where]

\* A client that is inside lifecycleMu and waits for the session's locks is at
\* the name of its call.
Resizes == {"drain", "append", "feed", "grid", "winsize"}

\* Faulty variants: outputMu is released between read and append, between the
\* screen and its cursor, between the grid and the size mark.
Faulty_ReadUnlocked(a) ==
  pc[a] \in {"feed", "grid", "winsize", "capture", "cursor"}
Faulty_CaptureUnlocked(a) ==
  pc[a] \in {"append", "feed", "grid", "winsize"} \/ (a \in Clients /\ pc[a] = "drain")
Faulty_ResizeUnlocked(a) ==
  pc[a] \in {"append", "feed", "capture", "cursor"} \/ (a \in Clients /\ pc[a] = "drain")

Shares(c)      == pc[c] \in Resizes \cup {"capture", "cursor", "write"}
Inputs(c)      == pc[c] \in Resizes \cup {"write"}
Excludes(c)    == pc[c] \in {"hup", "kill", "reaped"}
HoldsOutput(a) ==
  \/ pc[a] \in {"append", "feed", "grid", "winsize", "capture", "cursor"}
  \/ a \in Clients /\ pc[a] = "drain"

Resizing   == {c \in Clients : pc[c] \in Resizes \cup {"resize"}}
OutputFree == \A a \in Actors : ~HoldsOutput(a)
InputFree  == \A c \in Clients : ~Inputs(c)

\* operationMu.RLock goes through: no writer, and none that waits for it.
GateShared == \A c \in Clients : ~Excludes(c) /\ pc[c] # "terminate"
GateFree   == \A c \in Clients : ~Excludes(c) /\ ~Shares(c)

Frozen == {"frozen", "begun", "prepared", "deciding"}

-----------------------------------------------------------------------------
\* startSession, or adoptState after a handoff (then the child is not ours).
Init ==
  /\ procs = {"child"} \cup (IF "escape" \in Hardships THEN {"escapee"} ELSE {})
  /\ holds = procs
  /\ killed = FALSE
  /\ ours \in BOOLEAN
  /\ made = 0
  /\ pty = <<>>
  /\ winsize = 0
  /\ room = TRUE
  /\ master = TRUE
  /\ log = <<>>
  /\ gen = 1
  /\ failed = FALSE
  /\ vt = <<>>
  /\ vtsize = 0
  /\ size = 0
  /\ ended = FALSE
  /\ reaped = FALSE
  /\ done = FALSE
  /\ migrated = FALSE
  /\ tickets = <<>>
  /\ migration = 0
  /\ wake = 0
  /\ mine = 0
  /\ pc = [a \in Actors |-> IF a = Loop THEN "top" ELSE "idle"]
  /\ hand = [a \in Actors |-> <<>>]
  /\ shot = [c \in Clients |-> NoShot]
  /\ adm = "idle"

-----------------------------------------------------------------------------
\* The child and the kernel.

ChildWrites ==
  /\ "child" \in holds /\ (master \/ migrated)
  /\ made < MaxBytes
  /\ made' = made + 1
  /\ pty' = Append(pty, [n |-> made + 1, size |-> winsize])
  /\ UNCHANGED <<outside, local, logVars, screenVars, winsize, room>>

\* A process ends: the child on its own, on SIGHUP or on SIGKILL.
Exit(p) ==
  /\ p \in procs
  /\ procs' = procs \ {p}
  /\ holds' = holds \ {p}
  /\ UNCHANGED <<data, local, endVars, ticketVars, killed, ours, mine>>

ChildDetaches ==
  /\ "detach" \in Hardships
  /\ "child" \in holds
  /\ holds' = holds \ {"child"}
  /\ UNCHANGED <<data, local, endVars, ticketVars, procs, killed, ours, mine>>

ChildReads ==
  /\ "child" \in holds
  /\ ~room
  /\ room' = TRUE
  /\ UNCHANGED <<outside, local, logVars, screenVars, made, pty, winsize>>

-----------------------------------------------------------------------------
\* The copy loop, and the steps it shares with a draining resize.

Readable == master /\ (pty # <<>> \/ holds = {})

Ticket == tickets[migration]

\* Faulty variant: the ticket is stable before the drain.
Faulty_LoopTop ==
  /\ pc[Loop] = "top"
  /\ IF migration # 0 /\ Ticket.alive /\ Ticket.decided = "no"
     THEN /\ mine' = migration
          /\ tickets' = [tickets EXCEPT ![migration].stable = TRUE]
          /\ Goto(Loop, "drain")
     ELSE /\ mine' = 0
          /\ Goto(Loop, "poll")
          /\ UNCHANGED tickets
  /\ UNCHANGED <<data, procVars, endVars, migrated, migration, wake, adm, hand,
                 shot>>

\* Top of copyOutputLoop: an undecided ticket is served first.
LoopTop ==
  /\ pc[Loop] = "top"
  /\ IF migration # 0 /\ Ticket.alive /\ Ticket.decided = "no"
     THEN /\ mine' = migration
          /\ Goto(Loop, "drain")
     ELSE /\ mine' = 0
          /\ Goto(Loop, "poll")
  /\ UNCHANGED <<data, procVars, endVars, ticketVars, hand, shot>>

\* waitOutputOrMigration: the wake pipe goes before the PTY.  A master that
\* was closed meanwhile polls as fd -1, which is never ready.
LoopPoll ==
  /\ pc[Loop] = "poll"
  /\ \/ /\ wake > 0 /\ ~ended
        /\ wake' = wake - 1
        /\ Goto(Loop, "top")
     \/ /\ wake = 0 /\ Readable
        /\ Goto(Loop, "check")
        /\ UNCHANGED wake
  /\ UNCHANGED <<data, procVars, endVars, migrated, tickets, migration, adm,
                 mine, hand, shot>>

\* master.Read returns k bytes.
Take(a, k) ==
  /\ hand' = [hand EXCEPT ![a] = SubSeq(pty, 1, k)]
  /\ pty' = SubSeq(pty, k + 1, Len(pty))

\* outputMu, the second readiness check and the read; EIO ends the loop.
LoopRead ==
  /\ pc[Loop] = "check"
  /\ OutputFree
  /\ \/ /\ ~Readable
        /\ Goto(Loop, "top")
        /\ UNCHANGED <<pty, hand>>
     \/ /\ Readable
        /\ \E k \in 1 .. Len(pty) : Take(Loop, k)
        /\ Goto(Loop, "append")
     \/ /\ Readable /\ pty = <<>>
        /\ Goto(Loop, "exit")
        /\ UNCHANGED <<pty, hand>>
  /\ UNCHANGED <<outside, logVars, screenVars, made, winsize, room, shot>>

\* output.append under outputMu.
AppendChunk(a) ==
  /\ pc[a] = "append"
  /\ \/ /\ ~failed /\ ~ended
        /\ log' = log \o [i \in DOMAIN hand[a] |->
                            [n |-> hand[a][i].n, made |-> hand[a][i].size,
                             mark |-> size]]
        /\ Goto(a, "feed")
        /\ UNCHANGED <<failed, hand, tickets>>
     \/ /\ failed \/ ended \/ "disk" \in Hardships
        /\ failed' = (failed \/ ~ended)
        /\ hand' = [hand EXCEPT ![a] = <<>>]
        /\ Goto(a, IF a \in Clients THEN "idle"
                   ELSE IF mine = 0 THEN "exit" ELSE "parked")
        /\ tickets' = IF a = Loop /\ mine # 0
                      THEN [tickets EXCEPT ![mine].stable = TRUE, ![mine].err = TRUE]
                      ELSE tickets
        /\ UNCHANGED log
  /\ UNCHANGED <<procVars, ptyVars, screenVars, endVars, gen, migrated,
                 migration, wake, adm, mine, shot>>

\* vt.Feed under outputMu, and the unlock.
FeedChunk(a) ==
  /\ pc[a] = "feed"
  /\ vt' = IF ended THEN vt
           ELSE vt \o [i \in DOMAIN hand[a] |->
                         [n |-> hand[a][i].n, grid |-> vtsize]]
  /\ hand' = [hand EXCEPT ![a] = <<>>]
  /\ Goto(a, IF a \in Clients \/ mine # 0 THEN "drain" ELSE "top")
  /\ UNCHANGED <<outside, ptyVars, logVars, vtsize, size, shot>>

\* drainOutput reads outside outputMu; it stops when nothing is readable, at
\* its budget or deadline, or with the PTY's read error.
LoopDrain ==
  /\ pc[Loop] = "drain"
  /\ \/ /\ Readable
        /\ \E k \in 1 .. Len(pty) : Take(Loop, k)
        /\ Goto(Loop, "lock")
        /\ UNCHANGED tickets
     \/ /\ \E err \in {FALSE, Readable /\ pty = <<>>} :
             tickets' = [tickets EXCEPT ![mine].stable = TRUE, ![mine].err = err]
        /\ Goto(Loop, "parked")
        /\ UNCHANGED <<pty, hand>>
  /\ UNCHANGED <<procVars, logVars, screenVars, endVars, made, winsize, room,
                 migrated, migration, wake, adm, mine, shot>>

LoopDrainLock ==
  /\ pc[Loop] = "lock"
  /\ OutputFree
  /\ Goto(Loop, "append")
  /\ UNCHANGED <<outside, data, hand, shot>>

\* Faulty variants: a commit does not end the loop; markStopped is missing.
Faulty_LoopGoesOn ==
  /\ pc[Loop] = "parked"
  /\ tickets[mine].decided # "no"
  /\ tickets' = [tickets EXCEPT ![mine].stopped = TRUE]
  /\ Goto(Loop, IF tickets[mine].err THEN "exit" ELSE "top")
  /\ mine' = 0
  /\ UNCHANGED <<data, procVars, endVars, migrated, migration, wake, adm, hand,
                 shot>>
Faulty_LoopUnmarked ==
  /\ pc[Loop] = "parked"
  /\ tickets[mine].decided # "no"
  /\ Goto(Loop, IF tickets[mine].err \/ tickets[mine].decided = "commit"
                THEN "exit" ELSE "top")
  /\ mine' = 0
  /\ UNCHANGED <<data, procVars, endVars, ticketVars, hand, shot>>

\* <-ticket.decide and markStopped: a commit or a failed drain ends the loop.
LoopDecided ==
  /\ pc[Loop] = "parked"
  /\ tickets[mine].decided # "no"
  /\ tickets' = [tickets EXCEPT ![mine].stopped = TRUE]
  /\ Goto(Loop, IF tickets[mine].err \/ tickets[mine].decided = "commit"
                THEN "exit" ELSE "top")
  /\ mine' = 0
  /\ UNCHANGED <<data, procVars, endVars, migrated, migration, wake, adm, hand,
                 shot>>

\* copyOutput after the loop: whom to wait for.  A failed log is fatal to a
\* child of ours (waitSessionCommand closes the master and kills it).
LoopExit ==
  /\ pc[Loop] = "exit"
  /\ IF ours /\ ~migrated
     THEN /\ Goto(Loop, "wait")
          /\ killed' = (killed \/ failed)
          /\ master' = (master /\ ~failed)
          /\ UNCHANGED reaped
     ELSE /\ Goto(Loop, "settle")
          /\ reaped' = TRUE
          /\ UNCHANGED <<killed, master>>
  /\ UNCHANGED <<data, ticketVars, procs, holds, ours, ended, done, mine, hand,
                 shot>>

LoopReap ==
  /\ pc[Loop] = "wait"
  /\ "child" \notin procs
  /\ reaped' = TRUE
  /\ Goto(Loop, "settle")
  /\ UNCHANGED <<data, procVars, ticketVars, master, ended, done, mine, hand,
                 shot>>

\* The first deferred function: settle a ticket that nobody serves.
LoopSettle ==
  /\ pc[Loop] = "settle"
  /\ Goto(Loop, "close")
  /\ tickets' = IF migration # 0 /\ Ticket.decided = "no"
                THEN [tickets EXCEPT ![migration] =
                        [@ EXCEPT !.stable = TRUE, !.err = TRUE,
                                  !.decided = "abort", !.stopped = TRUE]]
                ELSE tickets
  /\ UNCHANGED <<data, procVars, endVars, migrated, migration, wake, adm, mine,
                 hand, shot>>

\* Faulty variant: done is not closed.
Faulty_LoopClose ==
  /\ pc[Loop] = "close"
  /\ Goto(Loop, "done")
  /\ master' = (master /\ migrated)
  /\ UNCHANGED <<data, procVars, ticketVars, ended, reaped, done, mine, hand, shot>>

\* The other deferred functions: the master, the wake pipe, the log, done.
LoopClose ==
  /\ pc[Loop] = "close"
  /\ Goto(Loop, "done")
  /\ master' = (master /\ migrated)
  /\ done' = TRUE
  /\ UNCHANGED <<data, procVars, ticketVars, ended, reaped, mine, hand, shot>>

LoopStep ==
  \/ LoopTop \/ LoopPoll \/ LoopRead \/ AppendChunk(Loop) \/ FeedChunk(Loop)
  \/ LoopDrain \/ LoopDrainLock \/ LoopDecided
  \/ LoopExit \/ LoopReap \/ LoopSettle \/ LoopClose

-----------------------------------------------------------------------------
\* The clients.

\* lifecycleMu.RLock and current(): a batch that waits for the write side
\* already keeps new readers out; a session that moved away is not current,
\* which rotateOutput does not ask.
Enter(c, o) ==
  /\ pc[c] = "idle"
  /\ adm = "idle"
  /\ migrated => o = "rotate"
  /\ o = "resize" => winsize + Cardinality(Resizing) < MaxSize
  /\ Goto(c, o)
  /\ UNCHANGED <<outside, data, hand, shot>>

\* resize up to drainResizeOutput.
ResizeLock(c) ==
  /\ pc[c] = "resize"
  /\ InputFree /\ GateShared /\ OutputFree
  /\ Goto(c, "drain")
  /\ UNCHANGED <<outside, data, hand, shot>>

\* drainResizeOutput: it may stop early at its budget or deadline.
ResizeDrain(c) ==
  /\ pc[c] = "drain"
  /\ \/ /\ Readable
        /\ \E k \in 1 .. Len(pty) : Take(c, k)
        /\ Goto(c, "append")
     \/ /\ Goto(c, "grid")
        /\ UNCHANGED <<pty, hand>>
  /\ UNCHANGED <<outside, logVars, screenVars, made, winsize, room, shot>>

\* vt.Resize, to the next size.
ResizeGrid(c) ==
  /\ pc[c] = "grid"
  /\ vtsize' = winsize + 1
  /\ Goto(c, "winsize")
  /\ UNCHANGED <<outside, ptyVars, logVars, vt, size, hand, shot>>

\* ptySetSize, which fails on a closed master; then size, markSize, unlock.
ResizePty(c) ==
  /\ pc[c] = "winsize"
  /\ Goto(c, "idle")
  /\ \/ /\ master
        /\ winsize' = vtsize
        /\ size' = vtsize
     \/ /\ ~master
        /\ UNCHANGED <<winsize, size>>
  /\ UNCHANGED <<outside, logVars, made, pty, room, vt, vtsize, hand, shot>>

\* checkpoint, replay and atomicState: the locks, the emulator's screen, then
\* the log's cursor.  A closed emulator or a failed log is an error.
CheckpointLock(c) ==
  /\ pc[c] = "checkpoint"
  /\ GateShared /\ OutputFree
  /\ Goto(c, IF ended THEN "idle" ELSE "capture")
  /\ UNCHANGED <<outside, data, hand, shot>>

CaptureScreen(c) ==
  /\ pc[c] = "capture"
  /\ shot' = [shot EXCEPT ![c] = [screen |-> vt, cursor |-> 0]]
  /\ Goto(c, "cursor")
  /\ UNCHANGED <<outside, data, hand>>

CaptureCursor(c) ==
  /\ pc[c] = "cursor"
  /\ shot' = [shot EXCEPT ![c] = IF failed THEN NoShot
                                 ELSE [@ EXCEPT !.cursor = Len(log)]]
  /\ Goto(c, "idle")
  /\ UNCHANGED <<outside, data, hand>>

RotateOutput(c) ==
  /\ pc[c] = "rotate"
  /\ GateShared /\ OutputFree
  /\ Goto(c, "idle")
  /\ gen' = IF failed \/ ended \/ done THEN gen ELSE 3 - gen
  /\ UNCHANGED <<outside, ptyVars, screenVars, log, failed, hand, shot>>

\* writeInput: the locks, then a write that may block in the kernel.
InputLock(c) ==
  /\ pc[c] = "input"
  /\ InputFree /\ GateShared
  /\ Goto(c, "write")
  /\ UNCHANGED <<outside, data, hand, shot>>

\* Faulty variant: a write that fails is tried again.
Faulty_WriteInput(c) ==
  /\ pc[c] = "write"
  /\ room
  /\ room' \in BOOLEAN
  /\ Goto(c, "idle")
  /\ UNCHANGED <<outside, logVars, screenVars, made, pty, winsize, hand, shot>>

\* The write returns when the input queue has room, or with an error once no
\* process has the terminal open or the master is closed.
WriteInput(c) ==
  /\ pc[c] = "write"
  /\ room \/ holds = {} \/ ~master
  /\ room' \in {room, FALSE}
  /\ Goto(c, "idle")
  /\ UNCHANGED <<outside, logVars, screenVars, made, pty, winsize, hand, shot>>

\* sessionState.close.
CloseSession == /\ master' = FALSE
                /\ ended' = TRUE

\* terminate: the write side of the gate; a session that is done is closed,
\* any other one gets SIGHUP.
TerminateLock(c) ==
  /\ pc[c] = "terminate"
  /\ GateFree
  /\ IF done THEN Goto(c, "idle") /\ CloseSession
             ELSE Goto(c, "hup") /\ UNCHANGED <<master, ended>>
  /\ UNCHANGED <<data, procVars, ticketVars, reaped, done, mine, hand, shot>>

\* Faulty variant: a kill that was sent counts as an exit.
Faulty_TerminateReaped(c) ==
  /\ pc[c] = "kill" \/ (pc[c] = "hup" /\ reaped)
  /\ Goto(c, "reaped")
  /\ UNCHANGED <<outside, data, hand, shot>>

TerminateReaped(c) ==
  /\ pc[c] \in {"hup", "kill"}
  /\ reaped
  /\ Goto(c, "reaped")
  /\ UNCHANGED <<outside, data, hand, shot>>

\* terminateGrace is over.
TerminateKill(c) ==
  /\ pc[c] = "hup"
  /\ ~reaped
  /\ killed' = TRUE
  /\ Goto(c, "kill")
  /\ UNCHANGED <<data, endVars, ticketVars, procs, holds, ours, mine, hand,
                 shot>>

\* terminateWait is over as well: "did not reap".  A killed child is reaped in
\* time unless it is slow to die or something else holds the terminal.
TerminateGivesUp(c) ==
  /\ pc[c] = "kill"
  /\ ~reaped
  /\ \/ "slowkill" \in Hardships /\ "child" \in procs
     \/ holds \ {"child"} # {}
  /\ CloseSession
  /\ Goto(c, "idle")
  /\ UNCHANGED <<data, procVars, ticketVars, reaped, done, mine, hand, shot>>

\* <-done, or terminateWait once more; close.
TerminateClose(c) ==
  /\ pc[c] = "reaped"
  /\ CloseSession
  /\ Goto(c, "idle")
  /\ UNCHANGED <<data, procVars, ticketVars, reaped, done, mine, hand, shot>>

ClientStep(c) ==
  \/ ResizeLock(c) \/ ResizeDrain(c) \/ AppendChunk(c) \/ FeedChunk(c)
  \/ ResizeGrid(c) \/ ResizePty(c)
  \/ CheckpointLock(c) \/ CaptureScreen(c) \/ CaptureCursor(c)
  \/ RotateOutput(c) \/ InputLock(c) \/ WriteInput(c)
  \/ TerminateLock(c) \/ TerminateReaped(c) \/ TerminateKill(c)
  \/ TerminateGivesUp(c) \/ TerminateClose(c)

-----------------------------------------------------------------------------
\* The admin handler, for this session.

NewTicket(live) ==
  [alive |-> live, stable |-> ~live, err |-> FALSE, decided |-> "no",
   stopped |-> ~live]

\* list: beginMigrationBatch waits for every reader to leave.
AdminList ==
  /\ adm = "idle"
  /\ ~migrated
  /\ Len(tickets) < MaxTickets
  /\ adm' = "waiting"
  /\ UNCHANGED <<data, local, procVars, endVars, migrated, tickets, migration,
                 wake, mine>>

\* A failed log makes list fail, and the batch ends.
AdminFreeze ==
  /\ adm = "waiting"
  /\ \A c \in Clients : pc[c] = "idle"
  /\ OutputFree
  /\ adm' = IF failed THEN "idle" ELSE "frozen"
  /\ UNCHANGED <<data, local, procVars, endVars, migrated, tickets, migration,
                 wake, mine>>

\* adopt: beginMigration, and the byte that wakes the copy loop.
BeginMigration ==
  /\ adm = "frozen"
  /\ migration = 0 /\ ~migrated
  /\ Len(tickets) < MaxTickets
  /\ tickets' = Append(tickets, NewTicket(~done))
  /\ migration' = Len(tickets) + 1
  /\ wake' = IF done THEN wake ELSE wake + 1
  /\ adm' = "begun"
  /\ UNCHANGED <<data, local, procVars, endVars, migrated, mine>>

\* finishMigration up to its wait; choose writes the decision once.
Decide(commit) ==
  /\ migrated' = (commit /\ ~Ticket.err)
  /\ tickets' = [tickets EXCEPT ![migration].decided =
                   IF @ # "no" THEN @
                   ELSE IF migrated' THEN "commit" ELSE "abort"]
  /\ adm' = "deciding"
  /\ UNCHANGED <<migration, wake>>

\* The copy loop gets to the ticket in time, if it still can.
Prompt == "stall" \notin Hardships /\ ~ended
          /\ pc[Loop] \notin {"exit", "wait", "settle", "close", "done"}

\* adopt, continued: the ticket is stable in time or not.
AdminPrepare ==
  /\ adm = "begun"
  /\ \/ /\ Ticket.stable /\ ~Ticket.err /\ ~failed
        /\ OutputFree
        /\ adm' = "prepared"
        /\ UNCHANGED <<migrated, tickets, migration, wake>>
     \/ /\ IF Ticket.stable THEN Ticket.err \/ failed ELSE ~Prompt
        /\ Decide(FALSE)
  /\ UNCHANGED <<data, local, procVars, endVars, mine>>

\* commit with its preflight, abort, or a connection that is gone.
AdminResolve(commit) ==
  /\ adm = "prepared"
  /\ Decide(commit)
  /\ UNCHANGED <<data, local, procVars, endVars, mine>>

\* finishMigration, continued: the copy loop saw the decision or is gone.
FinishMigration ==
  /\ adm = "deciding"
  /\ Ticket.stopped \/ done
  /\ migration' = 0
  /\ master' = (master /\ ~migrated)
  /\ adm' = "frozen"
  /\ UNCHANGED <<data, local, procVars, ended, reaped, done, migrated, tickets,
                 wake, mine>>

\* endMigrationBatch, after the commit or when the connection ends.
AdminEnd ==
  /\ adm = "frozen"
  /\ adm' = "idle"
  /\ UNCHANGED <<data, local, procVars, endVars, migrated, tickets, migration,
                 wake, mine>>

AdminStep ==
  \/ AdminFreeze \/ BeginMigration \/ AdminPrepare
  \/ \E commit \in BOOLEAN : AdminResolve(commit)
  \/ FinishMigration \/ AdminEnd

-----------------------------------------------------------------------------
Next ==
  \/ ChildWrites \/ ChildDetaches \/ ChildReads
  \/ \E p \in procs : Exit(p)
  \/ LoopStep
  \/ \E c \in Clients : (\E o \in Ops : Enter(c, o)) \/ ClientStep(c)
  \/ AdminList \/ AdminStep

Spec == Init /\ [][Next]_vars

\* Goroutines are scheduled and Go's locks starve nobody; timers fire; a killed
\* child dies; and, unless a run says otherwise, the child reads its input.
Fairness ==
  /\ SF_vars(LoopStep)
  /\ \A c \in Clients : SF_vars(ClientStep(c))
  /\ SF_vars(AdminStep)
  /\ WF_vars(killed /\ Exit("child"))
  /\ \A h \in {"noread"} \ Hardships : WF_vars(ChildReads)
FairSpec == Spec /\ Fairness

-----------------------------------------------------------------------------
\* Properties.

Places == {"top", "poll", "check", "lock", "parked", "exit", "wait", "settle",
           "close", "done", "idle", "capture", "cursor", "write", "hup", "kill",
           "reaped"} \cup Resizes \cup AllOps

TicketType == [alive : BOOLEAN, stable : BOOLEAN, err : BOOLEAN,
               decided : {"no", "commit", "abort"}, stopped : BOOLEAN]

\* Only that every variable has its type.
TypeOK ==
  /\ procs \subseteq {"child", "escapee"} /\ holds \subseteq procs
  /\ made \in 0 .. MaxBytes
  /\ pty \in Seq([n : 1 .. made, size : 0 .. MaxSize])
  /\ {winsize, vtsize, size} \subseteq 0 .. MaxSize
  /\ log \in Seq([n : 1 .. made, made : 0 .. MaxSize, mark : 0 .. MaxSize])
  /\ vt \in Seq([n : 1 .. made, grid : 0 .. MaxSize])
  /\ gen \in 1 .. 2
  /\ {killed, ours, room, master, failed, ended, reaped, done, migrated}
       \subseteq BOOLEAN
  /\ tickets \in Seq(TicketType)
  /\ {migration, mine} \subseteq 0 .. Len(tickets)
  /\ wake \in 0 .. Len(tickets)
  /\ pc \in [Actors -> Places]
  /\ hand \in [Actors -> Seq([n : 1 .. made, size : 0 .. MaxSize])]
  /\ adm \in Frozen \cup {"idle", "waiting"}

Numbers(s) == [i \in DOMAIN s |-> s[i].n]
\* What was read from the master and is not recorded yet.
Unrecorded == {a \in Actors : hand[a] # <<>> /\ pc[a] # "feed"}
InFlight   == IF Unrecorded = {} THEN <<>>
              ELSE hand[CHOOSE a \in Unrecorded : TRUE]

\* No byte of the child is lost, doubled or reordered on its way from the PTY
\* to the log, although the copy loop, a migration drain (which reads outside
\* outputMu) and resizes all read the master; one is dropped only when the log
\* fails or the session is closed under a loop that never ended.
OutputInOrder ==
  /\ Numbers(log) = [i \in DOMAIN log |-> i]
  /\ \/ failed \/ ended
     \/ Numbers(log) \o Numbers(InFlight) \o Numbers(pty) = [i \in 1 .. made |-> i]

\* A checkpoint's screen is the emulator after exactly the bytes before its
\* cursor: a client that replays it and reads on sees no gap and no repeat.
CheckpointExact ==
  \A c \in Clients : pc[c] = "idle" =>
    Numbers(shot[c].screen) = SubSeq(Numbers(log), 1, shot[c].cursor)

\* The size the log records for a byte is the grid the emulator parsed it on,
\* and never one older than the size the child made it for.
SizesAgree ==
  \A i \in DOMAIN vt : /\ i \in DOMAIN log
                       /\ vt[i].n = log[i].n
                       /\ vt[i].grid = log[i].mark
                       /\ log[i].made <= log[i].mark

\* The prepared snapshot covers the log to its end.  (A Terminate that gave up
\* has closed the emulator and the master: then there is nothing to hand over.)
HandoffExact == adm = "prepared" /\ ~ended => Numbers(vt) = Numbers(log)

\* Once a commit is decided this process reads the PTY no more: the bytes left
\* in it are the next server's.
CommittedReadsNoMore == [][migrated /\ master => Len(pty') >= Len(pty)]_vars

\* Terminate returns without error only when a child of ours is dead.
TerminatedMeansDead ==
  [][\A c \in Clients : pc[c] = "reaped" /\ pc'[c] = "idle" /\ ours
       => "child" \notin procs]_vars

\* Every handoff attempt ends and the session is served again (or has moved):
\* no ticket strands the admin handler, also when the child exits meanwhile.
HandoffResolves == adm = "begun" ~> adm = "idle"

\* README.md:213: "Terminate ends the process tree".
TerminateReturns ==
  \A c \in Clients : pc[c] = "terminate" ~> pc[c] = "idle"

\* README.md:210: "Wait reports *ExitError": once no process is left, done
\* is closed.
WaitReturns == procs = {} ~> done

\* docs/rfc/0002-serve-rolling-upgrade.md:59: "The source releases ownership": after
\* the commit it does not change the log that the next server has open.
MovedLogUntouched == [][migrated => UNCHANGED <<log, gen>>]_vars

\* Comment of resize: "every byte that reached the PTY before the resize lands
\* in the log ahead of the size mark".
ResizeTakesBacklog ==
  [][\A c \in Clients : pc[c] = "drain" /\ pc'[c] = "grid" => pty = <<>>]_vars

=============================================================================
