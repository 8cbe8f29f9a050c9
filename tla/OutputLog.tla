------------------------------ MODULE OutputLog ------------------------------
(***************************************************************************)
(* The raw output log of one session (src/output.go): an active segment,   *)
(* the completed segments before it, the in-memory marks that say for      *)
(* which terminal grid each byte was produced, and the readers that drain  *)
(* the log while it is appended to, rotated, pruned, closed, deleted or    *)
(* adopted by the next server process.                                     *)
(*                                                                         *)
(* A byte is abstracted to the grid it was produced for: that is all the   *)
(* properties tell apart beside its position.  Every section the code runs *)
(* under outputLog.mu is one step; what it runs after an unlock (os.Open,  *)
(* ReadAt) is a step of its own.                                           *)
(***************************************************************************)
EXTENDS Naturals, Sequences, FiniteSetsExt

CONSTANTS
  Readers,        \* OutputReaders
  SizedReaders,   \* the readers that call ReadSized rather than Read
  Grids,          \* terminal sizes
  NoGrid,         \* the zero Size: unknown
  MaxGeneration,  \* the last generation before uint64 wraps to 0
  MaxSegment,     \* bound on the bytes of one segment
  MaxAppend       \* bound on the bytes of one append

ASSUME LogAssumption ==
  /\ SizedReaders \subseteq Readers
  /\ NoGrid \notin Grids
  /\ MaxGeneration \in Nat \ {0}
  /\ MaxSegment \in Nat
  /\ MaxAppend \in Nat \ {0}

VARIABLES
  generation,  \* outputLog.generation
  segments,    \* outputLog.segments: generation -> recorded size
  files,       \* generations whose file is in the session's directory
  disk,        \* content of every file ever created, also once unlinked
  sizes,       \* outputLog.sizes: the size marks of each generation
  closed,      \* outputLog.closed
  failed,      \* outputLog.err # nil
  alive,       \* the session still has its PTY master
  grid,        \* the terminal's grid
  born,        \* where this process's log began (created or adopted)
  phase,       \* where each reader is
  cursor,      \* localOutputSource.cursor
  file,        \* generation of the descriptor the reader holds, 0 if none
  limit,       \* localOutputSource.fileLimit
  want,        \* what the pending file read may return: length and size
  reported,    \* localOutputSource.reported
  result       \* how the reader's last call ended

logVars    == <<generation, segments, files, disk, sizes, closed, failed,
                alive, grid, born>>
readerVars == <<phase, cursor, file, limit, want, reported, result>>
vars       == <<logVars, readerVars>>

Generations == 1 .. MaxGeneration
Cursors     == [gen : Generations, off : 0 .. MaxSegment]
Zero        == [gen |-> 0, off |-> 0]
At(g, o)    == [gen |-> g, off |-> o]
NoWant      == [n |-> 0, size |-> NoGrid]

\* Phases: no reader; resolved but not pinned; in a Read loop or between two
\* calls; about to read its file; blocked on the log's changed channel.
Phases  == {"none", "pin", "ready", "read", "wait"}
Results == {"none", "data", "size", "eof", "failed", "expired", "invalid",
            "notexist"}

Retained == DOMAIN segments
End      == At(generation, segments[generation])

-----------------------------------------------------------------------------
\* The size marks.  outputLog.sizes is one list in cursor order; here it is
\* split by generation, so that its last mark is the last one of the active
\* generation (rotate starts each generation with a mark).

Marks == sizes[generation]

\* Faulty variant: a mark does not cover the byte it stands at.
Faulty_CoversLater(c) == {i \in DOMAIN sizes[c.gen] : sizes[c.gen][i].off < c.off}

\* Marks of c's generation at or before c, and after c.
Covering(c)  == {i \in DOMAIN sizes[c.gen] : sizes[c.gen][i].off <= c.off}
Following(c) == {i \in DOMAIN sizes[c.gen] : sizes[c.gen][i].off > c.off}

\* Faulty variant: the next mark does not end the span.
Faulty_SpanEnd(c, e) == e

\* sizeSpanLocked: the size in effect at c, and where the next mark of c's
\* generation bounds it (e, the end of the readable bytes, if none does).
SizeAt(c) ==
  IF Covering(c) = {} THEN NoGrid ELSE sizes[c.gen][Max(Covering(c))].size
SpanEnd(c, e) ==
  IF Following(c) = {} THEN e
  ELSE LET o == sizes[c.gen][Min(Following(c))].off
       IN  IF o < e THEN o ELSE e

\* Faulty variant: nobody is woken.
Faulty_Signalled == phase

\* signalLocked: closing the changed channel releases every blocked reader.
Signalled == [r \in Readers |-> IF phase[r] = "wait" THEN "ready" ELSE phase[r]]
Signal    == /\ phase' = Signalled
             /\ UNCHANGED <<cursor, file, limit, want, reported, result>>

-----------------------------------------------------------------------------
\* createOutputLog, and the first markSize of startSession.
Init ==
  /\ generation = 1
  /\ segments = [g \in {1} |-> 0]
  /\ files = {1}
  /\ disk = <<<<>>>>
  /\ grid \in Grids
  /\ sizes = <<<<[off |-> 0, size |-> grid]>>>>
  /\ closed = FALSE
  /\ failed = FALSE
  /\ alive = TRUE
  /\ born = At(1, 0)
  /\ phase = [r \in Readers |-> "none"]
  /\ cursor = [r \in Readers |-> Zero]
  /\ file = [r \in Readers |-> 0]
  /\ limit = [r \in Readers |-> 0]
  /\ want = [r \in Readers |-> NoWant]
  /\ reported = [r \in Readers |-> NoGrid]
  /\ result = [r \in Readers |-> "none"]

-----------------------------------------------------------------------------
\* Operations of the log.

\* n bytes written to the active file.
Written(n) == [disk EXCEPT ![generation] = @ \o [i \in 1 .. n |-> grid]]

AppendOutput(n) ==
  /\ ~closed
  /\ segments[generation] + n <= MaxSegment
  /\ disk' = Written(n)
  /\ segments' = [segments EXCEPT ![generation] = @ + n]
  /\ Signal
  /\ UNCHANGED <<generation, files, sizes, closed, failed, alive, grid, born>>

\* writeFull stops after k bytes: they are in the file, never in the index.
AppendFails(k) ==
  /\ ~closed
  /\ segments[generation] + k < MaxSegment
  /\ disk' = Written(k)
  /\ closed' = TRUE
  /\ failed' = TRUE
  /\ Signal
  /\ UNCHANGED <<generation, segments, files, sizes, alive, grid, born>>

Rotate ==
  /\ ~closed
  /\ generation < MaxGeneration
  /\ generation' = generation + 1
  /\ segments' = [g \in Retained \cup {generation + 1} |->
                    IF g = generation + 1 THEN 0 ELSE segments[g]]
  /\ files' = files \cup {generation + 1}
  /\ disk' = Append(disk, <<>>)
  /\ sizes' = Append(sizes, IF Marks = <<>> THEN <<>>
                            ELSE <<[off |-> 0, size |-> Marks[Len(Marks)].size]>>)
  /\ Signal
  /\ UNCHANGED <<closed, failed, alive, grid, born>>

\* Faulty variant: the boundary's own generation goes too.
Faulty_Prunable(b) == {g \in Retained : g <= b}

\* Faulty variant: the files go, the index keeps them.
Faulty_Without(S) == segments

Prunable(b) == {g \in Retained : g < b /\ g # generation}
Without(S)  == [g \in Retained \ S |-> segments[g]]

\* prune(before), before at the start of generation b.  The marks of a
\* removed generation go with it.
Prune(b) ==
  /\ ~closed
  /\ b <= generation
  /\ segments' = Without(Prunable(b))
  /\ files' = files \ Prunable(b)
  /\ sizes' = [g \in DOMAIN sizes |->
                 IF g \in Retained \ Prunable(b) THEN sizes[g] ELSE <<>>]
  /\ Signal
  /\ UNCHANGED <<generation, disk, closed, failed, alive, grid, born>>

\* os.Remove fails for one generation: the ones removed before it, in map
\* order, stay removed; the marks are not touched and nobody is signalled.
PruneFails(b, gone) ==
  /\ ~closed
  /\ b <= generation
  /\ gone # Prunable(b)
  /\ segments' = Without(gone)
  /\ files' = files \ gone
  /\ UNCHANGED <<generation, disk, sizes, closed, failed, alive, grid, born,
                 readerVars>>

\* markSize, with collapseSizesLocked, as session.resize calls it: the grid has
\* just changed under the session's output lock.
MarkSize(s) ==
  LET count == Len(Marks)
      here  == segments[generation]
      repeats == count >= 2 /\ Marks[count - 1].size = s
      Becomes(marks) == /\ sizes' = [sizes EXCEPT ![generation] = marks]
                        /\ Signal
  IN
  /\ ~closed
  /\ grid' = s
  /\ \/ /\ count > 0 /\ Marks[count].size = s
        /\ UNCHANGED <<sizes, readerVars>>
     \/ /\ count > 0 /\ Marks[count].size # s /\ Marks[count].off = here
        /\ Becomes(IF repeats THEN SubSeq(Marks, 1, count - 1)
                   ELSE [Marks EXCEPT ![count].size = s])
     \/ /\ count > 0 => Marks[count].size # s /\ Marks[count].off # here
        /\ Becomes(Append(Marks, [off |-> here, size |-> s]))
  /\ UNCHANGED <<generation, segments, files, disk, closed, failed, alive, born>>

\* close(nil), run by the copy loop when the child is gone or when a migration
\* was committed (the child then lives on under the next server).
CloseLog(exited) ==
  /\ ~closed
  /\ closed' = TRUE
  /\ alive' = ~exited
  /\ Signal
  /\ UNCHANGED <<generation, segments, files, disk, sizes, failed, grid, born>>

\* discard, run by Session.Delete: close, then RemoveAll of the directory.  A
\* process that handed its session over no longer has it to delete.
Discard ==
  /\ files # {}
  /\ ~closed \/ failed \/ ~alive
  /\ closed' = TRUE
  /\ alive' = FALSE
  /\ files' = {}
  /\ Signal
  /\ UNCHANGED <<generation, segments, disk, sizes, failed, grid, born>>

\* adoptOutputLog and adoptStateWithTerminal in the next server process: the
\* index comes from the directory, the marks start over, and the readers of
\* the old process are gone (their clients keep the cursor they had reached).
\* A source whose log failed refuses the handoff (sessionMetaLocked).
Adopt ==
  /\ closed /\ ~failed
  /\ generation \in files
  /\ segments' = [g \in files |-> Len(disk[g])]
  /\ closed' = ~alive
  /\ sizes' = [g \in DOMAIN sizes |->
                 IF g = generation /\ alive
                 THEN <<[off |-> Len(disk[g]), size |-> grid]>> ELSE <<>>]
  /\ born' = At(generation, Len(disk[generation]))
  /\ phase' = [r \in Readers |-> "none"]
  /\ file' = [r \in Readers |-> 0]
  /\ limit' = [r \in Readers |-> 0]
  /\ want' = [r \in Readers |-> NoWant]
  /\ reported' = [r \in Readers |-> NoGrid]
  /\ result' = [r \in Readers |-> "none"]
  /\ UNCHANGED <<generation, files, disk, failed, alive, grid, cursor>>

-----------------------------------------------------------------------------
\* Operations of a reader.

Return(r, how) == result' = [result EXCEPT ![r] = how]

\* resolveCursorLocked: the zero cursor is the earliest retained byte.
Resolve(c) ==
  IF c = Zero THEN [ok |-> TRUE, at |-> At(Min(Retained), 0), why |-> "none"]
  ELSE IF c.gen \notin Retained
  THEN [ok |-> FALSE, at |-> c,
        why |-> IF c.gen < generation THEN "expired" ELSE "invalid"]
  ELSE [ok |-> c.off <= segments[c.gen], at |-> c, why |-> "invalid"]

\* outputLog.reader up to the unlock.
OpenReader(r, from) ==
  /\ phase[r] = "none"
  /\ LET found == Resolve(from) IN
     \/ /\ ~failed /\ found.ok
        /\ phase' = [phase EXCEPT ![r] = "pin"]
        /\ cursor' = [cursor EXCEPT ![r] = found.at]
        /\ limit' = [limit EXCEPT ![r] = segments[found.at.gen]]
        /\ Return(r, "none")
     \/ /\ ~failed /\ ~found.ok
        /\ Return(r, found.why)
        /\ UNCHANGED <<phase, cursor, limit>>
     \/ /\ failed
        /\ Return(r, "failed")
        /\ UNCHANGED <<phase, cursor, limit>>
  /\ UNCHANGED <<logVars, file, want, reported>>

\* localOutputSource.pin, after the unlock.
Pin(r) ==
  /\ phase[r] = "pin"
  /\ \/ /\ cursor[r].gen \in files
        /\ phase' = [phase EXCEPT ![r] = "ready"]
        /\ file' = [file EXCEPT ![r] = cursor[r].gen]
        /\ UNCHANGED result
     \/ /\ cursor[r].gen \notin files
        /\ phase' = [phase EXCEPT ![r] = "none"]
        /\ Return(r, "notexist")
        /\ UNCHANGED file
  /\ UNCHANGED <<logVars, cursor, limit, want, reported>>

\* Faulty variants: the limit cached when the segment was opened; the size of
\* the file; a completed segment noticed one generation late.
Faulty_CachedLimit(r) == limit[r]
Faulty_FileLimit(r)   == Len(disk[cursor[r].gen])
Faulty_Complete(r)    == cursor[r].gen + 1 < generation

Exists(r)   == cursor[r].gen \in Retained
Pinned(r)   == file[r] = cursor[r].gen
Complete(r) == cursor[r].gen < generation
Limit(r)    == IF Exists(r) THEN segments[cursor[r].gen] ELSE limit[r]
Readable(r) == Exists(r) \/ (Pinned(r) /\ Complete(r))
SizeFor(r)  == IF r \in SizedReaders THEN SizeAt(cursor[r]) ELSE NoGrid
EndFor(r)   == IF r \in SizedReaders THEN SpanEnd(cursor[r], Limit(r)) ELSE Limit(r)
News(r)     == SizeFor(r) \notin {NoGrid, reported[r]}

\* One pass of localOutputSource.read under the log's mutex.
ReadLocked(r) ==
  /\ phase[r] = "ready"
  /\ limit' = [limit EXCEPT ![r] = Limit(r)]
  /\ \/ /\ ~Readable(r)
        /\ Return(r, "expired")
        /\ UNCHANGED <<phase, cursor, file, want, reported>>
     \/ /\ Readable(r) /\ News(r)
        /\ reported' = [reported EXCEPT ![r] = SizeFor(r)]
        /\ Return(r, "size")
        /\ UNCHANGED <<phase, cursor, file, want>>
     \/ /\ Readable(r) /\ ~News(r) /\ cursor[r].off < EndFor(r)
        /\ phase' = [phase EXCEPT ![r] = "read"]
        /\ want' = [want EXCEPT ![r] = [n |-> EndFor(r) - cursor[r].off,
                                        size |-> SizeFor(r)]]
        /\ UNCHANGED <<cursor, file, reported, result>>
     \/ /\ Readable(r) /\ ~News(r) /\ cursor[r].off >= EndFor(r)
        /\ \/ /\ Complete(r)
              /\ file' = [file EXCEPT ![r] = 0]
              /\ cursor' = [cursor EXCEPT ![r] = At(@.gen + 1, 0)]
              /\ UNCHANGED <<phase, result>>
           \/ /\ ~Complete(r) /\ closed
              /\ Return(r, IF failed THEN "failed" ELSE "eof")
              /\ UNCHANGED <<phase, cursor, file>>
           \/ /\ ~Complete(r) /\ ~closed
              /\ phase' = [phase EXCEPT ![r] = "wait"]
              /\ UNCHANGED <<cursor, file, result>>
        /\ UNCHANGED <<want, reported>>
  /\ UNCHANGED logVars

\* openFile and ReadAt, after the unlock; n is bounded by the caller's buffer.
ReadFile(r, n) ==
  /\ phase[r] = "read"
  /\ phase' = [phase EXCEPT ![r] = "ready"]
  /\ want' = [want EXCEPT ![r] = NoWant]
  /\ \/ /\ Pinned(r) \/ cursor[r].gen \in files
        /\ n <= want[r].n
        /\ file' = [file EXCEPT ![r] = cursor[r].gen]
        /\ cursor' = [cursor EXCEPT ![r].off = @ + n]
        /\ Return(r, "data")
     \/ /\ ~Pinned(r) /\ cursor[r].gen \notin files
        /\ file' = [file EXCEPT ![r] = 0]
        /\ Return(r, "notexist")
        /\ UNCHANGED cursor
  /\ UNCHANGED <<logVars, limit, reported>>

\* Close, or a cancelled context, between calls or in a blocked Read; the
\* client keeps the cursor.
CloseReader(r) ==
  /\ phase[r] \in {"ready", "wait"}
  /\ phase' = [phase EXCEPT ![r] = "none"]
  /\ file' = [file EXCEPT ![r] = 0]
  /\ limit' = [limit EXCEPT ![r] = 0]
  /\ reported' = [reported EXCEPT ![r] = NoGrid]
  /\ Return(r, "none")
  /\ UNCHANGED <<logVars, cursor, want>>

-----------------------------------------------------------------------------
LogStep ==
  \/ \E n \in 1 .. MaxAppend : AppendOutput(n)
  \/ \E k \in 0 .. MaxAppend - 1 : AppendFails(k)
  \/ Rotate
  \/ \E b \in Generations : Prune(b)
  \/ \E b \in Generations : \E gone \in SUBSET Prunable(b) : PruneFails(b, gone)
  \/ \E s \in Grids : MarkSize(s)
  \/ \E exited \in BOOLEAN : CloseLog(exited)
  \/ Discard
  \/ Adopt

ReaderStep(r) ==
  \/ Pin(r)
  \/ ReadLocked(r)
  \/ \E n \in 1 .. MaxSegment : ReadFile(r, n)

Next ==
  \/ LogStep
  \/ \E r \in Readers : \/ ReaderStep(r)
                        \/ \E from \in Cursors \cup {Zero} : OpenReader(r, from)
                        \/ CloseReader(r)

Spec == Init /\ [][Next]_vars

\* A client that keeps calling Read: its reader is scheduled.
Fairness == \A r \in Readers : WF_vars(ReaderStep(r))
FairSpec == Spec /\ Fairness

-----------------------------------------------------------------------------
\* Properties.

MarkType  == [off : Nat, size : Grids]
WantType  == [n : Nat, size : Grids \cup {NoGrid}]
PlaceType == [gen : Nat, off : Nat]

LogType ==
  /\ generation \in Generations
  /\ Retained \subseteq 1 .. generation /\ generation \in Retained
  /\ segments \in [Retained -> 0 .. MaxSegment]
  /\ files \subseteq 1 .. generation
  /\ disk \in Seq(Seq(Grids)) /\ Len(disk) = generation
  /\ sizes \in Seq(Seq(MarkType)) /\ Len(sizes) = generation
  /\ closed \in BOOLEAN /\ failed \in BOOLEAN /\ alive \in BOOLEAN
  /\ grid \in Grids
  /\ born \in PlaceType

ReaderType ==
  /\ phase \in [Readers -> Phases]
  /\ cursor \in [Readers -> PlaceType]
  /\ file \in [Readers -> Nat]
  /\ limit \in [Readers -> Nat]
  /\ want \in [Readers -> WantType]
  /\ reported \in [Readers -> Grids \cup {NoGrid}]
  /\ result \in [Readers -> Results]

\* Only that every variable has its type.
TypeOK == LogType /\ ReaderType

\* Bytes of generation g that the log acknowledged: a torn tail left by a
\* failed write is in the file and is not one of them.
Recorded(g) == IF g \in Retained THEN segments[g] ELSE Len(disk[g])

\* The index and the directory agree through rotate, prune, a prune that fails
\* half way and an adoption that rebuilds the index from the files: every
\* indexed segment has its file (until the session is deleted), with the
\* recorded size, except for the torn tail of the write that failed the log.
IndexMatchesDirectory ==
  /\ files \in {Retained, {}}
  /\ \A g \in Retained : /\ segments[g] <= Len(disk[g])
                         /\ g # generation \/ ~failed => segments[g] = Len(disk[g])

\* Bytes this process appended itself.
Ours(g, o) == g > born.gen \/ (g = born.gen /\ o >= born.off)

\* Whatever sequence of resizes, empty resizes that are replaced or collapsed,
\* rotations and prunes led here, the size the marks give for a retained byte
\* is the grid it was produced for; it is unknown only for bytes recorded
\* before this process adopted the log (comment of ReadSized).
SizeMarksTruthful ==
  \A g \in Retained : \A o \in 0 .. segments[g] - 1 :
    \/ SizeAt(At(g, o)) = disk[g][o + 1]
    \/ ~Ours(g, o) /\ SizeAt(At(g, o)) = NoGrid

\* A reader blocked on the changed channel has nothing to hear of: it is at
\* the end of an open log and, if it reads sizes, it was told the current grid.
NoMissedWakeup ==
  \A r \in Readers : phase[r] = "wait" =>
    /\ ~closed
    /\ cursor[r] = End
    /\ r \in SizedReaders => reported[r] = grid

\* A position a client ever reached stays a position of the log: after
\* rotations, prunes and adoptions it resolves or has expired, and is never
\* ErrInvalidCursor.
CursorStaysValid ==
  \A r \in Readers : cursor[r] # Zero /\ cursor[r].gen \in Retained
                       => cursor[r].off <= segments[cursor[r].gen]

\* A reader never gets bytes the log did not acknowledge, even while the file
\* it reads holds a torn tail.
NoTornRead ==
  \A r \in Readers : phase[r] = "read" =>
    cursor[r].off + want[r].n <= Recorded(cursor[r].gen)

\* A reader leaves a generation that is still retained only after its last
\* byte: rotation during a read never skips output.
RetainedNeverSkipped ==
  [][\A r \in Readers :
       phase[r] = "ready" /\ cursor'[r].gen # cursor[r].gen /\ cursor[r].gen \in Retained
         => cursor[r].off = Len(disk[cursor[r].gen])]_vars

\* Bytes delivered to reader r by a step.
Delivered(r) == IF cursor'[r].gen = cursor[r].gen
                THEN cursor[r].off + 1 .. cursor'[r].off ELSE {}

\* The size ReadSized returns with a chunk is the grid of each of its bytes,
\* although marks are added, collapsed or pruned after it was computed.
SizedChunkTruthful ==
  [][\A r \in SizedReaders :
       phase[r] = "read" /\ want[r].size # NoGrid
         => \A i \in Delivered(r) : disk[cursor[r].gen][i] = want[r].size]_vars

Ended(r) == result[r] \in {"eof", "failed", "expired", "notexist"}

\* A client that keeps reading reaches the end of the log, unless its position
\* expired or it stopped.
ReaderCatchesUp ==
  \A r \in Readers : phase[r] # "none" ~>
    phase[r] = "none" \/ Ended(r) \/ cursor[r] = End

\* docs/scrollback.md:34: "An already-open reader pins its current file
\* descriptor and may drain it after pruning".
PinnedReaderDrains ==
  [][\A r \in Readers :
       phase[r] = "ready" /\ Pinned(r) /\ cursor'[r].gen # cursor[r].gen
         => cursor[r].off = Len(disk[cursor[r].gen])]_vars

\* Comment of ReadSized: "A chunk never spans a resize".  (Chunks recorded
\* before an adoption have no known size.)
ChunkNeverSpansResize ==
  [][\A r \in SizedReaders : phase[r] = "read" =>
       \A i, j \in Delivered(r) :
         Ours(cursor[r].gen, i - 1) => disk[cursor[r].gen][i] = disk[cursor[r].gen][j]]_vars

\* docs/scrollback.md:35: "A new reader at a pruned generation receives
\* ErrCursorExpired": a missing file is reported only for a deleted session.
PrunedMeansExpired ==
  [][\A r \in Readers : result'[r] = "notexist" /\ result[r] # "notexist"
                          => files = {}]_vars

=============================================================================
