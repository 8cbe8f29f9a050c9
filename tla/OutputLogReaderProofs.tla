------------------------ MODULE OutputLogReaderProofs ------------------------
(***************************************************************************)
(* Every step of a reader (open, pin, pass under the mutex, file read, close)*)
(* preserves the inductive invariant.                                      *)
(***************************************************************************)
EXTENDS OutputLogInvariant

-----------------------------------------------------------------------------
\* The readers.

\* A non-empty set of positions in a list has a greatest one, and Max is one.
LEMMA MaxOfPositions ==
  ASSUME NEW n \in Nat, NEW S \in SUBSET (1 .. n), S # {}
  PROVE  Max(S) \in S /\ \A y \in S : Max(S) >= y
<1> DEFINE T == {n - x : x \in S}
<1>1. T \in SUBSET Nat /\ T # {}
  <2>1. \A x \in S : x \in 1 .. n /\ n - x \in Nat
    OBVIOUS
  <2> QED
    BY <2>1, Zenon
<1>2. Min(T) \in T /\ \A y \in T : Min(T) <= y
  BY <1>1, MinOfNaturals, Zenon
<1>3. PICK x \in S : Min(T) = n - x
  BY <1>2, Zenon
<1>4. ASSUME NEW y \in S PROVE x >= y
  <2>1. n - y \in T
    OBVIOUS
  <2>2. n - x <= n - y
    BY <1>2, <1>3, <2>1
  <2>3. x \in 1 .. n /\ y \in 1 .. n
    OBVIOUS
  <2> QED
    BY <2>2, <2>3
<1> QED
  BY <1>4, Zenon DEF Max

\* The size in effect at a position is a grid, or unknown; at the end of an open
\* log it is the current grid.
LEMMA SizeAtFacts ==
  ASSUME IInv, NEW c \in PlaceType, c.gen \in 1 .. generation
  PROVE  /\ SizeAt(c) \in Grids \cup {NoGrid}
         /\ ~closed /\ c.gen = generation /\ c.off = segments[generation] => SizeAt(c) = grid
<1> DEFINE M == sizes[c.gen]
<1>1. /\ M \in Seq(MarkType) /\ Len(M) \in Nat /\ DOMAIN M = 1 .. Len(M)
      /\ \A i \in 1 .. Len(M) : M[i] \in MarkType
  BY LogFacts, MarkFacts
<1>2. Covering(c) \in SUBSET (1 .. Len(M))
  BY <1>1 DEF Covering
<1>3. SizeAt(c) \in Grids \cup {NoGrid}
  <2>1. CASE Covering(c) = {}
    BY <2>1 DEF SizeAt
  <2>2. CASE Covering(c) # {}
    <3>1. Max(Covering(c)) \in 1 .. Len(M)
      BY <1>1, <1>2, <2>2, MaxOfPositions, Zenon
    <3>2. M[Max(Covering(c))].size \in Grids
      BY <1>1, <3>1 DEF MarkType
    <3> QED
      BY <2>2, <3>2 DEF SizeAt
  <2> QED
    BY <2>1, <2>2
<1>4. ASSUME ~closed, c.gen = generation, c.off = segments[generation] PROVE SizeAt(c) = grid
  <2>1. /\ Len(M) > 0 /\ M[Len(M)].size = grid
        /\ \A i \in DOMAIN M : M[i].off <= c.off
    BY <1>4 DEF IInv, LogInv, MarksCurrent, Marks
  <2>2. Covering(c) = 1 .. Len(M)
    BY <1>1, <2>1 DEF Covering
  <2>3. Len(M) \in Covering(c)
    BY <1>1, <2>1, <2>2
  <2>4. Max(Covering(c)) = Len(M)
    <3>1. Max(Covering(c)) \in 1 .. Len(M) /\ Max(Covering(c)) >= Len(M)
      BY <1>1, <1>2, <2>2, <2>3, MaxOfPositions, Zenon
    <3> QED
      BY <1>1, <3>1
  <2> QED
    BY <2>1, <2>3, <2>4 DEF SizeAt
<1> QED
  BY <1>3, <1>4

\* A step of one reader changes neither the log nor the other readers.
LEMMA OneReaderSteps ==
  ASSUME IInv, UNCHANGED logVars, ReaderType', NEW r \in Readers,
         \A q \in Readers \ {r} :
           /\ phase'[q] = phase[q] /\ cursor'[q] = cursor[q] /\ file'[q] = file[q]
           /\ limit'[q] = limit[q] /\ want'[q] = want[q] /\ reported'[q] = reported[q],
         cursor'[r].gen <= generation,
         phase'[r] # "none" =>
           /\ cursor'[r].gen >= 1
           /\ file'[r] = cursor'[r].gen \/ phase'[r] \in {"pin", "read"}
                => limit'[r] <= Len(disk[cursor'[r].gen]),
         cursor'[r] # Zero /\ cursor'[r].gen \in Retained
           => cursor'[r].off <= segments[cursor'[r].gen],
         phase'[r] = "read" => cursor'[r].off + want'[r].n <= Recorded(cursor'[r].gen),
         phase'[r] = "wait" =>
           /\ ~closed /\ cursor'[r] = End
           /\ r \in SizedReaders => reported'[r] = grid
  PROVE  IInv'
<1>1. /\ generation' = generation /\ segments' = segments /\ files' = files /\ disk' = disk
      /\ sizes' = sizes /\ closed' = closed /\ failed' = failed /\ alive' = alive
      /\ grid' = grid /\ born' = born /\ Retained' = Retained
  BY DEF logVars, Retained
<1>2. TypeOK'
  BY <1>1 DEF IInv, TypeOK, LogType
<1>3. LogInv'
  BY <1>1 DEF IInv, LogInv, IndexMatchesDirectory, FilesFit, OpenLog, MarksCurrent, Marks
<1>4. ReaderPlaced'
  BY <1>1 DEF IInv, ReaderInv, ReaderPlaced, Pinned
<1>5. CursorStaysValid'
  BY <1>1 DEF IInv, ReaderInv, CursorStaysValid
<1>6. NoTornRead'
  BY <1>1 DEF IInv, ReaderInv, NoTornRead, Recorded
<1>7. NoMissedWakeup'
  BY <1>1 DEF IInv, ReaderInv, NoMissedWakeup, End
<1> QED
  BY <1>2, <1>3, <1>4, <1>5, <1>6, <1>7 DEF IInv, ReaderInv

\* What the steps of a reader need of the invariant.
LEMMA ReaderFacts ==
  ASSUME IInv, NEW r \in Readers
  PROVE  /\ cursor[r] \in PlaceType /\ cursor[r].gen \in Nat /\ cursor[r].off \in Nat
         /\ limit[r] \in Nat /\ file[r] \in Nat /\ want[r].n \in Nat
         /\ cursor[r].gen <= generation
         /\ phase[r] # "none" => cursor[r].gen \in 1 .. generation
         /\ \A g \in Retained : segments[g] <= Len(disk[g])
<1>1. /\ cursor[r] \in PlaceType /\ limit[r] \in Nat /\ file[r] \in Nat
      /\ want[r] \in WantType
  BY DEF IInv, TypeOK, ReaderType
<1>2. cursor[r].gen \in Nat /\ cursor[r].off \in Nat /\ want[r].n \in Nat
  BY <1>1 DEF PlaceType, WantType
<1>3. cursor[r].gen <= generation /\ (phase[r] # "none" => cursor[r].gen >= 1)
  BY DEF IInv, ReaderInv, ReaderPlaced
<1>4. generation \in Nat /\ \A g \in Retained : segments[g] <= Len(disk[g])
  BY CountFacts
<1> QED
  BY <1>1, <1>2, <1>3, <1>4

\* A cursor that resolves names a retained generation and an offset in it.
LEMMA OpenReaderKeeps ==
  ASSUME IInv, NEW r \in Readers, NEW from \in Cursors \cup {Zero}, OpenReader(r, from)
  PROVE  IInv'
<1> DEFINE found == Resolve(from)
<1>1. /\ phase[r] = "none" /\ UNCHANGED logVars /\ UNCHANGED <<file, want, reported>>
      /\ from \in PlaceType
  <2>1. from \in PlaceType
    BY LogAssumption DEF Cursors, Generations, Zero, PlaceType
  <2> QED
    BY <2>1 DEF OpenReader
<1>2. CASE /\ ~failed /\ found.ok
           /\ phase' = [phase EXCEPT ![r] = "pin"]
           /\ cursor' = [cursor EXCEPT ![r] = found.at]
           /\ limit' = [limit EXCEPT ![r] = segments[found.at.gen]]
           /\ Return(r, "none")
  <2>1. /\ found.at \in PlaceType /\ found.at.gen \in Retained
        /\ found.at.off <= segments[found.at.gen]
    <3>1. CASE from = Zero
      <4>1. Retained \in SUBSET Nat /\ Retained # {}
        BY CountFacts
      <4>2. Min(Retained) \in Retained
        BY <4>1, MinOfNaturals
      <4>3. found.at = At(Min(Retained), 0)
        BY <3>1 DEF Resolve
      <4>4. Min(Retained) \in Nat /\ segments[Min(Retained)] \in Nat
        BY <4>1, <4>2, CountFacts, Zenon
      <4> HIDE DEF found
      <4> QED
        BY <4>2, <4>3, <4>4 DEF At, PlaceType
    <3>2. CASE from # Zero
      <4>1. found.at = from /\ from.gen \in Retained /\ from.off <= segments[from.gen]
        BY <1>2, <3>2, Zenon DEF Resolve
      <4> HIDE DEF found
      <4> QED
        BY <1>1, <4>1
    <3> QED
      BY <3>1, <3>2
  <2> HIDE DEF found
  <2>2. /\ found.at.gen \in 1 .. generation /\ found.at.gen <= generation
        /\ segments[found.at.gen] \in Nat /\ segments[found.at.gen] <= Len(disk[found.at.gen])
    BY <2>1, CountFacts
  <2>3. /\ phase'[r] = "pin" /\ cursor'[r] = found.at /\ limit'[r] = segments[found.at.gen]
        /\ \A q \in Readers \ {r} : phase'[q] = phase[q] /\ cursor'[q] = cursor[q]
                                     /\ limit'[q] = limit[q]
    BY <1>2 DEF IInv, TypeOK, ReaderType
  <2>4. ReaderType'
    BY <1>1, <1>2, <2>1, <2>2 DEF IInv, TypeOK, ReaderType, Return, Phases, Results
  <2> QED
    BY <1>1, <2>1, <2>2, <2>3, <2>4, OneReaderSteps
<1>3. CASE /\ \E how \in Results : Return(r, how)
           /\ UNCHANGED <<phase, cursor, limit>>
  <2>1. ReaderType'
    BY <1>1, <1>3 DEF IInv, TypeOK, ReaderType, Return
  <2>2. cursor[r].gen <= generation
    BY ReaderFacts
  <2>3. cursor[r] # Zero /\ cursor[r].gen \in Retained => cursor[r].off <= segments[cursor[r].gen]
    BY DEF IInv, ReaderInv, CursorStaysValid
  <2> QED
    BY <1>1, <1>3, <2>1, <2>2, <2>3, OneReaderSteps
<1>4. found.why \in Results
  BY DEF Resolve, Results
<1> QED
  BY <1>2, <1>3, <1>4 DEF OpenReader, Results

\* Pinning opens the file of the generation the reader is at.
LEMMA PinKeeps ==
  ASSUME IInv, NEW r \in Readers, Pin(r)
  PROVE  IInv'
<1>1. /\ phase[r] = "pin" /\ UNCHANGED logVars /\ UNCHANGED <<cursor, limit, want, reported>>
      /\ \/ phase' = [phase EXCEPT ![r] = "ready"] /\ file' = [file EXCEPT ![r] = cursor[r].gen]
            /\ UNCHANGED result
         \/ phase' = [phase EXCEPT ![r] = "none"] /\ UNCHANGED file /\ Return(r, "notexist")
  BY DEF Pin
<1>2. ReaderType'
  BY <1>1, ReaderFacts, Zenon DEF IInv, TypeOK, ReaderType, Return, Phases, Results
<1>3. /\ phase'[r] \in {"ready", "none"}
      /\ \A q \in Readers \ {r} : phase'[q] = phase[q] /\ file'[q] = file[q]
  BY <1>1 DEF IInv, TypeOK, ReaderType
<1>4. /\ cursor[r].gen >= 1 /\ cursor[r].gen <= generation
      /\ limit[r] <= Len(disk[cursor[r].gen])
      /\ cursor[r] # Zero /\ cursor[r].gen \in Retained => cursor[r].off <= segments[cursor[r].gen]
  BY <1>1 DEF IInv, ReaderInv, ReaderPlaced, CursorStaysValid
<1> QED
  BY <1>1, <1>2, <1>3, <1>4, OneReaderSteps

\* Bytes read from a file were acknowledged when the read was decided.
LEMMA ReadFileKeeps ==
  ASSUME IInv, NEW r \in Readers, NEW n \in 1 .. MaxSegment, ReadFile(r, n)
  PROVE  IInv'
<1> DEFINE g == cursor[r].gen
<1>1. /\ phase[r] = "read" /\ UNCHANGED logVars /\ UNCHANGED <<limit, reported>>
      /\ phase' = [phase EXCEPT ![r] = "ready"] /\ want' = [want EXCEPT ![r] = NoWant]
      /\ \/ /\ n <= want[r].n /\ file' = [file EXCEPT ![r] = g]
            /\ cursor' = [cursor EXCEPT ![r].off = cursor[r].off + n] /\ Return(r, "data")
         \/ /\ file' = [file EXCEPT ![r] = 0] /\ UNCHANGED cursor /\ Return(r, "notexist")
  BY DEF ReadFile
<1>2. /\ g \in 1 .. generation /\ limit[r] <= Len(disk[g]) /\ cursor[r] # Zero
      /\ cursor[r].off + want[r].n <= Recorded(g)
      /\ g \in Retained => cursor[r].off <= segments[g] /\ segments[g] \in Nat
  <2>1. g \in 1 .. generation
    BY <1>1, ReaderFacts
  <2>2. cursor[r] # Zero
    BY <2>1 DEF Zero
  <2>3. g \in Retained => segments[g] \in Nat
    BY CountFacts
  <2> QED
    BY <1>1, <2>1, <2>2, <2>3 DEF IInv, ReaderInv, ReaderPlaced, NoTornRead, CursorStaysValid
<1>3. /\ phase'[r] = "ready" /\ cursor'[r].gen = g /\ cursor'[r] \in PlaceType
      /\ cursor'[r].off <= cursor[r].off + want[r].n \/ cursor'[r] = cursor[r]
      /\ \A q \in Readers \ {r} : phase'[q] = phase[q] /\ file'[q] = file[q]
                                   /\ want'[q] = want[q] /\ cursor'[q] = cursor[q]
  <2>1. n \in Nat
    BY LogAssumption
  <2> QED
    BY <1>1, <2>1, ReaderFacts DEF IInv, TypeOK, ReaderType, PlaceType
<1>4. ReaderType'
  <2>1. cursor' \in [Readers -> PlaceType]
    BY <1>1, <1>3 DEF IInv, TypeOK, ReaderType
  <2>2. NoWant \in WantType
    BY DEF NoWant, WantType
  <2>3. want' \in [Readers -> WantType] /\ phase' \in [Readers -> Phases]
    BY <1>1, <2>2 DEF IInv, TypeOK, ReaderType, Phases
  <2>4. file' \in [Readers -> Nat] /\ result' \in [Readers -> Results]
    <3>1. g \in Nat /\ file \in [Readers -> Nat] /\ result \in [Readers -> Results]
      BY ReaderFacts DEF IInv, TypeOK, ReaderType
    <3>2. \E f \in Nat : file' = [file EXCEPT ![r] = f]
      BY <1>1, <3>1
    <3>3. \E how \in Results : result' = [result EXCEPT ![r] = how]
      BY <1>1 DEF Return, Results
    <3> QED
      BY <3>1, <3>2, <3>3
  <2>5. limit' = limit /\ reported' = reported
    BY <1>1
  <2> QED
    BY <2>1, <2>3, <2>4, <2>5 DEF IInv, TypeOK, ReaderType
<1>5. g \in Retained => cursor'[r].off <= segments[g]
  <2>1. SUFFICES ASSUME g \in Retained PROVE cursor'[r].off <= segments[g]
    OBVIOUS
  <2>2. /\ cursor[r].off + want[r].n <= segments[g] /\ cursor[r].off <= segments[g]
        /\ segments[g] \in Nat
    BY <1>2, <2>1 DEF Recorded
  <2>3. cursor'[r].off \in Nat /\ cursor[r].off \in Nat /\ want[r].n \in Nat
    BY <1>3, ReaderFacts DEF PlaceType
  <2>4. cursor'[r].off <= cursor[r].off + want[r].n \/ cursor'[r].off = cursor[r].off
    BY <1>3
  <2> QED
    BY <2>2, <2>3, <2>4
<1>6. /\ cursor'[r].gen >= 1 /\ cursor'[r].gen <= generation
      /\ limit'[r] <= Len(disk[cursor'[r].gen])
  BY <1>1, <1>2, <1>3, CountFacts
<1>7. \A q \in Readers \ {r} : limit'[q] = limit[q] /\ reported'[q] = reported[q]
  BY <1>1
<1>8. cursor'[r].gen \in Retained => cursor'[r].off <= segments[cursor'[r].gen]
  BY <1>3, <1>5
<1> QED
  BY <1>1, <1>3, <1>4, <1>6, <1>7, <1>8, OneReaderSteps

\* A closed reader leaves only the client's cursor.
LEMMA CloseReaderKeeps ==
  ASSUME IInv, NEW r \in Readers, CloseReader(r)
  PROVE  IInv'
<1>1. /\ UNCHANGED logVars /\ UNCHANGED <<cursor, want>>
      /\ phase' = [phase EXCEPT ![r] = "none"] /\ file' = [file EXCEPT ![r] = 0]
      /\ limit' = [limit EXCEPT ![r] = 0] /\ reported' = [reported EXCEPT ![r] = NoGrid]
      /\ Return(r, "none")
  BY DEF CloseReader
<1>2. ReaderType'
  BY <1>1 DEF IInv, TypeOK, ReaderType, Return, Phases, Results
<1>3. /\ phase'[r] = "none"
      /\ \A q \in Readers \ {r} : phase'[q] = phase[q] /\ file'[q] = file[q]
                                   /\ limit'[q] = limit[q] /\ reported'[q] = reported[q]
  BY <1>1 DEF IInv, TypeOK, ReaderType
<1>4. /\ cursor[r].gen <= generation
      /\ cursor[r] # Zero /\ cursor[r].gen \in Retained => cursor[r].off <= segments[cursor[r].gen]
  BY DEF IInv, ReaderInv, ReaderPlaced, CursorStaysValid
<1> QED
  BY <1>1, <1>2, <1>3, <1>4, OneReaderSteps

\* What a reader between calls knows when it takes the log's mutex: its limit is
\* one its file has reached and, for a readable generation, acknowledged.
LEMMA PassFacts ==
  ASSUME IInv, NEW r \in Readers, phase[r] = "ready"
  PROVE  /\ cursor[r] \in PlaceType /\ cursor[r].off \in Nat /\ cursor[r].gen \in Nat
         /\ cursor[r].gen \in 1 .. generation /\ Len(disk[cursor[r].gen]) \in Nat
         /\ cursor[r].gen \in Retained =>
              /\ segments[cursor[r].gen] \in Nat
              /\ segments[cursor[r].gen] <= Len(disk[cursor[r].gen])
              /\ cursor[r].off <= segments[cursor[r].gen]
              /\ Limit(r) = segments[cursor[r].gen]
         /\ Limit(r) \in Nat
         /\ Pinned(r) \/ Readable(r) => Limit(r) <= Len(disk[cursor[r].gen])
         /\ Readable(r) => Limit(r) <= Recorded(cursor[r].gen)
         /\ EndFor(r) \in Nat /\ EndFor(r) <= Limit(r)
         /\ cursor[r].off >= EndFor(r) => cursor[r].off >= Limit(r)
<1> DEFINE c == cursor[r]
           g == c.gen
<1>1. /\ c \in PlaceType /\ c.off \in Nat /\ g \in Nat /\ g \in 1 .. generation
      /\ limit[r] \in Nat /\ Len(disk[g]) \in Nat /\ c # Zero
      /\ g \in Retained => /\ segments[g] \in Nat /\ segments[g] <= Len(disk[g])
                           /\ c.off <= segments[g]
      /\ Pinned(r) => limit[r] <= Len(disk[g])
  <2>1. c # Zero
    BY ReaderFacts DEF Zero
  <2>2. g \in Retained => c.off <= segments[g]
    BY <2>1 DEF IInv, ReaderInv, CursorStaysValid
  <2>3. Pinned(r) => limit[r] <= Len(disk[g])
    BY DEF IInv, ReaderInv, ReaderPlaced
  <2> QED
    BY <2>1, <2>2, <2>3, ReaderFacts, CountFacts
<1>2. /\ Limit(r) \in Nat
      /\ Pinned(r) \/ Readable(r) => Limit(r) <= Len(disk[g])
      /\ Readable(r) => Limit(r) <= Recorded(g)
      /\ g \in Retained => Limit(r) = segments[g]
  BY <1>1 DEF Limit, Readable, Exists, Recorded
<1>3. /\ EndFor(r) \in Nat /\ EndFor(r) <= Limit(r)
      /\ c.off >= EndFor(r) => c.off >= Limit(r)
  <2>1. sizes[g] \in Seq(MarkType)
    BY <1>1, LogFacts
  <2>2. /\ SpanEnd(c, Limit(r)) \in Nat /\ SpanEnd(c, Limit(r)) <= Limit(r)
        /\ c.off >= SpanEnd(c, Limit(r)) => c.off >= Limit(r)
    BY <1>1, <1>2, <2>1, SpanEndBounded
  <2> QED
    BY <1>2, <2>2 DEF EndFor
<1> QED
  BY <1>1, <1>2, <1>3

\* One pass of a reader under the log's mutex: whatever it decides, the limit it
\* keeps is one its file has reached, it moves on only to a generation that
\* exists, and it blocks only at the end of an open log whose grid it knows.
LEMMA ReadLockedKeeps ==
  ASSUME IInv, NEW r \in Readers, ReadLocked(r)
  PROVE  IInv'
<1> DEFINE c == cursor[r]
           g == c.gen
<1>1. /\ phase[r] = "ready" /\ UNCHANGED logVars /\ limit' = [limit EXCEPT ![r] = Limit(r)]
  BY DEF ReadLocked
<1>2. /\ c \in PlaceType /\ c.off \in Nat /\ g \in Nat /\ g \in 1 .. generation
      /\ Len(disk[g]) \in Nat
      /\ g \in Retained => segments[g] \in Nat /\ c.off <= segments[g]
  BY <1>1, PassFacts
<1>3. /\ Limit(r) \in Nat
      /\ Pinned(r) \/ Readable(r) => Limit(r) <= Len(disk[g])
      /\ Readable(r) => Limit(r) <= Recorded(g)
      /\ g \in Retained => Limit(r) = segments[g]
  BY <1>1, PassFacts
<1>4. /\ EndFor(r) \in Nat /\ EndFor(r) <= Limit(r)
      /\ c.off >= EndFor(r) => c.off >= Limit(r)
  BY <1>1, PassFacts
<1>5. SizeFor(r) \in Grids \cup {NoGrid}
  BY <1>2, SizeAtFacts DEF SizeFor
<1>6. /\ limit' \in [Readers -> Nat] /\ limit'[r] = Limit(r)
      /\ \A q \in Readers \ {r} : limit'[q] = limit[q]
  BY <1>1, <1>3 DEF IInv, TypeOK, ReaderType
<1>7. /\ c.gen >= 1 /\ c.gen <= generation
      /\ c.gen \in Retained => c.off <= segments[c.gen]
  BY <1>2, CountFacts
<1>8. CASE UNCHANGED <<phase, cursor, file, want, reported>> /\ (\E how \in Results : Return(r, how))
  <2>1. ReaderType'
    BY <1>6, <1>8 DEF IInv, TypeOK, ReaderType, Return
  <2>2. file[r] = cursor[r].gen => limit'[r] <= Len(disk[cursor[r].gen])
    BY <1>3, <1>6 DEF Pinned
  <2> QED
    BY <1>1, <1>6, <1>7, <1>8, <2>1, <2>2, OneReaderSteps
<1>9. CASE /\ reported' = [reported EXCEPT ![r] = SizeFor(r)] /\ Return(r, "size")
           /\ UNCHANGED <<phase, cursor, file, want>>
  <2>1. ReaderType'
    BY <1>5, <1>6, <1>9 DEF IInv, TypeOK, ReaderType, Return, Results
  <2>2. file[r] = cursor[r].gen => limit'[r] <= Len(disk[cursor[r].gen])
    BY <1>3, <1>6 DEF Pinned
  <2>3. \A q \in Readers \ {r} : reported'[q] = reported[q]
    BY <1>9 DEF IInv, TypeOK, ReaderType
  <2> QED
    BY <1>1, <1>6, <1>7, <1>9, <2>1, <2>2, <2>3, OneReaderSteps
<1>10. CASE /\ Readable(r) /\ c.off < EndFor(r)
           /\ phase' = [phase EXCEPT ![r] = "read"]
           /\ want' = [want EXCEPT ![r] = [n |-> EndFor(r) - c.off, size |-> SizeFor(r)]]
           /\ UNCHANGED <<cursor, file, reported, result>>
  <2>1. [n |-> EndFor(r) - c.off, size |-> SizeFor(r)] \in WantType
    <3>1. c.off < EndFor(r) /\ c.off \in Nat /\ EndFor(r) \in Nat
      BY <1>2, <1>4, <1>10
    <3>2. EndFor(r) - c.off \in Nat
      BY <3>1
    <3> QED
      BY <1>5, <3>2 DEF WantType
  <2>2. ReaderType'
    <3>1. want' \in [Readers -> WantType] /\ phase' \in [Readers -> Phases]
      BY <1>10, <2>1 DEF IInv, TypeOK, ReaderType, Phases
    <3> QED
      BY <1>6, <1>10, <3>1 DEF IInv, TypeOK, ReaderType
  <2>3. /\ phase'[r] = "read" /\ want'[r].n = EndFor(r) - c.off
        /\ \A q \in Readers \ {r} : phase'[q] = phase[q] /\ want'[q] = want[q]
    BY <1>10 DEF IInv, TypeOK, ReaderType
  <2>4. Recorded(g) \in Nat
    BY <1>2 DEF Recorded
  <2>5. c.off + want'[r].n <= Recorded(g)
    <3>1. c.off < EndFor(r) /\ Readable(r)
      BY <1>10
    <3>2. EndFor(r) <= Recorded(g) /\ EndFor(r) \in Nat /\ c.off \in Nat
      BY <1>2, <1>3, <1>4, <2>4, <3>1
    <3> QED
      BY <2>3, <2>4, <3>1, <3>2
  <2>6. limit'[r] <= Len(disk[g])
    BY <1>3, <1>6, <1>10, Zenon
  <2> QED
    BY <1>1, <1>6, <1>7, <1>10, <2>2, <2>3, <2>5, <2>6, OneReaderSteps
<1>11. CASE /\ Complete(r) /\ file' = [file EXCEPT ![r] = 0]
            /\ cursor' = [cursor EXCEPT ![r] = At(g + 1, 0)]
            /\ UNCHANGED <<phase, result, want, reported>>
  <2>1. At(g + 1, 0) \in PlaceType
    BY <1>2 DEF At, PlaceType
  <2>2. ReaderType'
    BY <1>6, <1>11, <2>1 DEF IInv, TypeOK, ReaderType
  <2>3. /\ cursor'[r] = At(g + 1, 0) /\ file'[r] = 0
        /\ \A q \in Readers \ {r} : cursor'[q] = cursor[q] /\ file'[q] = file[q]
    BY <1>11 DEF IInv, TypeOK, ReaderType
  <2>4. /\ cursor'[r].gen <= generation /\ cursor'[r].gen >= 1 /\ cursor'[r].off = 0
        /\ file'[r] # cursor'[r].gen
    BY <1>2, <1>11, <2>3, CountFacts DEF At, Complete
  <2>5. cursor'[r].gen \in Retained => cursor'[r].off <= segments[cursor'[r].gen]
    BY <2>4, CountFacts
  <2> QED
    <3>1. /\ phase' = phase /\ want' = want /\ reported' = reported /\ phase[r] = "ready"
          /\ UNCHANGED logVars /\ \A q \in Readers \ {r} : limit'[q] = limit[q]
      BY <1>1, <1>6, <1>11
    <3> QED
      BY <2>2, <2>3, <2>4, <2>5, <3>1, OneReaderSteps
<1>12. CASE /\ Readable(r) /\ ~News(r) /\ c.off >= EndFor(r) /\ ~Complete(r) /\ ~closed
            /\ phase' = [phase EXCEPT ![r] = "wait"]
            /\ UNCHANGED <<cursor, file, result, want, reported>>
  <2>1. g = generation /\ g \in Retained
    <3>1. ~(g < generation)
      BY <1>12 DEF Complete
    <3>2. g \in Nat /\ g \in 1 .. generation
      BY <1>2
    <3> QED
      BY <3>1, <3>2, CountFacts
  <2>2. c.off = segments[generation]
    <3>1. c.off >= Limit(r)
      BY <1>4, <1>12
    <3>2. Limit(r) = segments[g] /\ segments[g] \in Nat /\ c.off <= segments[g] /\ c.off \in Nat
      BY <1>2, <1>3, <2>1
    <3> QED
      BY <2>1, <3>1, <3>2
  <2>3. c = End
    BY <1>2, <2>1, <2>2 DEF End, At, PlaceType
  <2>4. r \in SizedReaders => reported[r] = grid
    <3>1. SizeAt(c) = grid /\ grid \in Grids
      BY <1>2, <1>12, <2>1, <2>2, SizeAtFacts, Zenon DEF IInv, TypeOK, LogType
    <3> QED
      BY <1>12, <3>1, LogAssumption DEF News, SizeFor
  <2>5. ReaderType'
    BY <1>6, <1>12 DEF IInv, TypeOK, ReaderType, Phases
  <2>6. phase'[r] = "wait" /\ \A q \in Readers \ {r} : phase'[q] = phase[q]
    BY <1>12 DEF IInv, TypeOK, ReaderType
  <2>7. file[r] = cursor[r].gen => limit'[r] <= Len(disk[cursor[r].gen])
    BY <1>3, <1>6 DEF Pinned
  <2> QED
    BY <1>1, <1>6, <1>7, <1>12, <2>3, <2>4, <2>5, <2>6, <2>7, OneReaderSteps
<1> QED
  BY <1>8, <1>9, <1>10, <1>11, <1>12 DEF ReadLocked, Results

=============================================================================
