------------------------ MODULE OutputLogWriterProofs ------------------------
(***************************************************************************)
(* Every step of the log itself (append, rotation, pruning, marks, close,  *)
(* adoption) preserves the inductive invariant.                            *)
(***************************************************************************)
EXTENDS OutputLogInvariant

\* append records exactly the bytes it wrote, so index, file and marks move together
\* and every blocked reader is released.
LEMMA AppendOutputKeeps ==
  ASSUME IInv, NEW n \in 1 .. MaxAppend, AppendOutput(n)
  PROVE  IInv'
<1>1. /\ n \in Nat /\ n >= 1 /\ ~closed /\ segments[generation] + n <= MaxSegment
      /\ disk' = Written(n) /\ Signal
      /\ segments' = [segments EXCEPT ![generation] = segments[generation] + n]
      /\ UNCHANGED <<generation, files, sizes, closed, failed, alive, grid, born>>
  BY LogAssumption DEF AppendOutput
<1>2. Retained' = Retained
  BY <1>1 DEF Retained
<1>3. \A g \in Retained : segments'[g] = IF g = generation THEN segments[g] + n ELSE segments[g]
  BY <1>1 DEF Retained
<1>4. /\ disk' \in Seq(Seq(Grids)) /\ Len(disk') = generation
      /\ \A g \in 1 .. generation :
           Len(disk'[g]) = IF g = generation THEN Len(disk[g]) + n ELSE Len(disk[g])
  BY <1>1, WrittenFacts
<1>5. TypeOK'
  <2>1. segments' \in [Retained -> 0 .. MaxSegment]
    BY <1>1, LogFacts, LogAssumption DEF IInv, TypeOK, LogType
  <2>2. LogType'
    BY <1>1, <1>2, <1>4, <2>1 DEF IInv, TypeOK, LogType
  <2> QED
    BY <1>1, <2>2, SignalTypes DEF IInv, TypeOK
<1>6. LogInv'
  <2>1. IndexMatchesDirectory'
    <3>1. ASSUME NEW g \in Retained PROVE segments'[g] = Len(disk'[g]) /\ Len(disk'[g]) \in Nat
      <4>1. g \in 1 .. generation /\ Len(disk[g]) \in Nat /\ segments[g] = Len(disk[g])
        BY <1>1, LogFacts
      <4> QED
        BY <1>1, <1>3, <1>4, <4>1
    <3> QED
      BY <1>1, <1>2, <3>1, LogFacts DEF IndexMatchesDirectory
  <2>2. FilesFit'
    BY <1>1, <1>4, LogFacts, Zenon DEF IInv, LogInv, FilesFit
  <2>3. OpenLog'
    BY <1>1, <1>2 DEF IInv, LogInv, OpenLog
  <2>4. MarksCurrent'
    BY <1>1, <1>3, LogFacts, MarkFacts DEF IInv, LogInv, MarksCurrent, Marks
  <2> QED
    BY <2>1, <2>2, <2>3, <2>4 DEF LogInv
<1>7. ReaderInv'
  <2>1. \A g \in 1 .. generation : Len(disk[g]) <= Len(disk'[g])
    BY <1>1, <1>4, LogFacts
  <2>2. \A g \in Retained' : g <= generation => g \in Retained /\ segments[g] <= segments'[g]
    BY <1>1, <1>2, <1>3, LogFacts
  <2>3. generation <= generation'
    BY <1>1, LogFacts
  <2> QED
    BY <1>1, <1>5, <1>6, <2>1, <2>2, <2>3, SignalKeepsReaders
<1> QED
  BY <1>5, <1>6, <1>7 DEF IInv

\* A failed write leaves a torn tail in the active file only, and closes the log.
LEMMA AppendFailsKeeps ==
  ASSUME IInv, NEW k \in 0 .. MaxAppend - 1, AppendFails(k)
  PROVE  IInv'
<1>1. /\ k \in Nat /\ ~closed /\ segments[generation] + k < MaxSegment
      /\ disk' = Written(k) /\ closed' = TRUE /\ failed' = TRUE /\ Signal
      /\ UNCHANGED <<generation, segments, files, sizes, alive, grid, born>>
  BY LogAssumption DEF AppendFails
<1>2. Retained' = Retained
  BY <1>1 DEF Retained
<1>3. /\ disk' \in Seq(Seq(Grids)) /\ Len(disk') = generation
      /\ \A g \in 1 .. generation :
           Len(disk'[g]) = IF g = generation THEN Len(disk[g]) + k ELSE Len(disk[g])
  BY <1>1, WrittenFacts
<1>4. TypeOK'
  <2>1. LogType'
    BY <1>1, <1>2, <1>3 DEF IInv, TypeOK, LogType
  <2> QED
    BY <1>1, <2>1, SignalTypes DEF IInv, TypeOK
<1>5. LogInv'
  <2>1. ASSUME NEW g \in Retained
        PROVE  /\ segments'[g] <= Len(disk'[g])
               /\ g # generation => segments'[g] = Len(disk'[g])
    <3>1. g \in 1 .. generation /\ Len(disk[g]) \in Nat /\ segments[g] = Len(disk[g])
      BY <1>1, LogFacts
    <3> QED
      BY <1>1, <1>3, <3>1
  <2>2. IndexMatchesDirectory'
    BY <1>1, <1>2, <2>1, LogFacts DEF IndexMatchesDirectory
  <2>3. FilesFit'
    <3>1. ASSUME NEW g \in 1 .. generation PROVE Len(disk'[g]) <= MaxSegment
      <4>1. Len(disk[g]) \in Nat /\ Len(disk[g]) <= MaxSegment
        BY LogFacts DEF IInv, LogInv, FilesFit
      <4>2. g = generation => Len(disk[g]) = segments[generation]
        BY <1>1, LogFacts
      <4> QED
        BY <1>1, <1>3, <4>1, <4>2, LogAssumption
    <3> QED
      BY <1>1, <3>1 DEF FilesFit
  <2>4. OpenLog' /\ MarksCurrent'
    BY <1>1 DEF OpenLog, MarksCurrent
  <2> QED
    BY <2>2, <2>3, <2>4 DEF LogInv
<1>6. ReaderInv'
  <2>1. \A g \in 1 .. generation : Len(disk[g]) <= Len(disk'[g])
    BY <1>1, <1>3, LogFacts
  <2>2. \A g \in Retained' : g <= generation => g \in Retained /\ segments[g] <= segments'[g]
    BY <1>1, <1>2, LogFacts
  <2> QED
    BY <1>1, <1>4, <1>5, <2>1, <2>2, LogFacts, SignalKeepsReaders
<1> QED
  BY <1>4, <1>5, <1>6 DEF IInv

\* rotate opens an empty generation whose first mark repeats the current grid.
LEMMA RotateKeeps ==
  ASSUME IInv, Rotate
  PROVE  IInv'
<1> DEFINE next  == generation + 1
           first == IF Marks = <<>> THEN <<>>
                    ELSE <<[off |-> 0, size |-> Marks[Len(Marks)].size]>>
<1>1. /\ ~closed /\ generation < MaxGeneration /\ generation' = next
      /\ segments' = [g \in Retained \cup {next} |-> IF g = next THEN 0 ELSE segments[g]]
      /\ files' = files \cup {next} /\ disk' = Append(disk, <<>>)
      /\ sizes' = Append(sizes, first) /\ Signal
      /\ UNCHANGED <<closed, failed, alive, grid, born>>
  BY DEF Rotate
<1>2. Retained' = Retained \cup {next}
  BY <1>1 DEF Retained
<1>3. next \in Nat /\ next \in Generations /\ next \notin Retained
  BY <1>1, LogFacts, LogAssumption DEF Generations
<1>4. first \in Seq(MarkType) /\ Len(first) = 1 /\ first[1].off = 0 /\ first[1].size = grid
  <2>1. Len(Marks) \in Nat /\ Len(Marks) > 0 /\ Marks[Len(Marks)].size = grid /\ grid \in Grids
    BY <1>1, LogFacts DEF IInv, LogInv, MarksCurrent, TypeOK, LogType, Marks
  <2>2. first = <<[off |-> 0, size |-> grid]>>
    BY <2>1
  <2>3. [off |-> 0, size |-> grid] \in MarkType
    BY <2>1 DEF MarkType
  <2> HIDE DEF first
  <2> QED
    BY <2>2, <2>3
<1> HIDE DEF first
<1>5. /\ disk' \in Seq(Seq(Grids)) /\ Len(disk') = next /\ disk'[next] = <<>>
      /\ \A g \in 1 .. generation : disk'[g] = disk[g]
  BY <1>1, LogFacts, AppendProperties
<1>6. /\ sizes' \in Seq(Seq(MarkType)) /\ Len(sizes') = next /\ sizes'[next] = first
  BY <1>1, <1>4, LogFacts, AppendProperties
<1>7. TypeOK'
  <2>1. segments' \in [Retained \cup {next} -> 0 .. MaxSegment]
    BY <1>1, LogAssumption DEF IInv, TypeOK, LogType
  <2>2. Retained \cup {next} \subseteq 1 .. next /\ files' \subseteq 1 .. next
    BY <1>1, <1>3, LogFacts DEF IInv, TypeOK, LogType
  <2>3. LogType'
    BY <1>1, <1>2, <1>3, <1>5, <1>6, <2>1, <2>2 DEF IInv, TypeOK, LogType
  <2> QED
    BY <1>1, <2>3, SignalTypes DEF IInv, TypeOK
<1>8. LogInv'
  <2>1. \A g \in Retained : segments'[g] = Len(disk'[g])
    BY <1>1, <1>3, <1>5, LogFacts
  <2>2. segments'[next] = Len(disk'[next]) /\ Len(disk'[next]) = 0
    BY <1>1, <1>5
  <2>3. IndexMatchesDirectory'
    <3>1. \A g \in Retained' : segments'[g] = Len(disk'[g]) /\ Len(disk'[g]) \in Nat
      <4>1. \A g \in Retained : Len(disk'[g]) \in Nat
        BY <1>5, LogFacts
      <4> QED
        BY <1>2, <2>1, <2>2, <4>1
    <3> QED
      BY <1>1, <1>2, <3>1, LogFacts DEF IndexMatchesDirectory
  <2>4. FilesFit'
    BY <1>1, <1>5, <2>2, LogFacts, LogAssumption DEF IInv, LogInv, FilesFit
  <2>5. OpenLog'
    BY <1>1, <1>2, LogFacts DEF OpenLog
  <2>6. MarksCurrent'
    <3>1. Marks' = first /\ segments'[generation'] = 0
      BY <1>1, <1>6, <2>2 DEF Marks
    <3>2. DOMAIN first = 1 .. 1
      BY <1>4
    <3> QED
      <4>1. Len(Marks') > 0 /\ Marks'[Len(Marks')].size = grid'
        <5>1. Len(Marks') = 1
          BY <1>4, <3>1
        <5>2. Marks'[1].size = grid'
          BY <1>1, <1>4, <3>1
        <5> QED
          BY <5>1, <5>2
      <4>2. \A i \in DOMAIN Marks' : Marks'[i].off <= segments'[generation']
        BY <1>4, <3>1, <3>2
      <4> QED
        BY <4>1, <4>2 DEF MarksCurrent
  <2> QED
    BY <2>3, <2>4, <2>5, <2>6 DEF LogInv
<1>9. ReaderInv'
  <2>1. \A g \in 1 .. generation : Len(disk[g]) <= Len(disk'[g])
    BY <1>5, LogFacts
  <2>2. \A g \in Retained' : g <= generation => g \in Retained /\ segments[g] <= segments'[g]
    BY <1>1, <1>2, <1>3, LogFacts
  <2>3. generation <= generation'
    BY <1>1, LogFacts
  <2> QED
    BY <1>1, <1>7, <1>8, <2>1, <2>2, <2>3, SignalKeepsReaders, Zenon
<1> QED
  BY <1>7, <1>8, <1>9 DEF IInv

\* What removing a set of completed generations from the index leaves.
LEMMA WithoutFacts ==
  ASSUME IInv, NEW S, generation \notin S, segments' = Without(S)
  PROVE  /\ Retained' = Retained \ S
         /\ segments' \in [Retained \ S -> 0 .. MaxSegment]
         /\ \A g \in Retained \ S : segments'[g] = segments[g]
BY DEF IInv, TypeOK, LogType, Without, Retained

\* prune drops the same generations from the index and from the directory, never
\* the active one.
LEMMA PruneKeeps ==
  ASSUME IInv, NEW b \in Generations, Prune(b)
  PROVE  IInv'
<1> DEFINE S == Prunable(b)
<1>1. /\ ~closed /\ segments' = Without(S) /\ files' = files \ S /\ Signal
      /\ sizes' = [g \in DOMAIN sizes |-> IF g \in Retained \ S THEN sizes[g] ELSE <<>>]
      /\ UNCHANGED <<generation, disk, closed, failed, alive, grid, born>>
  BY DEF Prune
<1>2. generation \notin S
  BY DEF Prunable
<1> HIDE DEF S
<1>3. /\ Retained' = Retained \ S
      /\ segments' \in [Retained \ S -> 0 .. MaxSegment]
      /\ \A g \in Retained \ S : segments'[g] = segments[g]
  BY <1>1, <1>2, WithoutFacts, Zenon
<1>4. /\ sizes' \in Seq(Seq(MarkType)) /\ Len(sizes') = generation
      /\ sizes'[generation] = sizes[generation]
  <2>1. DOMAIN sizes = 1 .. generation /\ generation \in 1 .. generation
    BY LogFacts
  <2>2. \A g \in 1 .. generation : sizes'[g] \in Seq(MarkType)
    BY <1>1, <2>1, LogFacts
  <2>3. sizes' \in Seq(Seq(MarkType)) /\ Len(sizes') = generation
    <3>1. sizes' \in [1 .. generation -> Seq(MarkType)] /\ generation \in Nat
      BY <1>1, <2>1, <2>2, LogFacts
    <3> QED
      BY <3>1, LenProperties
  <2> QED
    BY <1>1, <1>2, <2>1, <2>3, LogFacts
<1>5. TypeOK'
  <2>1. LogType'
    BY <1>1, <1>2, <1>3, <1>4, Zenon DEF IInv, TypeOK, LogType
  <2> QED
    BY <1>1, <2>1, SignalTypes DEF IInv, TypeOK
<1>6. LogInv'
  <2>1. IndexMatchesDirectory'
    <3>1. \A g \in Retained' : segments'[g] = Len(disk'[g]) /\ Len(disk'[g]) \in Nat
      BY <1>1, <1>3, LogFacts, Zenon
    <3> QED
      BY <1>1, <1>3, <3>1, LogFacts DEF IndexMatchesDirectory
  <2>2. FilesFit' /\ OpenLog'
    BY <1>1, <1>3, LogFacts DEF IInv, LogInv, FilesFit, OpenLog
  <2>3. MarksCurrent'
    BY <1>1, <1>2, <1>3, <1>4, LogFacts DEF IInv, LogInv, MarksCurrent, Marks
  <2> QED
    BY <2>1, <2>2, <2>3 DEF LogInv
<1>7. ReaderInv'
  <2>1. \A g \in 1 .. generation : Len(disk[g]) <= Len(disk'[g])
    BY <1>1, LogFacts
  <2>2. \A g \in Retained' : g <= generation => g \in Retained /\ segments[g] <= segments'[g]
    BY <1>1, <1>3, LogFacts
  <2>3. generation <= generation'
    BY <1>1, LogFacts
  <2> QED
    BY <1>1, <1>5, <1>6, <2>1, <2>2, <2>3, SignalKeepsReaders
<1> QED
  BY <1>5, <1>6, <1>7 DEF IInv

\* A prune that stops half way has dropped the same generations on both sides; no
\* blocked reader needs to hear of it.
LEMMA PruneFailsKeeps ==
  ASSUME IInv, NEW b \in Generations, NEW gone \in SUBSET Prunable(b), PruneFails(b, gone)
  PROVE  IInv'
<1>1. /\ ~closed /\ segments' = Without(gone) /\ files' = files \ gone
      /\ UNCHANGED <<generation, disk, sizes, closed, failed, alive, grid, born>>
      /\ UNCHANGED readerVars
  BY DEF PruneFails
<1>2. generation \notin gone
  BY DEF Prunable
<1>3. /\ Retained' = Retained \ gone
      /\ segments' \in [Retained \ gone -> 0 .. MaxSegment]
      /\ \A g \in Retained \ gone : segments'[g] = segments[g]
  BY <1>1, <1>2, WithoutFacts
<1>4. TypeOK'
  <2>1. LogType'
    BY <1>1, <1>2, <1>3, Zenon DEF IInv, TypeOK, LogType
  <2> QED
    BY <1>1, <2>1 DEF IInv, TypeOK, ReaderType, readerVars
<1>5. LogInv'
  <2>1. IndexMatchesDirectory'
    <3>1. \A g \in Retained' : segments'[g] = Len(disk'[g]) /\ Len(disk'[g]) \in Nat
      BY <1>1, <1>3, LogFacts
    <3> QED
      BY <1>1, <1>3, <3>1, LogFacts DEF IndexMatchesDirectory
  <2>2. FilesFit' /\ OpenLog'
    BY <1>1, <1>3, LogFacts DEF IInv, LogInv, FilesFit, OpenLog
  <2>3. MarksCurrent'
    BY <1>1, <1>2, <1>3, LogFacts DEF IInv, LogInv, MarksCurrent, Marks
  <2> QED
    BY <2>1, <2>2, <2>3 DEF LogInv
<1>6. ReaderPlaced' /\ CursorStaysValid' /\ NoTornRead'
  <2>1. \A g \in 1 .. generation : Len(disk[g]) <= Len(disk'[g])
    BY <1>1, LogFacts
  <2>2. \A g \in Retained' : g <= generation => g \in Retained /\ segments[g] <= segments'[g]
    BY <1>1, <1>3, LogFacts
  <2>3. generation <= generation'
    BY <1>1, LogFacts
  <2> QED
    BY <1>1, <1>4, <1>5, <2>1, <2>2, <2>3, LogKeepsPositions DEF readerVars
<1>7. NoMissedWakeup'
  <2>1. End' = End
    BY <1>1, <1>2, <1>3, LogFacts DEF End, At
  <2> QED
    BY <1>1, <2>1 DEF IInv, ReaderInv, NoMissedWakeup, readerVars
<1> QED
  BY <1>4, <1>5, <1>6, <1>7 DEF IInv, ReaderInv

\* close releases every blocked reader.
LEMMA CloseLogKeeps ==
  ASSUME IInv, NEW exited \in BOOLEAN, CloseLog(exited)
  PROVE  IInv'
<1>1. /\ closed' = TRUE /\ alive' = ~exited /\ Signal
      /\ UNCHANGED <<generation, segments, files, disk, sizes, failed, grid, born>>
  BY DEF CloseLog
<1>2. Retained' = Retained
  BY <1>1 DEF Retained
<1>3. closed' \in BOOLEAN /\ alive' \in BOOLEAN
  BY <1>1, Zenon
<1>4. TypeOK'
  <2>1. LogType'
    BY <1>1, <1>2, <1>3 DEF IInv, TypeOK, LogType
  <2> QED
    BY <1>1, <2>1, SignalTypes DEF IInv, TypeOK
<1>5. LogInv'
  BY <1>1, <1>2 DEF IInv, LogInv, IndexMatchesDirectory, FilesFit, OpenLog, MarksCurrent
<1>6. ReaderInv'
  BY <1>1, <1>2, <1>4, <1>5, LogFacts, SignalKeepsReaders
<1> QED
  BY <1>4, <1>5, <1>6 DEF IInv

\* discard empties the directory of a closed log.
LEMMA DiscardKeeps ==
  ASSUME IInv, Discard
  PROVE  IInv'
<1>1. /\ closed' = TRUE /\ alive' = FALSE /\ files' = {} /\ Signal
      /\ UNCHANGED <<generation, segments, disk, sizes, failed, grid, born>>
  BY DEF Discard
<1>2. Retained' = Retained
  BY <1>1 DEF Retained
<1>3. closed' \in BOOLEAN /\ alive' \in BOOLEAN
  BY <1>1, Zenon
<1>4. TypeOK'
  <2>1. LogType'
    BY <1>1, <1>2, <1>3 DEF IInv, TypeOK, LogType
  <2> QED
    BY <1>1, <2>1, SignalTypes DEF IInv, TypeOK
<1>5. LogInv'
  BY <1>1, <1>2 DEF IInv, LogInv, IndexMatchesDirectory, FilesFit, OpenLog, MarksCurrent
<1>6. ReaderInv'
  BY <1>1, <1>2, <1>4, <1>5, LogFacts, SignalKeepsReaders
<1> QED
  BY <1>4, <1>5, <1>6 DEF IInv

\* The active generation gets a new list of marks that ends with the new grid.
LEMMA MarksBecome ==
  ASSUME IInv, ~closed, NEW s \in Grids, NEW marks \in Seq(MarkType),
         Len(marks) > 0, marks[Len(marks)].size = s,
         \A i \in DOMAIN marks : marks[i].off <= segments[generation],
         sizes' = [sizes EXCEPT ![generation] = marks], grid' = s, Signal,
         UNCHANGED <<generation, segments, files, disk, closed, failed, alive, born>>
  PROVE  IInv'
<1>1. sizes' \in Seq(Seq(MarkType)) /\ Len(sizes') = generation /\ sizes'[generation] = marks
  <2>1. sizes \in Seq(Seq(MarkType)) /\ generation \in 1 .. Len(sizes) /\ Len(sizes) = generation
    BY LogFacts
  <2> QED
    BY <2>1, ExceptSeq
<1>2. Retained' = Retained
  BY DEF Retained
<1>3. TypeOK'
  <2>1. LogType'
    BY <1>1, <1>2 DEF IInv, TypeOK, LogType
  <2> QED
    BY <2>1, SignalTypes DEF IInv, TypeOK
<1>4. LogInv'
  <2>1. IndexMatchesDirectory' /\ FilesFit' /\ OpenLog'
    BY <1>2 DEF IInv, LogInv, IndexMatchesDirectory, FilesFit, OpenLog
  <2>2. MarksCurrent'
    BY <1>1 DEF MarksCurrent, Marks
  <2> QED
    BY <2>1, <2>2 DEF LogInv
<1>5. ReaderInv'
  BY <1>2, <1>3, <1>4, LogFacts, SignalKeepsReaders
<1> QED
  BY <1>3, <1>4, <1>5 DEF IInv

\* markSize, whichever of its branches runs, leaves the new grid as the last mark.
LEMMA MarkSizeKeeps ==
  ASSUME IInv, NEW s \in Grids, MarkSize(s)
  PROVE  IInv'
<1> DEFINE count == Len(Marks)
           here  == segments[generation]
           Becomes(marks) == sizes' = [sizes EXCEPT ![generation] = marks] /\ Signal
<1>1. /\ ~closed /\ grid' = s
      /\ UNCHANGED <<generation, segments, files, disk, closed, failed, alive, born>>
  BY DEF MarkSize
<1>2. /\ Marks \in Seq(MarkType) /\ count \in Nat /\ count > 0 /\ here \in Nat
      /\ DOMAIN Marks = 1 .. count /\ Marks[count].size = grid
      /\ \A i \in 1 .. count : Marks[i] \in MarkType /\ Marks[i].off <= here
  BY <1>1, LogFacts, MarkFacts DEF IInv, LogInv, MarksCurrent, Marks
<1>3. CASE Marks[count].size = s /\ UNCHANGED <<sizes, readerVars>>
  <2>1. UNCHANGED logVars /\ UNCHANGED readerVars
    BY <1>1, <1>2, <1>3 DEF logVars
  <2> QED
    BY <2>1, StutterKeeps DEF vars
<1>4. CASE count >= 2 /\ Marks[count - 1].size = s /\ Becomes(SubSeq(Marks, 1, count - 1))
  <2> DEFINE marks == SubSeq(Marks, 1, count - 1)
  <2>1. /\ marks \in Seq(MarkType) /\ Len(marks) = count - 1
        /\ \A i \in 1 .. count - 1 : marks[i] = Marks[i]
    BY <1>2, <1>4, SubSeqProperties
  <2>2. \A i \in DOMAIN marks : marks[i].off <= here
    BY <1>2, <1>4, <2>1
  <2>3. Len(marks) > 0 /\ marks[Len(marks)].size = s
    BY <1>2, <1>4, <2>1
  <2> HIDE DEF marks
  <2>4. sizes' = [sizes EXCEPT ![generation] = marks] /\ Signal
    BY <1>4 DEF marks
  <2> QED
    BY <1>1, <2>1, <2>2, <2>3, <2>4, MarksBecome, Zenon
<1>5. CASE Becomes([Marks EXCEPT ![count].size = s])
  <2> DEFINE marks == [Marks EXCEPT ![count].size = s]
  <2>1. [Marks[count] EXCEPT !.size = s] \in MarkType
    BY <1>2 DEF MarkType
  <2>2. marks = [Marks EXCEPT ![count] = [Marks[count] EXCEPT !.size = s]]
    BY <1>2
  <2>3. marks \in Seq(MarkType) /\ Len(marks) = count
    BY <1>2, <2>1, <2>2, ExceptSeq
  <2>4. \A i \in 1 .. count : marks[i].off = Marks[i].off
    BY <1>2 DEF MarkType
  <2>5. marks[count].size = s
    BY <1>2 DEF MarkType
  <2> HIDE DEF marks
  <2>6. sizes' = [sizes EXCEPT ![generation] = marks] /\ Signal
    BY <1>5 DEF marks
  <2>7. \A i \in DOMAIN marks : marks[i].off <= here
    BY <1>2, <2>3, <2>4
  <2> QED
    BY <1>1, <1>2, <2>3, <2>5, <2>6, <2>7, MarksBecome, Zenon
<1>6. CASE Becomes(Append(Marks, [off |-> here, size |-> s]))
  <2> DEFINE marks == Append(Marks, [off |-> here, size |-> s])
  <2>1. [off |-> here, size |-> s] \in MarkType
    BY <1>2 DEF MarkType
  <2>2. /\ marks \in Seq(MarkType) /\ Len(marks) = count + 1
        /\ \A i \in 1 .. count : marks[i] = Marks[i]
        /\ marks[count + 1] = [off |-> here, size |-> s]
    BY <1>2, <2>1, AppendProperties
  <2> HIDE DEF marks
  <2>3. sizes' = [sizes EXCEPT ![generation] = marks] /\ Signal
    BY <1>6 DEF marks
  <2>4. \A i \in DOMAIN marks : marks[i].off <= here
    BY <1>2, <2>2
  <2>5. Len(marks) > 0 /\ marks[Len(marks)].size = s
    BY <1>2, <2>2
  <2> QED
    BY <1>1, <2>2, <2>3, <2>4, <2>5, MarksBecome, Zenon
<1> QED
  BY <1>2, <1>3, <1>4, <1>5, <1>6 DEF MarkSize

\* An adoption rebuilds the index from the files; the log did not fail, so the
\* sizes are the ones the source had recorded.
LEMMA AdoptKeeps ==
  ASSUME IInv, Adopt
  PROVE  IInv'
<1> DEFINE end == Len(disk[generation])
<1>1. /\ closed /\ ~failed /\ generation \in files
      /\ segments' = [g \in files |-> Len(disk[g])]
      /\ closed' = ~alive
      /\ sizes' = [g \in DOMAIN sizes |->
                      IF g = generation /\ alive THEN <<[off |-> Len(disk[g]), size |-> grid]>>
                      ELSE <<>>]
      /\ born' = At(generation, end)
      /\ UNCHANGED <<generation, files, disk, failed, alive, grid, cursor>>
  BY DEF Adopt
<1>2. files = Retained /\ Retained' = Retained
  BY <1>1 DEF IInv, LogInv, IndexMatchesDirectory, Retained
<1>3. \A g \in Retained : /\ segments'[g] = Len(disk[g]) /\ Len(disk[g]) \in Nat
                           /\ segments[g] = Len(disk[g])
  BY <1>1, <1>2, LogFacts DEF IInv, LogInv, IndexMatchesDirectory
<1>4. /\ sizes' \in Seq(Seq(MarkType)) /\ Len(sizes') = generation
      /\ alive => sizes'[generation] = <<[off |-> end, size |-> grid]>>
  <2>1. DOMAIN sizes = 1 .. generation /\ generation \in 1 .. generation /\ grid \in Grids
    BY LogFacts DEF IInv, TypeOK, LogType
  <2>2. ASSUME NEW g \in 1 .. generation PROVE sizes'[g] \in Seq(MarkType)
    <3>1. [off |-> Len(disk[g]), size |-> grid] \in MarkType
      BY <2>1, LogFacts DEF MarkType
    <3> QED
      BY <1>1, <2>1, <3>1
  <2>3. sizes' \in [1 .. generation -> Seq(MarkType)] /\ generation \in Nat
    BY <1>1, <2>1, <2>2, LogFacts
  <2> QED
    BY <1>1, <2>1, <2>3, LenProperties
<1>5. TypeOK'
  <2>1. segments' \in [Retained -> 0 .. MaxSegment]
    BY <1>1, <1>2, <1>3, LogFacts, LogAssumption DEF IInv, LogInv, FilesFit
  <2>2. born' \in PlaceType
    BY <1>1, LogFacts DEF At, PlaceType
  <2>3. closed' \in BOOLEAN
    BY <1>1, Zenon
  <2>4. LogType'
    BY <1>1, <1>2, <1>4, <2>1, <2>2, <2>3, Zenon DEF IInv, TypeOK, LogType
  <2>5. ReaderType'
    BY DEF Adopt, IInv, TypeOK, ReaderType, Phases, Results, NoWant, WantType
  <2> QED
    BY <2>4, <2>5 DEF TypeOK
<1>6. LogInv'
  <2>1. IndexMatchesDirectory' /\ FilesFit' /\ OpenLog'
    BY <1>1, <1>2, <1>3 DEF IInv, LogInv, IndexMatchesDirectory, FilesFit, OpenLog
  <2>2. MarksCurrent'
    <3>1. CASE alive
      <4>1. Marks' = <<[off |-> end, size |-> grid]>> /\ segments'[generation'] = end
        BY <1>1, <1>3, <1>4, <3>1, LogFacts DEF Marks
      <4> QED
        BY <1>1, <1>3, <4>1, LogFacts DEF MarksCurrent
    <3>2. CASE ~alive
      BY <1>1, <3>2, Zenon DEF MarksCurrent
    <3> QED
      BY <3>1, <3>2
  <2> QED
    BY <2>1, <2>2 DEF LogInv
<1>7. ReaderInv'
  <2>1. \A r \in Readers : phase'[r] = "none"
    BY DEF Adopt
  <2>2. CursorStaysValid'
    BY <1>1, <1>2, <1>3 DEF IInv, ReaderInv, CursorStaysValid
  <2>3. ReaderPlaced'
    BY <1>1, <2>1 DEF IInv, ReaderInv, ReaderPlaced
  <2> QED
    BY <2>1, <2>2, <2>3 DEF ReaderInv, NoTornRead, NoMissedWakeup
<1> QED
  BY <1>5, <1>6, <1>7 DEF IInv

=============================================================================
