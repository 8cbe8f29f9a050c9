--------------------------- MODULE OutputLogProofs ---------------------------
(***************************************************************************)
(* The theorems about the output log, for any number of readers, grids,    *)
(* generations and bytes.                                                  *)
(***************************************************************************)
EXTENDS OutputLogWriterProofs, OutputLogReaderProofs

\* Every step of the log or of a reader keeps the invariant.
LEMMA StepKeepsIInv == IInv /\ [Next]_vars => IInv'
<1> SUFFICES ASSUME IInv, [Next]_vars PROVE IInv'
  OBVIOUS
<1>1. CASE LogStep
  BY <1>1, AppendOutputKeeps, AppendFailsKeeps, RotateKeeps, PruneKeeps, PruneFailsKeeps,
     MarkSizeKeeps, CloseLogKeeps, DiscardKeeps, AdoptKeeps DEF LogStep
<1>2. ASSUME NEW r \in Readers, ReaderStep(r) PROVE IInv'
  BY <1>2, PinKeeps, ReadLockedKeeps, ReadFileKeeps DEF ReaderStep
<1>3. ASSUME NEW r \in Readers, NEW from \in Cursors \cup {Zero}, OpenReader(r, from)
      PROVE  IInv'
  BY <1>3, OpenReaderKeeps
<1>4. ASSUME NEW r \in Readers, CloseReader(r) PROVE IInv'
  BY <1>4, CloseReaderKeeps
<1>5. CASE UNCHANGED vars
  BY <1>5, StutterKeeps
<1> QED
  BY <1>1, <1>2, <1>3, <1>4, <1>5 DEF Next

\* The invariant holds in every behaviour of the log, for any number of readers,
\* generations, grids and bytes.
THEOREM Invariance == Spec => []IInv
BY InitIInv, StepKeepsIInv, PTL DEF Spec

\* Every variable of output.go's log and of its readers keeps its type.
THEOREM TypeCorrect == Spec => []TypeOK
<1>1. IInv => TypeOK
  BY DEF IInv
<1> QED
  BY <1>1, Invariance, PTL

\* The index and the directory agree, whatever rotate, prune, a failed prune, a
\* failed write, Delete and an adoption did.
THEOREM IndexCorrect == Spec => []IndexMatchesDirectory
<1>1. IInv => IndexMatchesDirectory
  BY DEF IInv, LogInv
<1> QED
  BY <1>1, Invariance, PTL

\* No reader sleeps through something it has to hear of (signalLocked).
THEOREM WakeupsComplete == Spec => []NoMissedWakeup
<1>1. IInv => NoMissedWakeup
  BY DEF IInv, ReaderInv
<1> QED
  BY <1>1, Invariance, PTL

\* A client's cursor never becomes ErrInvalidCursor (resolveCursorLocked).
THEOREM CursorsStayValid == Spec => []CursorStaysValid
<1>1. IInv => CursorStaysValid
  BY DEF IInv, ReaderInv
<1> QED
  BY <1>1, Invariance, PTL

\* No reader is handed the torn tail of a failed write (localOutputSource.read).
THEOREM ReadsAcknowledged == Spec => []NoTornRead
<1>1. IInv => NoTornRead
  BY DEF IInv, ReaderInv
<1> QED
  BY <1>1, Invariance, PTL

\* A reader that leaves a retained generation in a step has read all of it.
LEMMA StepSkipsNothing ==
  ASSUME IInv, [Next]_vars, NEW r \in Readers, phase[r] = "ready",
         cursor'[r].gen # cursor[r].gen, cursor[r].gen \in Retained
  PROVE  cursor[r].off = Len(disk[cursor[r].gen])
<1>1. cursor' # cursor
  OBVIOUS
<1>2. ~LogStep /\ ~UNCHANGED vars
  BY <1>1, Zenon DEF LogStep, AppendOutput, AppendFails, Rotate, Prune, PruneFails, MarkSize,
     CloseLog, Discard, Adopt, Signal, readerVars, vars
<1>3. ASSUME NEW q \in Readers, q # r, ReadLocked(q) \/ (\E n \in 1 .. MaxSegment : ReadFile(q, n))
      PROVE  FALSE
  BY <1>3 DEF ReadLocked, ReadFile, IInv, TypeOK, ReaderType
<1>4. ASSUME NEW q \in Readers, Pin(q) \/ CloseReader(q) PROVE FALSE
  BY <1>1, <1>4 DEF Pin, CloseReader
<1>5. ASSUME NEW q \in Readers, NEW from, OpenReader(q, from) PROVE FALSE
  BY <1>5 DEF OpenReader, IInv, TypeOK, ReaderType
<1>6. ~(\E n \in 1 .. MaxSegment : ReadFile(r, n))
  BY DEF ReadFile
<1>7. ReadLocked(r)
  BY <1>2, <1>3, <1>4, <1>5, <1>6 DEF Next, ReaderStep
<1>8. Complete(r) /\ cursor[r].off >= EndFor(r)
  BY <1>1, <1>7 DEF ReadLocked
<1>9. segments[cursor[r].gen] = Len(disk[cursor[r].gen])
  <2>1. cursor[r].gen < generation
    BY <1>8 DEF Complete
  <2> QED
    BY <2>1, LogFacts DEF IInv, LogInv, IndexMatchesDirectory
<1>10. /\ cursor[r].off \in Nat /\ segments[cursor[r].gen] \in Nat
       /\ cursor[r].off <= segments[cursor[r].gen] /\ segments[cursor[r].gen] = Limit(r)
       /\ cursor[r].off >= Limit(r)
  BY <1>8, PassFacts
<1> QED
  BY <1>9, <1>10

\* A rotation that races a reader never makes it skip output that is retained.
THEOREM NothingRetainedSkipped == Spec => RetainedNeverSkipped
<1>1. IInv /\ [Next]_vars =>
        [\A r \in Readers :
           phase[r] = "ready" /\ cursor'[r].gen # cursor[r].gen /\ cursor[r].gen \in Retained
             => cursor[r].off = Len(disk[cursor[r].gen])]_vars
  BY StepSkipsNothing
<1> QED
  BY <1>1, Invariance, PTL DEF Spec, RetainedNeverSkipped

=============================================================================
