------------------------- MODULE OutputLogInvariant --------------------------
(***************************************************************************)
(* The inductive invariant of the output log, what it says of each part of *)
(* the state, and lemmas about the operators the model is built from.      *)
(***************************************************************************)
EXTENDS OutputLog, SequenceTheorems, WellFoundedInduction, TLAPS

-----------------------------------------------------------------------------
\* The inductive invariant.

\* Every file fits the bound, so that an adoption may index it.
FilesFit == \A g \in 1 .. generation : Len(disk[g]) <= MaxSegment

\* A failed log is closed, and only a closed log may have lost its directory.
OpenLog == (failed => closed) /\ (~closed => files = Retained)

\* An open log knows the current grid: the last mark of the active generation
\* has it, and no mark lies beyond the end of the log.
MarksCurrent ==
  ~closed => /\ Len(Marks) > 0
             /\ Marks[Len(Marks)].size = grid
             /\ \A i \in DOMAIN Marks : Marks[i].off <= segments[generation]

\* A client's position is in a generation that exists, and the limit an open
\* reader cached for the file it has pinned (or is about to read) is one the
\* file has reached.
ReaderPlaced ==
  \A r \in Readers :
    /\ cursor[r].gen <= generation
    /\ phase[r] # "none" =>
         /\ cursor[r].gen >= 1
         /\ Pinned(r) \/ phase[r] \in {"pin", "read"}
              => limit[r] <= Len(disk[cursor[r].gen])

LogInv    == IndexMatchesDirectory /\ FilesFit /\ OpenLog /\ MarksCurrent
ReaderInv == ReaderPlaced /\ CursorStaysValid /\ NoTornRead /\ NoMissedWakeup
IInv      == TypeOK /\ LogInv /\ ReaderInv

-----------------------------------------------------------------------------
\* Lemmas about the operators of the model.

\* A non-empty set of numbers has a least element, and Min is one.
LEMMA MinOfNaturals ==
  ASSUME NEW S \in SUBSET Nat, S # {}
  PROVE  Min(S) \in S /\ \A y \in S : Min(S) <= y
<1> DEFINE R == {ss \in Nat \X Nat : ss[1] < ss[2]}
<1>1. IsWellFoundedOn(R, Nat)
  BY NatLessThanWellFounded DEF OpToRel
<1> HIDE DEF R
<1>2. PICK x \in S : \A y \in S : ~(<<y, x>> \in R)
  BY <1>1, WFMin, Zenon
<1>3. ASSUME NEW y \in S, y < x PROVE FALSE
  <2>1. <<y, x>> \in Nat \X Nat
    OBVIOUS
  <2>2. <<y, x>>[1] < <<y, x>>[2]
    BY <1>3
  <2>3. <<y, x>> \in R
    BY <2>1, <2>2, Zenon DEF R
  <2> QED
    BY <1>2, <2>3
<1>4. \A y \in S : x <= y
  BY <1>3
<1> QED
  BY <1>4, Zenon DEF Min

\* SpanEnd never lets a chunk run past the readable end.
LEMMA SpanEndBounded ==
  ASSUME NEW c, NEW e \in Nat, NEW M \in Seq(MarkType), sizes[c.gen] = M,
         c.off \in Nat
  PROVE  /\ SpanEnd(c, e) \in Nat
         /\ SpanEnd(c, e) <= e
         /\ c.off >= SpanEnd(c, e) => c.off >= e
<1>1. CASE Following(c) = {}
  BY <1>1 DEF SpanEnd
<1>2. CASE Following(c) # {}
  <2>1. Following(c) \in SUBSET Nat /\ Following(c) \subseteq 1 .. Len(M)
    BY DEF Following
  <2> DEFINE m == Min(Following(c))
  <2>2. m \in Following(c)
    BY <1>2, <2>1, MinOfNaturals
  <2>3. SpanEnd(c, e) = IF M[m].off < e THEN M[m].off ELSE e
    BY <1>2 DEF SpanEnd
  <2> HIDE DEF m
  <2>4. m \in 1 .. Len(M) /\ M[m].off > c.off
    BY <2>1, <2>2 DEF Following
  <2>5. M[m] \in MarkType
    BY <2>4, ElementOfSeq
  <2>6. M[m].off \in Nat
    BY <2>5 DEF MarkType
  <2> QED
    BY <2>3, <2>4, <2>6
<1> QED
  BY <1>1, <1>2

\* What a sequence of sequences (the files, the marks) holds.
LEMMA RowOfRows ==
  ASSUME NEW S, NEW D \in Seq(Seq(S))
  PROVE  /\ Len(D) \in Nat
         /\ \A g \in 1 .. Len(D) : D[g] \in Seq(S) /\ Len(D[g]) \in Nat
<1>1. ASSUME NEW g \in 1 .. Len(D) PROVE D[g] \in Seq(S)
  BY ElementOfSeq
<1> QED
  BY <1>1, LenProperties

-----------------------------------------------------------------------------
\* The initial state.
LEMMA InitIInv == Init => IInv
<1> SUFFICES ASSUME Init PROVE IInv
  OBVIOUS
<1> USE LogAssumption DEF Init
<1>1. LogType
  <2>1. disk \in Seq(Seq(Grids)) /\ Len(disk) = 1
    OBVIOUS
  <2>2. sizes \in Seq(Seq(MarkType)) /\ Len(sizes) = 1
    BY DEF MarkType
  <2>3. segments \in [{1} -> 0 .. MaxSegment]
    OBVIOUS
  <2>4. Retained = {1} /\ generation = 1 /\ files = {1} /\ generation \in Generations
    BY DEF Retained, Generations
  <2>5. grid \in Grids /\ born \in PlaceType
    BY DEF At, PlaceType
  <2>6. closed \in BOOLEAN /\ failed \in BOOLEAN /\ alive \in BOOLEAN
    BY Zenon
  <2> HIDE DEF Init
  <2> QED
    BY <2>1, <2>2, <2>3, <2>4, <2>5, <2>6 DEF LogType
<1>2. ReaderType
  BY DEF ReaderType, Zero, NoWant, WantType, PlaceType, Phases, Results
<1>3. LogInv
  BY DEF LogInv, IndexMatchesDirectory, FilesFit, OpenLog, MarksCurrent, Marks, Retained
<1>4. ReaderInv
  BY DEF ReaderInv, ReaderPlaced, CursorStaysValid, NoTornRead, NoMissedWakeup, Zero
<1> QED
  BY <1>1, <1>2, <1>3, <1>4 DEF IInv, TypeOK

\* A step of the log that grows files and forgets segments, and may wake the
\* blocked readers, leaves what is known of a reader's position true.
LEMMA LogKeepsPositions ==
  ASSUME IInv, TypeOK', LogInv',
         phase' \in {phase, Signalled}, UNCHANGED <<cursor, file, limit, want>>,
         generation <= generation',
         \A g \in 1 .. generation : Len(disk[g]) <= Len(disk'[g]),
         \A g \in Retained' : g <= generation => g \in Retained /\ segments[g] <= segments'[g]
  PROVE  ReaderPlaced' /\ CursorStaysValid' /\ NoTornRead'
<1> USE DEF IInv
<1>1. /\ cursor' = cursor /\ file' = file /\ limit' = limit /\ want' = want
      /\ \A r \in Readers : /\ phase'[r] = "none" <=> phase[r] = "none"
                            /\ phase'[r] = "read" <=> phase[r] = "read"
                            /\ phase'[r] = "pin" <=> phase[r] = "pin"
  BY DEF Signalled
<1>2. /\ generation \in Nat /\ generation' \in Nat
      /\ \A r \in Readers : /\ cursor[r].gen \in Nat /\ cursor[r].off \in Nat
                            /\ limit[r] \in Nat /\ want[r].n \in Nat
  <2>1. generation \in Nat /\ generation' \in Nat
    BY LogAssumption DEF TypeOK, LogType, Generations
  <2>2. \A r \in Readers : cursor[r] \in PlaceType /\ limit[r] \in Nat /\ want[r] \in WantType
    BY DEF TypeOK, ReaderType
  <2> QED
    BY <2>1, <2>2 DEF PlaceType, WantType
<1>3. \A g \in 1 .. generation : Len(disk[g]) \in Nat /\ Len(disk'[g]) \in Nat
  <2>1. \A g \in 1 .. generation : Len(disk[g]) \in Nat
    BY RowOfRows DEF TypeOK, LogType
  <2>2. \A g \in 1 .. generation' : Len(disk'[g]) \in Nat
    BY RowOfRows DEF TypeOK, LogType
  <2> QED
    BY <1>2, <2>1, <2>2
<1>4. /\ \A g \in Retained : segments[g] \in Nat /\ g \in 1 .. generation
      /\ \A g \in Retained' : segments'[g] \in Nat
  <2>1. LogType /\ LogType'
    BY DEF TypeOK
  <2>2. \A g \in Retained : segments[g] \in Nat /\ g \in 1 .. generation
    BY <2>1, LogAssumption DEF LogType
  <2>3. \A g \in Retained' : segments'[g] \in Nat
    BY <2>1, LogAssumption DEF LogType
  <2> QED
    BY <2>2, <2>3
<1>5. ReaderPlaced'
  BY <1>1, <1>2, <1>3 DEF ReaderInv, ReaderPlaced, Pinned
<1>6. CursorStaysValid'
  BY <1>1, <1>2, <1>4 DEF ReaderInv, ReaderPlaced, CursorStaysValid
<1>7. ASSUME NEW r \in Readers, phase'[r] = "read", NEW g, g = cursor[r].gen
      PROVE  cursor[r].off + want[r].n <= IF g \in Retained' THEN segments'[g] ELSE Len(disk'[g])
  <2>1. g \in 1 .. generation /\ cursor[r].off + want[r].n <= Recorded(g)
    BY <1>1, <1>2, <1>7 DEF ReaderInv, ReaderPlaced, NoTornRead
  <2>2. g \in Retained => segments[g] <= Len(disk[g])
    BY DEF LogInv, IndexMatchesDirectory
  <2>3. CASE g \in Retained'
    BY <1>2, <1>4, <2>1, <2>3 DEF Recorded
  <2>4. CASE g \notin Retained'
    <3>1. Recorded(g) \in Nat /\ Recorded(g) <= Len(disk[g])
      BY <1>3, <1>4, <2>1, <2>2 DEF Recorded
    <3> QED
      BY <1>2, <1>3, <2>1, <2>4, <3>1
  <2> QED
    BY <2>3, <2>4
<1>8. NoTornRead'
  BY <1>1, <1>7 DEF NoTornRead, Recorded
<1> QED
  BY <1>5, <1>6, <1>8

\* The same, when the blocked readers are woken.
LEMMA SignalKeepsReaders ==
  ASSUME IInv, Signal, TypeOK', LogInv',
         generation <= generation',
         \A g \in 1 .. generation : Len(disk[g]) <= Len(disk'[g]),
         \A g \in Retained' : g <= generation => g \in Retained /\ segments[g] <= segments'[g]
  PROVE  ReaderInv'
<1>1. ReaderPlaced' /\ CursorStaysValid' /\ NoTornRead'
  BY LogKeepsPositions DEF Signal
<1>2. NoMissedWakeup'
  BY DEF NoMissedWakeup, Signal, Signalled
<1> QED
  BY <1>1, <1>2 DEF ReaderInv

\* What the steps of the log need of the invariant.
LEMMA LogFacts ==
  ASSUME IInv
  PROVE  /\ generation \in Nat /\ generation \in 1 .. MaxGeneration
         /\ generation \in Retained
         /\ \A g \in Retained : g \in 1 .. generation /\ segments[g] \in Nat
         /\ segments[generation] \in 0 .. MaxSegment
         /\ disk \in Seq(Seq(Grids)) /\ Len(disk) = generation
         /\ \A g \in 1 .. generation : disk[g] \in Seq(Grids) /\ Len(disk[g]) \in Nat
         /\ sizes \in Seq(Seq(MarkType)) /\ Len(sizes) = generation
         /\ \A g \in 1 .. generation : sizes[g] \in Seq(MarkType) /\ Len(sizes[g]) \in Nat
         /\ ~closed => /\ ~failed /\ files = Retained
                       /\ \A g \in Retained : segments[g] = Len(disk[g])
<1>1. LogType
  BY DEF IInv, TypeOK
<1>2. /\ generation \in Nat /\ generation \in 1 .. MaxGeneration
      /\ generation \in Retained
      /\ \A g \in Retained : g \in 1 .. generation /\ segments[g] \in Nat
      /\ segments[generation] \in 0 .. MaxSegment
  BY <1>1, LogAssumption DEF LogType, Generations
<1>3. /\ disk \in Seq(Seq(Grids)) /\ Len(disk) = generation
      /\ sizes \in Seq(Seq(MarkType)) /\ Len(sizes) = generation
  BY <1>1 DEF LogType
<1>4. ~closed => /\ ~failed /\ files = Retained
                 /\ \A g \in Retained : segments[g] = Len(disk[g])
  BY DEF IInv, LogInv, OpenLog, IndexMatchesDirectory
<1> QED
  BY <1>2, <1>3, <1>4, RowOfRows

\* The numbers among them.
LEMMA CountFacts ==
  ASSUME IInv
  PROVE  /\ generation \in Nat /\ generation \in Retained
         /\ \A g \in Retained : /\ g \in 1 .. generation /\ segments[g] \in Nat
                               /\ segments[g] <= Len(disk[g])
         /\ \A g \in 1 .. generation : Len(disk[g]) \in Nat
<1>1. \A g \in Retained : segments[g] <= Len(disk[g])
  BY DEF IInv, LogInv, IndexMatchesDirectory
<1> QED
  BY <1>1, LogFacts

\* The marks of a generation are marks.
LEMMA MarkFacts ==
  ASSUME IInv, NEW g \in 1 .. generation
  PROVE  /\ DOMAIN sizes[g] = 1 .. Len(sizes[g])
         /\ \A i \in DOMAIN sizes[g] : sizes[g][i] \in MarkType /\ sizes[g][i].off \in Nat
<1>1. sizes[g] \in Seq(MarkType)
  BY LogFacts
<1>2. DOMAIN sizes[g] = 1 .. Len(sizes[g])
  BY <1>1
<1>3. \A i \in DOMAIN sizes[g] : sizes[g][i] \in MarkType
  BY <1>1, <1>2, ElementOfSeq
<1> QED
  BY <1>2, <1>3 DEF MarkType

\* Signal changes no reader's type.
LEMMA SignalTypes ==
  ASSUME ReaderType, Signal
  PROVE  ReaderType'
BY DEF ReaderType, Signal, Signalled, Phases

\* A step that changes nothing keeps the invariant.
LEMMA StutterKeeps ==
  ASSUME IInv, UNCHANGED vars
  PROVE  IInv'
<1>1. UNCHANGED logVars /\ UNCHANGED readerVars
  BY DEF vars
<1>2. TypeOK'
  <2>1. LogType'
    BY <1>1 DEF IInv, TypeOK, LogType, Retained, logVars
  <2>2. ReaderType'
    BY <1>1 DEF IInv, TypeOK, ReaderType, readerVars
  <2> QED
    BY <2>1, <2>2 DEF TypeOK
<1>3. LogInv'
  BY <1>1 DEF IInv, LogInv, IndexMatchesDirectory, FilesFit, OpenLog, MarksCurrent, Marks,
     Retained, logVars
<1>4. ReaderInv'
  BY <1>1 DEF IInv, ReaderInv, ReaderPlaced, Pinned, CursorStaysValid, NoTornRead, Recorded,
     NoMissedWakeup, End, Retained, logVars, readerVars
<1> QED
  BY <1>2, <1>3, <1>4 DEF IInv

\* n bytes more in the active file.
LEMMA WrittenFacts ==
  ASSUME IInv, NEW n \in Nat, disk' = Written(n)
  PROVE  /\ disk' \in Seq(Seq(Grids)) /\ Len(disk') = generation
         /\ \A g \in 1 .. generation :
              Len(disk'[g]) = IF g = generation THEN Len(disk[g]) + n ELSE Len(disk[g])
<1> DEFINE new == [i \in 1 .. n |-> grid]
           row == disk[generation] \o new
<1>1. grid \in Grids
  BY DEF IInv, TypeOK, LogType
<1>2. new \in Seq(Grids) /\ Len(new) = n
  BY <1>1, IsASeq
<1>3. disk[generation] \in Seq(Grids) /\ generation \in 1 .. Len(disk) /\ disk \in Seq(Seq(Grids))
      /\ Len(disk) = generation
  BY LogFacts
<1> HIDE DEF new
<1>4. row \in Seq(Grids) /\ Len(row) = Len(disk[generation]) + n
  BY <1>2, <1>3, ConcatProperties, Zenon
<1>5. disk' = [disk EXCEPT ![generation] = row]
  BY DEF Written, new
<1> HIDE DEF row
<1>6. disk' \in Seq(Seq(Grids)) /\ Len(disk') = Len(disk)
  BY <1>3, <1>4, <1>5, ExceptSeq
<1>7. \A g \in 1 .. generation : disk'[g] = IF g = generation THEN row ELSE disk[g]
  BY <1>3, <1>5
<1> QED
  BY <1>3, <1>4, <1>6, <1>7

=============================================================================
