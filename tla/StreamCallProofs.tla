---------------------------- MODULE StreamCallProofs ----------------------------
(***************************************************************************)
(* The invariant of a client's call on its connection, and that every step *)
(* of the server, of other connections and of the session keeps it.        *)
(***************************************************************************)
EXTENDS StreamConnProofs

-----------------------------------------------------------------------------
\* The invariant of the client's call.

\* Where the server's reader stands for the client: at the end of its blob so far, or beyond
\* its cursor by bytes that a failed read has consumed; and a line that continues from there.
Waiting      == cpc \in {"opening", "await"}
Gap(x)       == cursor <= x /\ cursor + 1..x \subseteq lost
Continues(x) == IF Reader(conn) THEN Gap(x) ELSE x = Len(data)
Fits(m) == IF cpc = "opening" THEN m.n = 0 /\ (Reader(conn) => m.to = cursor)
           ELSE m.n <= m.to /\ Continues(m.to - m.n)

\* Until the client hears of a failed read, what it has consumed is not yet lost.
Beyond(x) == cursor <= x /\ ("partial" \notin Faults => Gap(x))

\* What is in flight to the client: at most a line that continues from its place, then the
\* payload that line announced, then errors.
Quiet(d, k) == \A i \in k..Len(d) : d[i].is \notin {"line", "payload"}
Pairs(m, line) == m.is = "payload" /\ m.n = line.n /\ m.to = line.to
LineOnly(d)    == d # <<>> /\ Waiting /\ d[1].is = "line" /\ Fits(d[1]) /\ Quiet(d, 2)
LinePayload(d) == /\ Len(d) > 1 /\ cpc = "await" /\ d[1].is = "line" /\ d[1].n > 0 /\ Fits(d[1])
                  /\ Pairs(d[2], d[1]) /\ Quiet(d, 3)
PayloadOnly(d) == d # <<>> /\ cpc = "payload" /\ Pairs(d[1], head) /\ Quiet(d, 2)
InFlight(d)    == Quiet(d, 1) \/ LineOnly(d) \/ LinePayload(d) \/ PayloadOnly(d)

\* The reader stands where a line left it, or beyond what an error reports.
LineAt(m)  == ~Single(conn) => IF cpc = "opening" THEN Continues(at[conn]) ELSE at[conn] = m.to
ErrorAt    == ~Single(conn) => cpc = "await" /\ Reader(conn) /\ Beyond(at[conn])
ReplyFits ==
  LET r == reply[conn]
  IN  \/ r.is = "line" /\ Fits(r) /\ LineAt(r)
      \/ r.is = "error" /\ r.n = 0 /\ (r.last \/ ErrorAt)

\* The states of the exchange on a connection that the server still has.
Rested == IF Single(conn) THEN "first" ELSE "next"
Asked ==
  /\ req[conn] /\ down[conn] = <<>>
  /\ \/ spc[conn] \in {"dialled", "first"} /\ cpc = "opening" /\ (Reader(conn) => at[conn] = cursor)
     \/ spc[conn] = "next" /\ cpc = "await" /\ ~Single(conn) /\ Continues(at[conn])
Worked ==
  /\ ~req[conn] /\ down[conn] = <<>> /\ Waiting
  /\ \/ spc[conn] = "work" /\ (cpc = "await" <=> Reader(conn)) /\ (Reader(conn) => Gap(at[conn]))
     \/ spc[conn] \in {"wake", "join", "line"} /\ ReplyFits
Halved ==
  /\ ~req[conn] /\ spc[conn] = "payload" /\ ~Single(conn)
  /\ reply[conn].is = "line" /\ reply[conn].n > 0 /\ at[conn] = reply[conn].to
  /\ \/ cpc = "await" /\ down[conn] = <<reply[conn]>>
     \/ cpc = "payload" /\ down[conn] = <<>> /\ head = reply[conn]
Answered ==
  LET d == down[conn]
  IN  /\ ~req[conn] /\ spc[conn] = Rested
      /\ \/ Waiting /\ Len(d) = 1 /\ d[1].is = "line" /\ d[1].n = 0 /\ LineAt(d[1])
         \/ Waiting /\ Len(d) = 1 /\ d[1].is = "error" /\ ErrorAt
         \/ /\ ~Single(conn) /\ cpc = "await" /\ Len(d) = 2 /\ d[1].is = "line" /\ d[1].n > 0
            /\ d[2].is = "payload" /\ at[conn] = d[1].to
         \/ /\ ~Single(conn) /\ cpc = "payload" /\ Len(d) = 1 /\ d[1].is = "payload"
            /\ at[conn] = head.to
Resting == /\ ~req[conn] /\ spc[conn] = "next" /\ cpc = "open" /\ down[conn] = <<>>
           /\ Gap(at[conn])
Exchange == spc[conn] = "left" \/ Asked \/ Worked \/ Halved \/ Answered \/ Resting

\* The client's call, while it has one.
CallInv ==
  cpc # "none" =>
    /\ InFlight(down[conn]) /\ Exchange
    /\ cpc = "payload" => head.n <= head.to /\ Continues(head.to - head.n)
    /\ cpc = "open" => Reader(conn)
    /\ Single(conn) => cpc = "opening"

\* A blob so far is the beginning of what was captured, and only a failing read loses bytes.
DataExact == /\ data = [i \in 1..Len(data) |-> i]
             /\ cpc \in {"none", "opening"} => data = <<>>
Lossless  == "partial" \notin Faults => lost = {}

IInv == /\ TypeOK /\ ConnInv /\ CallInv /\ DataExact /\ DeliveredOnce /\ Lossless /\ BlobExact
        /\ OnlyHangUpCancels

-----------------------------------------------------------------------------
\* What is in flight.

\* Taking the first message leaves the quiet rest quiet.
LEMMA QuietTail ==
  ASSUME NEW d \in Seq(Message), d # <<>>, NEW k \in {1, 2}, Quiet(d, k + 1)
  PROVE  Quiet(Tail(d), k)
<1> DEFINE t == Tail(d)
<1>1. Len(d) \in Nat /\ Len(t) = Len(d) - 1 /\ \A i \in 1..Len(t) : t[i] = d[i + 1]
  BY HeadTailProperties, LenProperties
<1> HIDE DEF t
<1>2. ASSUME NEW i \in k..Len(t) PROVE t[i].is \notin {"line", "payload"}
  <2>1. i \in 1..Len(t) /\ i + 1 \in k + 1..Len(d)
    BY <1>1
  <2> QED
    BY <1>1, <2>1 DEF Quiet
<1> QED
  BY <1>2 DEF Quiet, t

\* An error at the end keeps what is quiet quiet.
LEMMA QuietAppend ==
  ASSUME NEW d \in Seq(Message), NEW m \in Message, m.is \in {"error", "broken"}, NEW k \in {1, 2, 3},
         Quiet(d, k)
  PROVE  Quiet(Append(d, m), k)
<1> DEFINE t == Append(d, m)
<1>1. /\ Len(d) \in Nat /\ Len(t) = Len(d) + 1 /\ \A i \in 1..Len(d) : t[i] = d[i]
      /\ t[Len(d) + 1] = m
  BY AppendProperties, LenProperties
<1> HIDE DEF t
<1>2. ASSUME NEW i \in k..Len(t) PROVE t[i].is \notin {"line", "payload"}
  <2>1. CASE i = Len(d) + 1
    BY <1>1, <2>1
  <2>2. CASE i # Len(d) + 1
    BY <1>1, <2>2 DEF Quiet
  <2> QED
    BY <2>1, <2>2
<1> QED
  BY <1>2 DEF Quiet, t

\* Nothing in flight is quiet.
LEMMA QuietEmpty == Quiet(<<>>, 1)
BY DEF Quiet

\* An error can follow whatever is in flight.
LEMMA InFlightAppend ==
  ASSUME NEW d \in Seq(Message), NEW m \in Message, m.is \in {"error", "broken"}, InFlight(d)
  PROVE  InFlight(Append(d, m))
<1> DEFINE t == Append(d, m)
<1>1. /\ Len(d) \in Nat /\ Len(t) = Len(d) + 1 /\ \A i \in 1..Len(d) : t[i] = d[i] /\ t # <<>>
      /\ d # <<>> => Len(d) > 0
  BY AppendProperties, LenProperties, EmptySeq
<1>2. \A k \in {1, 2, 3} : Quiet(d, k) => Quiet(t, k)
  BY QuietAppend
<1> HIDE DEF t
<1>3. CASE Quiet(d, 1)
  BY <1>2, <1>3 DEF InFlight, t
<1>4. CASE LineOnly(d)
  <2>1. t # <<>> /\ t[1] = d[1] /\ Quiet(t, 2)
    BY <1>1, <1>2, <1>4 DEF LineOnly
  <2> QED
    BY <1>4, <2>1 DEF LineOnly, InFlight, t
<1>5. CASE LinePayload(d)
  <2>1. Len(t) > 1 /\ t[1] = d[1] /\ t[2] = d[2] /\ Quiet(t, 3)
    BY <1>1, <1>2, <1>5 DEF LinePayload
  <2> QED
    BY <1>5, <2>1 DEF LinePayload, InFlight, t
<1>6. CASE PayloadOnly(d)
  <2>1. t # <<>> /\ t[1] = d[1] /\ Quiet(t, 2)
    BY <1>1, <1>2, <1>6 DEF PayloadOnly
  <2> QED
    BY <1>6, <2>1 DEF PayloadOnly, InFlight, t
<1> QED
  BY <1>3, <1>4, <1>5, <1>6 DEF InFlight

\* What the invariant says of a call depends on its connection and the client alone.
LEMMA CallSame ==
  ASSUME TypeOK, CallInv, UNCHANGED clientVars, UNCHANGED kind,
         spc'[conn] = spc[conn], req'[conn] = req[conn], down'[conn] = down[conn],
         at'[conn] = at[conn], reply'[conn] = reply[conn]
  PROVE  CallInv'
<1>1. /\ UNCHANGED <<cpc, conn, head, cursor, lost, data>> /\ Reader(conn)' = Reader(conn)
      /\ Single(conn)' = Single(conn) /\ Waiting' = Waiting /\ Rested' = Rested
  BY ZenonT(30) DEF clientVars, Reader, Single, Waiting, Rested
<1>2. InFlight(down[conn])' = InFlight(down[conn])
  BY <1>1, ZenonT(30) DEF InFlight, Quiet, LineOnly, LinePayload, PayloadOnly, Pairs, Fits, Continues, Gap
<1>3. Asked' = Asked /\ Halved' = Halved /\ Resting' = Resting
  BY <1>1, ZenonT(30) DEF Asked, Halved, Resting, Continues, Gap
<1>4. ReplyFits' = ReplyFits
  BY <1>1, ZenonT(30) DEF ReplyFits, Fits, LineAt, ErrorAt, Beyond, Continues, Gap
<1>5. Worked' = Worked
  BY <1>1, <1>4, ZenonT(30) DEF Worked, Gap
<1>6. Answered' = Answered
  BY <1>1, ZenonT(30) DEF Answered, LineAt, ErrorAt, Beyond, Continues, Gap
<1>7. (head.n <= head.to /\ Continues(head.to - head.n))' = (head.n <= head.to /\ Continues(head.to - head.n))
  BY <1>1, ZenonT(30) DEF Continues, Gap
<1> QED
  BY <1>1, <1>2, <1>3, <1>5, <1>6, <1>7, ZenonT(30) DEF CallInv, Exchange

\* A server that has left keeps what is in flight.
LEMMA CallLeft ==
  ASSUME TypeOK, CallInv, UNCHANGED clientVars, UNCHANGED kind, cpc # "none",
         spc'[conn] = "left", InFlight(down'[conn])
  PROVE  CallInv'
BY ZenonT(30) DEF clientVars, CallInv, InFlight, Quiet, LineOnly, LinePayload, PayloadOnly, Pairs, Waiting, Fits,
       Continues, Gap, Exchange, Reader, Single

\* While the exchange is going on, what it says of the next state is enough.
LEMMA CallNext ==
  ASSUME TypeOK, CallInv, UNCHANGED clientVars, UNCHANGED kind, cpc # "none",
         InFlight(down'[conn]), Asked' \/ Worked' \/ Halved' \/ Answered'
  PROVE  CallInv'
BY ZenonT(30) DEF clientVars, CallInv, InFlight, Quiet, LineOnly, LinePayload, PayloadOnly, Pairs, Waiting, Fits,
       Continues, Gap, Exchange, Reader, Single

\* A reader at the client's cursor has skipped nothing.
LEMMA GapAtCursor == ASSUME TypeOK PROVE Gap(cursor)
BY DEF TypeOK, Gap

\* A connection with nothing in flight meets the invariant of what is in flight.
LEMMA NothingInFlight == \A d : d = <<>> => InFlight(d)
BY QuietEmpty DEF InFlight

-----------------------------------------------------------------------------
\* The server's steps.

\* The handler of the client's connection, one lemma for each part of a response.
LEMMA CallTakes ==
  ASSUME TypeOK, ConnInv, CallInv, DataExact, cpc # "none",
         OpenOutput(conn) \/ Start(conn) \/ Chunk(conn)
  PROVE  CallInv'
<1>1. conn \in Conns /\ UNCHANGED clientVars /\ UNCHANGED kind /\ down' = down
  BY ZenonT(30) DEF TypeOK, OpenOutput, Start, Chunk
<1>2. req[conn] /\ ~req'[conn] /\ spc[conn] \in {"first", "next"}
  BY <1>1, ZenonT(30) DEF TypeOK, OpenOutput, Start, Chunk, Takes
<1>3. Asked
  BY <1>2 DEF CallInv, Exchange, Asked, Worked, Halved, Answered, Resting
<1>4. down[conn] = <<>> /\ down'[conn] = <<>> /\ InFlight(down'[conn]) /\ Waiting
  BY <1>1, <1>3, NothingInFlight DEF Asked, Waiting
<1>5. CASE OpenOutput(conn)
  <2>1. cpc = "opening" /\ at[conn] = cursor /\ at' = at /\ Reader(conn)
    BY <1>3, <1>5, ZenonT(30) DEF OpenOutput, Asked
  <2>2. spc'[conn] = "line" /\ reply'[conn] \in {Msg("line", 0, at[conn], FALSE), Error(TRUE)}
    BY <1>1, <1>5, AnswersAlone, ZenonT(30) DEF OpenOutput
  <2>3. Continues(at[conn])
    BY <2>1, GapAtCursor DEF Continues
  <2>4. ReplyFits'
    BY <1>1, <2>1, <2>2, <2>3 DEF clientVars, ReplyFits, Fits, LineAt, Continues, Gap, Reader, Msg, Error
  <2>5. Worked'
    BY <1>1, <1>2, <1>4, <2>2, <2>4 DEF clientVars, Worked, Waiting
  <2> QED
    BY <1>1, <1>4, <2>5, CallNext
<1>6. CASE Start(conn)
  <2>1. spc'[conn] = "work" /\ at' = at /\ spc[conn] = (IF Reader(conn) THEN "next" ELSE "first")
    BY <1>1, <1>6 DEF TypeOK, Start, Steps
  <2>2. (cpc = "await" <=> Reader(conn)) /\ (Reader(conn) => Gap(at[conn]))
    BY <1>3, <2>1 DEF Asked, Continues
  <2>3. Worked'
    BY <1>1, <1>2, <1>4, <2>1, <2>2, ZenonT(30) DEF clientVars, Worked, Waiting, Reader, Gap
  <2> QED
    BY <1>1, <1>4, <2>3, CallNext
<1>7. CASE Chunk(conn)
  <2> DEFINE n == ChunkBytes(conn)
  <2>1. /\ spc[conn] = "next" /\ kind[conn] = "blob" /\ at'[conn] = at[conn] + n
        /\ at[conn] \in Nat
    BY <1>1, <1>7 DEF Chunk, TypeOK
  <2>2. /\ spc'[conn] = "line" 
        /\ reply'[conn] = Msg("line", n, at[conn] + n, at[conn] + n = snap[conn])
    <3> DEFINE m == Msg("line", n, at[conn] + n, at[conn] + n = snap[conn])
    <3>1. Answers(conn, m, "line")
      BY <1>7 DEF Chunk
    <3> HIDE DEF m
    <3>2. spc'[conn] = "line" /\ reply'[conn] = m
      BY <1>1, <3>1, AnswersAlone, ZenonT(30)
    <3> QED
      BY <3>2 DEF m
  <2>3. cpc = "await" /\ at[conn] = Len(data) /\ ~Reader(conn)
    BY <1>3, <2>1 DEF Asked, Continues, Reader
  <2>4. reply'[conn].is = "line" /\ reply'[conn].n = n /\ reply'[conn].to = at[conn] + n
    BY <2>2 DEF Msg
  <2>5. n \in Nat
    <3>1. at[conn] <= snap[conn] /\ snap[conn] \in Nat /\ MaxChunk \in Nat
      BY <1>1, <2>1, StreamAssumption DEF TypeOK, ConnInv, Handled, Within
    <3> QED
      BY <2>1, <3>1 DEF ChunkBytes, Lesser
  <2> HIDE DEF n
  <2>7. ReplyFits'
    <3>1. n <= at[conn] + n /\ (at[conn] + n) - n = at[conn]
      BY <2>1, <2>5
    <3>2. reply'[conn].n <= reply'[conn].to /\ reply'[conn].to - reply'[conn].n = Len(data) /\ "await" # "opening"
      BY <2>3, <2>4, <3>1
    <3> QED
      BY <1>1, <2>1, <2>3, <2>4, <3>2, ZenonT(30) DEF clientVars, ReplyFits, Fits, LineAt, Continues, Reader
  <2>6. Worked'
    BY <1>1, <1>2, <1>4, <2>2, <2>7 DEF clientVars, Worked, Waiting
  <2> QED
    BY <1>1, <1>4, <2>6, CallNext
<1> QED
  BY <1>5, <1>6, <1>7

\* What a blocking operation returns continues from the client's place, or is beyond it by what
\* it has consumed.
LEMMA CallWork ==
  ASSUME TypeOK, ConnInv, CallInv, DataExact, cpc # "none", Done(conn), Returns(conn)
  PROVE  CallInv'
<1>1. /\ conn \in Conns /\ UNCHANGED clientVars /\ UNCHANGED kind /\ down' = down /\ req' = req
      /\ spc[conn] = "work" /\ at[conn] \in Nat /\ cursor \in Nat
  BY DEF TypeOK, Done, wireVars
<1>2. Worked
  BY <1>1 DEF CallInv, Exchange, Asked, Worked, Halved, Answered, Rested, Resting
<1>3. /\ ~req'[conn] /\ down'[conn] = <<>> /\ InFlight(down'[conn]) /\ Waiting /\ (cpc = "await" <=> Reader(conn))
      /\ Reader(conn) => Gap(at[conn])
  BY <1>1, <1>2, NothingInFlight DEF Worked
<1>4. spc'[conn] \in {"wake", "line"}
  <2>1. PICK m : Answers(conn, m, IF Monitored(conn) THEN "wake" ELSE "line")
    BY <1>1, ReturnsAnswers, ZenonT(30)
  <2> QED
    BY <1>1, <2>1, AnswersAlone
<1>a. /\ conn' = conn /\ cpc' = cpc /\ cursor' = cursor /\ lost' = lost /\ data' = data
      /\ Reader(conn)' = Reader(conn) /\ Single(conn)' = Single(conn)
  BY <1>1, ZenonT(30) DEF clientVars, Reader, Single
<1>5. ReplyFits'
  <2>1. CASE ReadsBytes(conn)
    <3>1. PICK n \in 1..Lesser(MaxChunk, written - at[conn]) :
             /\ Reader(conn) /\ at' = [at EXCEPT ![conn] = @ + n]
             /\ Answers(conn, Msg("line", n, at[conn] + n, FALSE), "wake")
      BY <2>1, ZenonT(30) DEF ReadsBytes
    <3>a. reply'[conn] = Msg("line", n, at[conn] + n, FALSE)
      BY <1>1, <3>1, AnswersAlone, ZenonT(30)
    <3>2. at'[conn] = at[conn] + n /\ n \in Nat
      BY <1>1, <3>1 DEF TypeOK
    <3>3. reply'[conn].is = "line" /\ reply'[conn].n = n /\ reply'[conn].to = at[conn] + n
      BY <3>a DEF Msg
    <3>4. cpc = "await" /\ Gap(at[conn])
      BY <1>3, <3>1
    <3>5. n <= at[conn] + n /\ (at[conn] + n) - n = at[conn]
      BY <1>1, <3>2
    <3>6. reply'[conn].n <= reply'[conn].to /\ reply'[conn].to - reply'[conn].n = at[conn] /\ "await" # "opening"
      BY <3>3, <3>5
    <3> QED
      BY <1>a, <3>1, <3>2, <3>3, <3>4, <3>6, ZenonT(30) DEF ReplyFits, Fits, LineAt, Continues, Gap
  <2>2. CASE ReadsEnd(conn)
    <3>1. reply'[conn] = Msg("line", 0, at[conn], TRUE) /\ at' = at /\ Reader(conn)
      BY <1>1, <2>2, AnswersAlone, ZenonT(30) DEF ReadsEnd
    <3>2. reply'[conn].is = "line" /\ reply'[conn].n = 0 /\ reply'[conn].to = at[conn]
      BY <3>1 DEF Msg
    <3>3. at'[conn] = at[conn] /\ 0 <= at[conn] /\ at[conn] - 0 = at[conn]
      BY <1>1, <3>1
    <3>4. cpc = "await" /\ Gap(at[conn])
      BY <1>3, <3>1
    <3> QED
      BY <1>a, <3>1, <3>2, <3>3, <3>4 DEF ReplyFits, Fits, LineAt, Continues, Gap
  <2>3. CASE Captures(conn)
    <3>1. reply'[conn] = Msg("line", 0, written, FALSE) /\ at'[conn] = 0 /\ kind[conn] = "blob"
      BY <1>1, <2>3, AnswersAlone, ZenonT(30) DEF Captures, TypeOK
    <3>2. reply'[conn].is = "line" /\ reply'[conn].n = 0
      BY <3>1 DEF Msg
    <3>3. cpc = "opening" /\ data = <<>> /\ ~Reader(conn)
      BY <1>3, <3>1 DEF Waiting, Reader, DataExact
    <3>4. at'[conn] = Len(data)
      BY <3>1, <3>3
    <3> QED
      BY <1>a, <3>2, <3>3, <3>4, ZenonT(30) DEF ReplyFits, Fits, LineAt, Continues
  <2>4. CASE Waited(conn) \/ Wrote(conn)
    <3>1. reply'[conn] = Blank /\ kind[conn] \in {"wait", "input"}
      BY <1>1, <2>4, AnswersAlone, ZenonT(30) DEF Waited, Wrote
    <3>2. reply'[conn].is = "line" /\ reply'[conn].n = 0
      BY <3>1 DEF Blank, Msg
    <3>3. cpc = "opening" /\ Single(conn) /\ ~Reader(conn)
      BY <1>3, <3>1 DEF Waiting, Reader, Single
    <3> QED
      BY <1>a, <3>2, <3>3, ZenonT(30) DEF ReplyFits, Fits, LineAt
  <2>5. CASE Fault(conn)
    <3> DEFINE b == kind[conn] = "blob"
    <3>0. PICK n \in Nat : Errs(conn, n) /\ (n = 0 \/ (Reader(conn) /\ "partial" \in Faults))
      BY <2>5, ZenonT(30) DEF Fault
    <3>1. reply'[conn] = Error(b) /\ at'[conn] = at[conn] + n /\ b \in BOOLEAN
      <4>1. reply'[conn] = Error(b)
        BY <1>1, <3>0, AnswersAlone, ZenonT(30) DEF Errs
      <4>2. at'[conn] = at[conn] + n
        BY <1>1, <3>0 DEF TypeOK, Errs
      <4> QED
        BY <4>1, <4>2
    <3> HIDE DEF b
    <3>2. reply'[conn].is = "error" /\ reply'[conn].n = 0 /\ reply'[conn].last = b
      BY <3>1 DEF Error, Msg
    <3>3. kind[conn] \in {"output", "blob", "wait", "input"}
      BY <1>1 DEF TypeOK
    <3>4. CASE b
      BY <3>2, <3>4, <1>a, ZenonT(30) DEF ReplyFits
    <3>5. CASE Single(conn)
      BY <3>2, <3>5, <1>a, ZenonT(30) DEF ReplyFits, ErrorAt
    <3>6. CASE Reader(conn)
      <4>1. cpc = "await" /\ cursor <= at[conn] /\ Gap(at[conn])
        BY <1>3, <3>6 DEF Gap
      <4>2. cursor <= at[conn] + n /\ (n = 0 => at[conn] + n = at[conn])
        BY <1>1, <3>0, <4>1
      <4>3. Beyond(at[conn])'
        BY <1>a, <3>0, <3>1, <4>1, <4>2 DEF Beyond, Gap
      <4> QED
        BY <1>a, <3>2, <3>6, <4>1, <4>3, ZenonT(30) DEF ReplyFits, ErrorAt
    <3> QED
      BY <3>3, <3>4, <3>5, <3>6 DEF b, Reader, Single
  <2> QED
    BY <2>1, <2>2, <2>3, <2>4, <2>5 DEF Returns
<1>6. Worked'
  BY <1>1, <1>3, <1>4, <1>5 DEF clientVars, Worked, Waiting
<1> QED
  BY <1>1, <1>3, <1>6, CallNext

\* A sequence of one or two messages.
LEMMA OneMessage ==
  ASSUME NEW d, d = <<>>, NEW m \in Message
  PROVE  Append(d, m) = <<m>> /\ Len(<<m>>) = 1 /\ <<m>>[1] = m /\ <<m>> # <<>> /\ Quiet(<<m>>, 2)
BY DEF Quiet

\* A message sent after another is the second of two.
LEMMA TwoMessages ==
  \A a \in Message, m \in Message, d \in Seq(Message) : d = <<a>> =>
    /\ Len(Append(d, m)) = 2 /\ Append(d, m)[1] = a /\ Append(d, m)[2] = m
    /\ Quiet(Append(d, m), 3)
<1> SUFFICES ASSUME NEW a \in Message, NEW m \in Message, NEW d \in Seq(Message), d = <<a>>
             PROVE  /\ Len(Append(d, m)) = 2 /\ Append(d, m)[1] = a /\ Append(d, m)[2] = m
                    /\ Quiet(Append(d, m), 3)
  BY ZenonT(30)
<1>1. Len(d) = 1 /\ d[1] = a
  OBVIOUS
<1>2. Len(Append(d, m)) = 2 /\ Append(d, m)[1] = a /\ Append(d, m)[2] = m
  BY <1>1, AppendProperties
<1> QED
  BY <1>2 DEF Quiet

\* Sending the line of a response keeps the invariant of the call.
LEMMA CallLine ==
  ASSUME TypeOK, CallInv, cpc # "none", SendLine(conn)
  PROVE  CallInv'
<1>1. /\ conn \in Conns /\ UNCHANGED clientVars /\ UNCHANGED kind /\ req' = req /\ spc[conn] = "line"
      /\ reply[conn] \in Message
  BY DEF TypeOK, SendLine
<1>2. Worked /\ ReplyFits
  BY <1>1 DEF CallInv, Exchange, Asked, Worked, Halved, Answered, Rested, Resting
<1>3. ~req'[conn] /\ down[conn] = <<>> /\ Waiting
  BY <1>1, <1>2 DEF Worked
<1>4. CASE Leaves(conn) /\ UNCHANGED down
  <2>1. spc'[conn] = "left" /\ InFlight(down'[conn])
    BY <1>1, <1>3, <1>4, LeavesAlone, NothingInFlight
  <2> QED
    BY <1>1, <2>1, CallLeft
<1>5. CASE /\ Sends(conn, reply[conn])
            /\ IF reply[conn].n > 0 THEN Steps(conn, "payload") /\ UNCHANGED localVars ELSE Rests(conn)
  <2> DEFINE r == reply[conn]
  <2>1. down'[conn] = <<r>>
    BY <1>1, <1>3, <1>5, OneMessage DEF Sends, TypeOK
  <2>2. (r.is = "line" /\ Fits(r)) \/ (r.is = "error" /\ r.n = 0)
    BY <1>2 DEF ReplyFits
  <2>3. Len(<<r>>) = 1 /\ <<r>>[1] = r /\ <<r>> # <<>> /\ Quiet(<<r>>, 2)
    BY <1>1, <1>3, OneMessage
  <2>q. r.is = "error" => Quiet(<<r>>, 1)
    BY <2>3 DEF Quiet
  <2>4. InFlight(down'[conn])
    BY <1>3, <2>1, <2>2, <2>3, <2>q DEF InFlight, LineOnly
  <2>5. CASE r.n > 0
    <3>1. spc'[conn] = "payload" /\ reply'[conn] = r /\ at'[conn] = at[conn]
      BY <1>1, <1>5, <2>5, StepsAlone DEF localVars
    <3>2. r.is = "line" /\ cpc = "await" /\ ~Single(conn) /\ at[conn] = r.to
      <4>1. r.is = "line" /\ LineAt(r)
        BY <1>2, <2>5 DEF ReplyFits
      <4>2. cpc = "await"
        BY <1>3, <2>2, <2>5, <4>1 DEF Fits, Waiting
      <4>3. ~Single(conn)
        BY <4>2, ZenonT(30) DEF CallInv
      <4> QED
        BY <4>1, <4>2, <4>3, ZenonT(30) DEF LineAt
    <3>3. Halved'
      BY <1>1, <1>3, <2>1, <2>5, <3>1, <3>2 DEF Halved, clientVars, Single
    <3> QED
      BY <1>1, <2>4, <3>3, CallNext
  <2>6. CASE ~(r.n > 0)
    <3>0. Rests(conn) /\ r.n = 0
      BY <1>1, <1>5, <2>6 DEF Message
    <3>1. CASE r.last
      BY <1>1, <2>4, <3>0, <3>1, LeavesAlone, CallLeft DEF Rests
    <3>2. CASE ~r.last
      <4>1. spc'[conn] = Rested /\ at'[conn] = at[conn]
        BY <1>1, <3>0, <3>2, StepsAlone DEF Rests, localVars, Rested
      <4>2. (r.is = "line" /\ LineAt(r)) \/ (r.is = "error" /\ ErrorAt)
        BY <1>2, <3>2, ZenonT(30) DEF ReplyFits
      <4> HIDE DEF r
      <4>3. /\ UNCHANGED <<conn, cpc>> /\ (ErrorAt => ErrorAt') /\ Rested' = Rested /\ Waiting'
            /\ LineAt(r) => IF Single(conn)' THEN TRUE
                            ELSE IF cpc = "opening" THEN Continues(at[conn])' ELSE at'[conn] = r.to
        BY <1>1, <1>3, <4>1, ZenonT(30) DEF clientVars, ErrorAt, LineAt, Beyond, Continues, Gap, Reader, Single, Rested, Waiting
      <4>5. down'[conn] = <<r>> /\ Len(down'[conn]) = 1 /\ down'[conn][1] = r
        BY <2>1, <2>3
      <4>4. Answered'
        BY <1>3, <3>0, <4>1, <4>2, <4>3, <4>5, ZenonT(30) DEF Answered, LineAt
      <4> QED
        BY <1>1, <2>4, <4>4, CallNext
    <3> QED
      BY <3>1, <3>2
  <2> QED
    BY <2>5, <2>6
<1> QED
  BY <1>4, <1>5 DEF SendLine

\* So does sending its payload.
LEMMA CallPayload ==
  ASSUME TypeOK, CallInv, cpc # "none", SendPayload(conn)
  PROVE  CallInv'
<1>1. /\ conn \in Conns /\ UNCHANGED clientVars /\ UNCHANGED kind /\ req' = req /\ spc[conn] = "payload"
      /\ reply[conn] \in Message
  BY DEF TypeOK, SendPayload
<1>2. Halved
  BY <1>1 DEF CallInv, Exchange, Asked, Worked, Halved, Answered, Rested, Resting
<1>3. CASE Leaves(conn) /\ UNCHANGED down
  <2>1. spc'[conn] = "left" /\ InFlight(down'[conn])
    BY <1>1, <1>3, LeavesAlone DEF CallInv
  <2> QED
    BY <1>1, <2>1, CallLeft
<1>4. CASE Sends(conn, Msg("payload", reply[conn].n, reply[conn].to, FALSE)) /\ Rests(conn)
  <2> DEFINE r == reply[conn]
             p == Msg("payload", r.n, r.to, FALSE)
  <2>1. p \in Message /\ p.is = "payload" /\ p.n = r.n /\ p.to = r.to
    <3>1. r.n \in Nat /\ r.to \in Nat
      BY <1>1 DEF Message
    <3> QED
      BY <3>1 DEF Msg, Message
  <2>2. down'[conn] = Append(down[conn], p)
    BY <1>1, <1>4, ZenonT(30) DEF Sends, TypeOK
  <2> HIDE DEF p
  <2>3. /\ InFlight(down'[conn])
        /\ \/ /\ cpc = "await" /\ Len(down'[conn]) = 2 /\ down'[conn][1] = r /\ down'[conn][2] = p
           \/ /\ cpc = "payload" /\ head = r /\ Len(down'[conn]) = 1 /\ down'[conn][1] = p
    <3>1. CASE cpc = "await" /\ down[conn] = <<r>>
      <4>1. Len(down'[conn]) = 2 /\ down'[conn][1] = r /\ down'[conn][2] = p /\ Quiet(down'[conn], 3)
        <5> DEFINE d == down[conn]
                   t == down'[conn]
        <5>1. d = <<r>> /\ t = Append(d, p) /\ r \in Message /\ p \in Message /\ d \in Seq(Message)
          BY <1>1, <2>1, <2>2, <3>1 DEF TypeOK
        <5> HIDE DEF d, t, r
        <5>2. Len(t) = 2 /\ t[1] = r /\ t[2] = p /\ Quiet(t, 3)
          BY <5>1, TwoMessages
        <5> QED
          BY <5>2 DEF t
      <4>2. Fits(r)
        <5>1. <<r>>[1] = r /\ Len(<<r>>) = 1
          OBVIOUS
        <5>2. ~Quiet(<<r>>, 1)
          BY <1>2, <5>1 DEF Halved, Quiet
        <5>3. InFlight(<<r>>)
          BY <3>1, ZenonT(30) DEF CallInv
        <5>4. ~LinePayload(<<r>>) /\ ~PayloadOnly(<<r>>)
          BY <3>1, <5>1 DEF LinePayload, PayloadOnly
        <5>5. LineOnly(<<r>>)
          BY <5>2, <5>3, <5>4, ZenonT(30) DEF InFlight
        <5> QED
          BY <5>1, <5>5 DEF LineOnly
      <4>3. LinePayload(down'[conn])
        <5>1. Len(down'[conn]) > 1
          BY <4>1
        <5> QED
          BY <1>2, <2>1, <3>1, <4>1, <4>2, <5>1, ZenonT(30) DEF LinePayload, Pairs, Halved
      <4> QED
        BY <3>1, <4>1, <4>3 DEF InFlight
    <3>2. CASE cpc = "payload" /\ down[conn] = <<>> /\ head = r
      <4>1. down'[conn] = <<p>> /\ Len(<<p>>) = 1 /\ <<p>>[1] = p /\ <<p>> # <<>> /\ Quiet(<<p>>, 2)
        BY <2>1, <2>2, <3>2, OneMessage
      <4>2. PayloadOnly(<<p>>)
        BY <2>1, <3>2, <4>1 DEF PayloadOnly, Pairs
      <4> QED
        BY <3>2, <4>1, <4>2 DEF InFlight
    <3> QED
      BY <1>2, <3>1, <3>2 DEF Halved
  <2>4. CASE r.last
    BY <1>1, <1>4, <2>3, <2>4, LeavesAlone, CallLeft DEF Rests
  <2>5. CASE ~r.last
    <3>1. spc'[conn] = Rested /\ at'[conn] = at[conn]
      BY <1>1, <1>4, <2>5, StepsAlone DEF Rests, localVars, Rested
    <3>2. ~req[conn] /\ ~Single(conn) /\ r.is = "line" /\ r.n > 0 /\ at[conn] = r.to
      BY <1>2 DEF Halved
    <3> HIDE DEF r
    <3>3. Answered'
      BY <1>1, <2>1, <2>3, <3>1, <3>2 DEF clientVars, Answered, Rested, Waiting, Single
    <3> QED
      BY <1>1, <2>3, <3>3, CallNext
  <2> QED
    BY <2>4, <2>5
<1> QED
  BY <1>3, <1>4, ZenonT(30) DEF SendPayload

\* So does every step of a handler, of this connection or of another.
LEMMA CallServer ==
  ASSUME TypeOK, ConnInv, CallInv, DataExact, NEW c \in Conns, Serves(c)
  PROVE  CallInv'
<1>1. Own(c) /\ UNCHANGED clientVars /\ UNCHANGED kind
  BY HandlerOwn DEF Own
<1>2. CASE cpc = "none"
  BY <1>1, <1>2 DEF clientVars, CallInv
<1>3. CASE c # conn
  <2>1. Same(conn)
    BY <1>1, <1>3 DEF Own, TypeOK
  <2> QED
    BY <1>1, <2>1, CallSame DEF Same
<1>4. CASE c = conn /\ cpc # "none"
  <2>0. conn \in Conns
    BY <1>4
  <2>1. CASE Accept(conn)
    <3>1. CASE Leaves(conn)
      BY <1>1, <1>4, <2>0, <2>1, <3>1, LeavesAlone, CallLeft DEF Accept, wireVars, CallInv
    <3>2. CASE Steps(conn, "first") /\ UNCHANGED localVars
      <4>1. spc'[conn] = "first" /\ at' = at /\ down' = down /\ req' = req
        BY <2>0, <2>1, <3>2, StepsAlone, ZenonT(30) DEF Accept, wireVars, localVars
      <4>2. Asked
        BY <1>4, <2>1, ZenonT(30) DEF Accept, CallInv, Exchange, Asked, Worked, Halved, Answered, Rested, Resting
      <4>3. spc[conn] = "dialled"
        BY <2>1 DEF Accept
      <4>4. Asked'
        BY <1>1, <4>1, <4>2, <4>3, ZenonT(30) DEF clientVars, Asked, Reader
      <4> QED
        BY <1>1, <1>4, <4>1, <4>4, CallNext, ZenonT(30) DEF CallInv
    <3> QED
      BY <2>1, <3>1, <3>2 DEF Accept
  <2>2. CASE HangUp(conn)
    BY <1>1, <1>4, <2>0, <2>2, LeavesAlone, CallLeft DEF HangUp, wireVars, CallInv
  <2>3. CASE Idle(conn)
    <3>1. spc'[conn] = "left"
      BY <2>0, <2>3, LeavesAlone, ZenonT(30) DEF Idle
    <3>2. Broken \in Message /\ Broken.is = "broken"
      BY Constants DEF Broken, Msg
    <3>3. down'[conn] = Append(down[conn], Broken) /\ down[conn] \in Seq(Message)
      BY <2>0, <2>3 DEF Idle, Sends, TypeOK
    <3>4. InFlight(down'[conn])
      BY <1>4, <3>2, <3>3, InFlightAppend DEF CallInv
    <3> QED
      BY <1>1, <1>4, <3>1, <3>4, CallLeft
  <2>4. CASE Wake(conn) \/ Join(conn)
    <3>1. /\ spc[conn] \in {"wake", "join"} /\ spc'[conn] \in {"join", "line"}
          /\ at' = at /\ reply' = reply /\ down' = down /\ req' = req
      BY <2>0, <2>4 DEF Wake, Join, Steps, TypeOK, wireVars
    <3>2. Worked
      BY <1>4, <3>1, ZenonT(30) DEF CallInv, Exchange, Asked, Worked, Halved, Answered, Rested, Resting
    <3>3. Worked'
      BY <1>1, <3>1, <3>2, ZenonT(30) DEF clientVars, Worked, Waiting, ReplyFits, Fits, LineAt, ErrorAt, Beyond, Continues, Gap,
             Reader, Single
    <3> QED
      BY <1>1, <1>4, <3>1, <3>3, CallNext, ZenonT(30) DEF CallInv
  <2>5. CASE Work(conn) \/ Refuse(conn) \/ Drain(conn)
    BY <1>4, <2>0, <2>5, OperationEnds, CallWork
  <2> QED
    BY <1>4, <2>1, <2>2, <2>3, <2>4, <2>5, CallTakes, CallLine, CallPayload DEF Serves, Handler
<1> QED
  BY <1>2, <1>3, <1>4

\* So do monitors, the session, the end of the process, dialling, asking and closing.
LEMMA CallRest ==
  ASSUME TypeOK, ConnInv, CallInv, (\E c \in Conns : Monitor(c)) \/ Write \/ End \/ Exit \/ Dial \/ Read \/ Close
  PROVE  CallInv'
<1>1. CASE (\E c \in Conns : Monitor(c)) \/ Write \/ End
  <2>1. UNCHANGED <<spc, at, reply, wireVars, clientVars>>
    BY <1>1, ZenonT(30) DEF Monitor, Check, Clear, Recheck, Watched, Watch, Write, End, serverVars
  <2> QED
    BY <2>1, CallSame, ZenonT(30) DEF wireVars
<1>2. CASE Exit
  <2>1. UNCHANGED clientVars /\ UNCHANGED kind /\ down' = down
    BY <1>2 DEF Exit, wireVars
  <2>2. CASE cpc = "none"
    BY <2>1, <2>2 DEF clientVars, CallInv
  <2>3. CASE cpc # "none"
    <3>1. spc'[conn] = "left"
      BY <1>2, <2>3 DEF Exit, ConnInv, InUse, TypeOK
    <3> QED
      BY <2>1, <2>3, <3>1, CallLeft DEF CallInv
  <2> QED
    BY <2>2, <2>3
<1>3. CASE Dial
  <2>1. PICK c \in Conns :
           /\ Unused(c) /\ conn' = c /\ cpc' = "opening" /\ spc' = [spc EXCEPT ![c] = "dialled"]
           /\ req' = [req EXCEPT ![c] = TRUE] /\ at' = [at EXCEPT ![c] = cursor]
           /\ kind'[c] \in {"output", "blob", "wait", "input"} /\ \A d \in Conns \ {c} : kind'[d] = kind[d]
    BY <1>3, Dialled
  <2>2. down' = down /\ cursor' = cursor /\ down[c] = <<>>
    BY <1>3, <2>1, ZenonT(30) DEF Dial, ConnInv, Handled, Unopened
  <2>3. spc'[c] = "dialled" /\ req'[c] = TRUE /\ at'[c] = cursor
    BY <2>1 DEF TypeOK
  <2>4. Asked'
    BY <2>1, <2>2, <2>3 DEF Asked
  <2>5. Quiet(down[conn], 1)'
    BY <2>1, <2>2, QuietEmpty
  <2> QED
    BY <2>1, <2>4, <2>5 DEF CallInv, InFlight, Exchange
<1>4. CASE Read
  <2>1. /\ cpc = "open" /\ cpc' = "await" /\ conn' = conn /\ conn \in Conns /\ req'[conn] = TRUE
        /\ UNCHANGED <<kind, down, cursor, lost, data, head, spc, at>> /\ ~sgone[conn]
    BY <1>4 DEF Read, Asks, Goes, TypeOK, serverVars
  <2>2. spc[conn] # "left"
    BY <2>1, ZenonT(30) DEF ConnInv, Handled, Gone
  <2>3. Resting /\ Reader(conn)
    BY <2>1, <2>2, ZenonT(30) DEF CallInv, Exchange, Asked, Worked, Halved, Answered, Resting, Waiting
  <2>6. ~Single(conn)' /\ Reader(conn)'
    BY <2>1, <2>3 DEF Single, Reader
  <2>4. Asked'
    BY <2>1, <2>3, <2>6, ZenonT(30) DEF Asked, Resting, Reader, Continues, Gap
  <2>5. Quiet(down[conn], 1)'
    BY <2>1, <2>3, QuietEmpty, ZenonT(30) DEF Resting
  <2> QED
    BY <2>1, <2>4, <2>5, <2>6 DEF CallInv, InFlight, Exchange
<1>5. CASE Close
  BY <1>5, ZenonT(30) DEF Close, HangsUp, Goes, CallInv
<1> QED
  BY <1>1, <1>2, <1>3, <1>4, <1>5
=============================================================================
