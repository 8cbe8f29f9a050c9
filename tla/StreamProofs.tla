----------------------------- MODULE StreamProofs -----------------------------
(***************************************************************************)
(* Proofs about Stream: a remote reader gets bytes once and in order and   *)
(* misses only those a failed read consumed, a blob is whole, and waking a *)
(* monitor cancels nothing, for any number of connections, any chunk size, *)
(* any slots and any faults.                                               *)
(***************************************************************************)
EXTENDS StreamCallProofs

-----------------------------------------------------------------------------
\* The client's steps.

\* What follows the message that has arrived.
LEMMA AfterHead ==
  ASSUME TypeOK, CallInv, cpc # "none", NEW is, Arrived(is)
  PROVE  LET d == down[conn]
             m == Head(d)
         IN  /\ d \in Seq(Message) /\ m = d[1] /\ m \in Message /\ Len(Tail(d)) = Len(d) - 1 /\ Len(d) \in Nat
             /\ Len(d) = 1 => Tail(d) = <<>>
             /\ Len(d) > 1 => Tail(d) # <<>> /\ Tail(d)[1] = d[2]
             /\ m.is = "line" => /\ Waiting /\ Fits(m)
                                 /\ \/ Quiet(Tail(d), 1)
                                    \/ /\ cpc = "await" /\ m.n > 0 /\ Tail(d) # <<>>
                                       /\ Pairs(Tail(d)[1], m) /\ Quiet(Tail(d), 2)
             /\ m.is = "payload" => cpc = "payload" /\ Pairs(m, head) /\ Quiet(Tail(d), 1)
             /\ m.is \notin {"line", "payload"} => Quiet(Tail(d), 1)
<1> DEFINE d == down[conn]
           m == Head(d)
           t == Tail(d)
<1>1. d \in Seq(Message) /\ Len(d) \in Nat \ {0} /\ m \in Message /\ m = d[1] /\ t \in Seq(Message)
  BY ArrivedType
<1>2. Len(t) = Len(d) - 1 /\ \A i \in 1..Len(t) : t[i] = d[i + 1]
  BY <1>1, HeadTailProperties, EmptySeq
<1>3. Quiet(d, 2) => Quiet(t, 1)
  BY <1>1, QuietTail, EmptySeq
<1>4. Quiet(d, 3) => Quiet(t, 2)
  BY <1>1, QuietTail, EmptySeq
<1>7. InFlight(d)
  BY DEF CallInv
<1> HIDE DEF d, m, t
<1>5. ASSUME Len(d) > 1 PROVE t # <<>> /\ t[1] = d[2]
  <2>1. Len(t) > 0 /\ 1 \in 1..Len(t)
    BY <1>1, <1>2, <1>5
  <2> QED
    BY <1>2, <2>1
<1>6. ASSUME Len(d) = 1 PROVE t = <<>>
  <2>1. Len(t) = 0
    BY <1>2, <1>6
  <2> QED
    BY <1>1, <2>1, EmptySeq
<1>8. Quiet(d, 1) => Quiet(d, 2) /\ m.is \notin {"line", "payload"}
  BY <1>1 DEF Quiet
<1>9. m.is = "line" => /\ Waiting /\ Fits(m)
                       /\ \/ Quiet(t, 1)
                          \/ /\ cpc = "await" /\ m.n > 0 /\ t # <<>> /\ Pairs(t[1], m) /\ Quiet(t, 2)
  BY <1>1, <1>3, <1>4, <1>5, <1>7, <1>8 DEF InFlight, LineOnly, LinePayload, PayloadOnly, Pairs, Waiting
<1>10. m.is = "payload" => cpc = "payload" /\ Pairs(m, head) /\ Quiet(t, 1)
  BY <1>1, <1>3, <1>7, <1>8 DEF InFlight, LineOnly, LinePayload, PayloadOnly
<1>11. m.is \notin {"line", "payload"} => Quiet(t, 1)
  BY <1>1, <1>3, <1>7, <1>8 DEF InFlight, LineOnly, LinePayload, PayloadOnly, Pairs
<1> QED
  BY <1>1, <1>2, <1>5, <1>6, <1>9, <1>10, <1>11 DEF d, m, t

\* Where the exchange is when something has arrived.
LEMMA Arriving ==
  ASSUME TypeOK, CallInv, cpc # "none", NEW is, Arrived(is)
  PROVE  spc[conn] = "left" \/ Halved \/ Answered
BY DEF Arrived, CallInv, Exchange, Asked, Worked, Resting

\* What was delivered stays so when the cursor passes bytes that are lost.
LEMMA OnceKept ==
  ASSUME TypeOK, DeliveredOnce, got' = got, cursor' \in Nat, Gap(cursor'), lost \subseteq lost'
  PROVE  DeliveredOnce'
<1>1. cursor \in Nat /\ cursor <= cursor' /\ Len(got) \in Nat /\ Len(got)' = Len(got)
  BY LenProperties DEF TypeOK, Gap
<1>2. \A i \in 1..Len(got) : got[i] \in 1..cursor'
  BY <1>1 DEF DeliveredOnce
<1>3. ASSUME NEW b \in 1..cursor' PROVE b \in lost \/ \E i \in 1..Len(got) : got[i] = b
  <2>1. CASE b <= cursor
    <3>1. b \in 1..cursor
      BY <1>1, <2>1
    <3> QED
      BY <3>1, ZenonT(30) DEF DeliveredOnce
  <2>2. CASE b > cursor
    <3>1. b \in cursor + 1..cursor'
      BY <1>1, <2>2
    <3> QED
      BY <3>1 DEF Gap
  <2> QED
    BY <1>1, <2>1, <2>2
<1> QED
  BY <1>2, <1>3, ZenonT(30) DEF DeliveredOnce

\* It stays so when nothing of it changes.
LEMMA OnceSame ==
  ASSUME TypeOK, DeliveredOnce, UNCHANGED <<got, cursor, lost>>
  PROVE  DeliveredOnce'
BY ZenonT(30) DEF DeliveredOnce

\* The answer to an open keeps the client's place: it is where the reader asked to be.
LEMMA CallOpened ==
  ASSUME TypeOK, CallInv, DataExact, DeliveredOnce, Opened
  PROVE  CallInv' /\ DataExact' /\ DeliveredOnce'
<1> DEFINE d == down[conn]
           m == Head(d)
<1>1. /\ cpc = "opening" /\ Arrived({"line"}) /\ UNCHANGED <<kind, got, lost, spc, at>> /\ conn \in Conns
      /\ down'[conn] = Tail(d) /\ conn' = conn
  BY DEF Opened, Consumes, TypeOK, serverVars, HangsUp, Goes
<1>2. m.is = "line" /\ cpc # "none"
  BY <1>1 DEF Arrived
<1>3. m = d[1] /\ (Len(d) = 1 => Tail(d) = <<>>) /\ Quiet(Tail(d), 1) /\ Fits(m)
  BY <1>1, <1>2, AfterHead
<1>4. \/ spc[conn] = "left"
      \/ ~req[conn] /\ spc[conn] = Rested /\ Len(d) = 1 /\ (~Single(conn) => Continues(at[conn]))
  <2>1. spc[conn] = "left" \/ Answered
    BY <1>1, <1>2, Arriving DEF Halved
  <2> QED
    BY <1>1, <1>2, <1>3, <2>1 DEF Answered, LineAt
<1> HIDE DEF d, m
<1>5. data = <<>>
  BY <1>1 DEF DataExact
<1>6. CASE HangsUp /\ UNCHANGED <<req, cursor>>
  <2>1. cpc' = "none" /\ data' = <<>>
    BY <1>6 DEF HangsUp, Goes
  <2>2. Len(<<>>) = 0 /\ <<>> = [i \in 1..0 |-> i]
    OBVIOUS
  <2> QED
    BY <1>1, <1>6, <2>1, <2>2, OnceSame DEF CallInv, DataExact
<1>7. CASE Reader(conn) /\ cursor' = m.to /\ Goes("open") /\ UNCHANGED <<req, cgone, callVars>>
  <2>1. cursor' = cursor /\ cpc' = "open" /\ data' = data /\ req' = req /\ kind[conn] = "output"
    BY <1>1, <1>3, <1>7 DEF Fits, Goes, callVars, Reader
  <2>a. ~Single(conn) /\ ~Single(conn)' /\ Reader(conn)'
    BY <1>1, <2>1 DEF Single, Reader
  <2>2. spc[conn] = "left" \/ Resting'
    BY <1>1, <1>3, <1>4, <1>7, <2>1, <2>a DEF Resting, Rested, Continues, Gap
  <2>3. CallInv'
    BY <1>1, <1>3, <2>1, <2>2, <2>a, ZenonT(30) DEF CallInv, InFlight, Exchange
  <2> QED
    BY <1>1, <2>1, <2>3, OnceSame DEF DataExact
<1>8. CASE kind[conn] = "blob" /\ Asks /\ Goes("await") /\ UNCHANGED <<cgone, cursor, head, data>>
  <2>1. cursor' = cursor /\ cpc' = "await" /\ data' = data /\ req'[conn] = TRUE
    BY <1>1, <1>8 DEF Goes, Asks, TypeOK
  <2>a. ~Single(conn) /\ ~Single(conn)' /\ ~Reader(conn) /\ ~Reader(conn)'
    BY <1>1, <1>8 DEF Single, Reader
  <2>2. spc[conn] = "left" \/ Asked'
    BY <1>1, <1>3, <1>4, <2>1, <2>a, ZenonT(30) DEF Asked, Rested, Continues
  <2>3. CallInv'
    BY <1>1, <1>3, <2>1, <2>2, <2>a, ZenonT(30) DEF CallInv, InFlight, Exchange
  <2> QED
    BY <1>1, <2>1, <2>3, OnceSame DEF DataExact
<1> QED
  BY <1>6, <1>7, <1>8 DEF Opened, d, m

\* The line of a read or a chunk that announces a payload.
LEMMA CallToPayload ==
  ASSUME TypeOK, CallInv, cpc = "await", ~Single(conn), Arrived({"line"}), Consumes,
         Head(down[conn]).n > 0, head' = Head(down[conn]), cpc' = "payload",
         UNCHANGED <<conn, cursor, lost, data, req, kind, spc, at, reply>>
  PROVE  CallInv'
<1> DEFINE d == down[conn]
           m == Head(d)
<1>1. m.is = "line" /\ cpc # "none" /\ conn \in Conns /\ down'[conn] = Tail(d)
  BY DEF Arrived, Consumes, TypeOK
<1>2. /\ m = d[1] /\ (Len(d) = 1 => Tail(d) = <<>>) /\ Fits(m)
      /\ Len(d) > 1 => Tail(d) # <<>> /\ Tail(d)[1] = d[2]
      /\ Len(Tail(d)) = Len(d) - 1 /\ Len(d) \in Nat
      /\ \/ Quiet(Tail(d), 1)
         \/ Tail(d) # <<>> /\ Pairs(Tail(d)[1], m) /\ Quiet(Tail(d), 2)
  BY <1>1, AfterHead
<1>3. m.n <= m.to /\ Continues(m.to - m.n)
  BY <1>2 DEF Fits
<1>a. Single(conn)' = Single(conn) /\ ~Single(conn)'
  BY DEF Single
<1>4. spc[conn] = "left" \/ Halved \/ Answered
  BY <1>1, Arriving
<1> DEFINE t == Tail(d)
<1>5. head' = m /\ m.n > 0
  OBVIOUS
<1>6. CASE Halved
  <2>1. d = <<reply[conn]>> /\ Len(<<reply[conn]>>) = 1 /\ <<reply[conn]>>[1] = reply[conn]
    BY <1>6 DEF Halved
  <2>2. t = <<>> /\ m = reply[conn]
    BY <1>2, <2>1
  <2> HIDE DEF d, m, t
  <2>3. Halved'
    BY <1>1, <1>5, <1>6, <1>a, <2>2 DEF Halved, t
  <2>4. Quiet(down[conn], 1)'
    BY <1>1, <2>2, QuietEmpty, ZenonT(30) DEF t
  <2>5. (head.n <= head.to /\ Continues(head.to - head.n))'
    BY <1>3, <1>5, ZenonT(30) DEF Continues, Gap, Reader
  <2> QED
    BY <1>a, <2>3, <2>4, <2>5 DEF CallInv, InFlight, Exchange
<1>7. CASE Answered
  <2>1. /\ ~req[conn] /\ spc[conn] = Rested /\ Len(d) = 2 /\ d[2].is = "payload" /\ at[conn] = m.to
    <3>1. d[1].is = "line" /\ d[1].n # 0 /\ m.to = d[1].to
      BY <1>1, <1>2, <1>5
    <3> QED
      BY <1>7, <3>1, ZenonT(30) DEF Answered
  <2> HIDE DEF d, m, t
  <2>2. Len(t) = 1 /\ t[1].is = "payload" /\ t # <<>>
    <3>1. Len(t) = Len(d) - 1 /\ t # <<>> /\ t[1] = d[2]
      BY <1>2, <2>1 DEF t
    <3> QED
      BY <2>1, <3>1
  <2>3. Pairs(t[1], m) /\ Quiet(t, 2)
    BY <1>2, <2>2 DEF Quiet, t
  <2>4. Answered'
    BY <1>1, <1>5, <1>a, <2>1, <2>2 DEF Answered, Rested, t
  <2>5. PayloadOnly(down[conn])'
    BY <1>1, <1>5, <2>2, <2>3 DEF PayloadOnly, Pairs, Quiet, t
  <2>6. (head.n <= head.to /\ Continues(head.to - head.n))'
    BY <1>3, <1>5, ZenonT(30) DEF Continues, Gap, Reader
  <2> QED
    BY <1>a, <2>4, <2>5, <2>6 DEF CallInv, InFlight, Exchange
<1>8. CASE spc[conn] = "left"
  <2> HIDE DEF d, m, t
  <2>1. InFlight(down[conn])'
    BY <1>1, <1>2, <1>5 DEF InFlight, PayloadOnly, Pairs, Quiet, t
  <2>6. (head.n <= head.to /\ Continues(head.to - head.n))'
    BY <1>3, <1>5, ZenonT(30) DEF Continues, Gap, Reader
  <2> QED
    BY <1>8, <1>a, <2>1, <2>6 DEF CallInv, Exchange
<1> QED
  BY <1>4, <1>6, <1>7, <1>8

\* The call goes on after a payload, or after the line that says there is none.
LEMMA CallRests ==
  ASSUME TypeOK, CallInv, cpc # "none", NEW is, Arrived(is), Consumes, Reader(conn),
         \/ cpc = "payload" /\ cursor' = head.to /\ cursor' \in Nat
         \/ /\ cpc = "await" /\ Head(down[conn]).is = "line" /\ Head(down[conn]).n = 0
            /\ cursor' = Head(down[conn]).to /\ cursor' \in Nat
         \/ /\ cpc = "await" /\ Head(down[conn]).is # "line" /\ cursor' = cursor
            /\ lost' = lost \cup (cursor + 1..at[conn]),
         cpc' = "open", UNCHANGED <<conn, req, kind, spc, at>>
  PROVE  CallInv'
<1> DEFINE d == down[conn]
           m == Head(d)
           t == Tail(d)
<1>1. /\ conn \in Conns /\ down'[conn] = t /\ kind[conn] = "output"
      /\ Rested = "next" /\ ~Single(conn) /\ ~Single(conn)' /\ Reader(conn)'
  BY DEF Consumes, TypeOK, Reader, Rested, Single
<1>2. /\ m = d[1] /\ (Len(d) = 1 => t = <<>>) /\ Quiet(t, 1)
      /\ m.is = "line" => cpc # "payload"
      /\ m.is = "payload" => cpc = "payload"
  BY AfterHead DEF Waiting
<1>3. \/ spc[conn] = "left"
      \/ ~req[conn] /\ spc[conn] = "next" /\ Len(d) = 1 /\ Gap(at[conn])'
  <2>1. spc[conn] = "left" \/ Halved \/ Answered
    BY Arriving
  <2>2. CASE Halved
    <3>1. cpc = "await" /\ d = <<reply[conn]>> /\ <<reply[conn]>>[1] = reply[conn]
      BY <2>2 DEF Halved, Arrived
    <3>2. m.is = "line" /\ m.n > 0
      BY <1>2, <2>2, <3>1 DEF Halved
    <3> QED
      BY <3>1, <3>2
  <2>3. CASE Answered
    <3>1. /\ ~req[conn] /\ spc[conn] = "next" /\ Len(d) = 1
          /\ \/ at[conn] = cursor' /\ cursor' \in Nat
             \/ cursor <= at[conn] /\ cursor' = cursor /\ lost' = lost \cup (cursor + 1..at[conn])
      <4>1. ~req[conn] /\ spc[conn] = "next"
        BY <1>1, <2>3, ZenonT(30) DEF Answered
      <4>2. CASE Waiting /\ Len(d) = 1 /\ d[1].is = "line" /\ d[1].n = 0 /\ LineAt(d[1])
        BY <1>1, <1>2, <4>1, <4>2 DEF Waiting, LineAt
      <4>3. CASE Waiting /\ Len(d) = 1 /\ d[1].is = "error" /\ ErrorAt
        BY <1>1, <1>2, <4>1, <4>3 DEF Waiting, ErrorAt, Beyond
      <4>4. CASE cpc = "await" /\ d[1].is = "line" /\ d[1].n > 0
        BY <1>2, <4>4
      <4>5. CASE cpc = "payload" /\ Len(d) = 1 /\ at[conn] = head.to
        BY <4>1, <4>5
      <4> QED
        BY <2>3, <4>2, <4>3, <4>4, <4>5, ZenonT(30) DEF Answered
    <3>2. Gap(at[conn])'
      <4>1. CASE at[conn] = cursor' /\ cursor' \in Nat
        <5>1. \A k \in Nat : k <= k /\ k + 1..k = {}
          OBVIOUS
        <5>2. at'[conn'] = cursor'
          BY <4>1, ZenonT(30)
        <5> QED
          BY <4>1, <5>1, <5>2, ZenonT(30) DEF Gap
      <4>2. CASE cursor <= at[conn] /\ cursor' = cursor /\ lost' = lost \cup (cursor + 1..at[conn])
        BY <4>2 DEF Gap
      <4> QED
        BY <3>1, <4>1, <4>2
    <3> QED
      BY <3>1, <3>2
  <2> QED
    BY <2>1, <2>2, <2>3
<1> HIDE DEF d, m, t
<1>4. spc[conn] = "left" \/ Resting'
  BY <1>1, <1>2, <1>3 DEF Resting
<1> QED
  BY <1>1, <1>2, <1>4 DEF CallInv, InFlight, Exchange

\* Nothing is the beginning of the log of length 0.
LEMMA DataEmpty == <<>> \in Seq(Nat) /\ Len(<<>>) = 0 /\ <<>> = [i \in 1..0 |-> i]
OBVIOUS

\* A call that returns leaves nothing to say of it.
LEMMA CallEnds ==
  ASSUME HangsUp
  PROVE  CallInv' /\ DataExact'
<1>1. cpc' = "none" /\ data' = <<>>
  BY DEF HangsUp, Goes
<1> QED
  BY <1>1, DataEmpty DEF CallInv, DataExact

\* The payload that has arrived continues what the client has.
LEMMA PayloadContinues ==
  ASSUME TypeOK, CallInv, cpc = "payload", Arrived({"payload"})
  PROVE  LET m == Head(down[conn])
         IN  /\ m.n \in Nat /\ m.to \in Nat /\ m.n <= m.to /\ head.to = m.to /\ Continues(m.to - m.n)
             /\ Bytes(m) \in Seq(Nat) /\ Len(Bytes(m)) = m.n
             /\ \A i \in 1..Len(Bytes(m)) : Bytes(m)[i] = m.to - m.n + i
<1> DEFINE m == Head(down[conn])
<1>1. m.is = "payload" /\ m \in Message
  BY ArrivedType, ZenonT(30) DEF Arrived
<1>2. Pairs(m, head)
  BY <1>1, AfterHead
<1>3. head.n <= head.to /\ Continues(head.to - head.n)
  BY DEF CallInv
<1>4. m.n <= m.to /\ Continues(m.to - m.n) /\ head.to = m.to
  BY <1>2, <1>3, ZenonT(30) DEF Pairs
<1>5. m.n \in Nat /\ m.to \in Nat
  BY <1>1 DEF Message
<1> HIDE DEF m
<1>8. /\ Bytes(m) \in Seq(Nat) /\ Len(Bytes(m)) = m.n
      /\ \A i \in 1..m.n : Bytes(m)[i] = m.to - m.n + i
  BY <1>1, <1>4, BytesType
<1> QED
  BY <1>4, <1>5, <1>8 DEF m

\* A line moves the cursor only when it has no payload, and then past what is lost.
LEMMA CallLineArrives ==
  ASSUME TypeOK, CallInv, DataExact, DeliveredOnce, Line
  PROVE  CallInv' /\ DataExact' /\ DeliveredOnce'
<1> DEFINE m == Head(down[conn])
<1>1. /\ cpc = "await" /\ Reader(conn) /\ Arrived({"line"}) /\ Consumes /\ head' = m
      /\ UNCHANGED <<conn, kind, req, got, lost, data, spc, at, reply>>
  BY DEF Line, Goes, serverVars
<1>2. m.is = "line" /\ m \in Message /\ m.n \in Nat /\ m.to \in Nat
  BY <1>1, ArrivedType, ZenonT(30) DEF Arrived, Message
<1>3. Fits(m)
  BY <1>1, <1>2, AfterHead
<1>4. CASE m.n = 0
  <2>1. cursor' = m.to /\ cpc' = "open"
    BY <1>1, <1>4 DEF Line, LineCursor, Goes
  <2>2. m.to - m.n = m.to
    BY <1>2, <1>4
  <2>3. Gap(cursor')
    BY <1>1, <1>3, <2>1, <2>2 DEF Fits, Continues
  <2>4. CallInv'
    BY <1>1, <1>2, <1>4, <2>1, CallRests
  <2>5. DeliveredOnce'
    BY <1>1, <1>2, <2>1, <2>3, OnceKept
  <2> QED
    BY <1>1, <2>1, <2>4, <2>5 DEF DataExact
<1>5. CASE m.n # 0
  <2>1. cursor' = cursor /\ cpc' = "payload" /\ m.n > 0
    BY <1>1, <1>2, <1>5 DEF Line, LineCursor, Goes
  <2>2. ~Single(conn)
    BY <1>1 DEF Single, Reader
  <2>3. CallInv'
    BY <1>1, <1>2, <2>1, <2>2, CallToPayload
  <2> QED
    BY <1>1, <2>1, <2>3, OnceSame DEF DataExact
<1> QED
  BY <1>4, <1>5

\* Bytes delivered from beyond the cursor, where all between is lost, keep the order and
\* leave nothing else out.
LEMMA OnceContinued ==
  ASSUME TypeOK, DeliveredOnce, NEW b \in Seq(Nat), NEW x \in Nat, Gap(x),
         \A i \in 1..Len(b) : b[i] = x + i,
         got' = got \o b, cursor' = x + Len(b), lost' = lost
  PROVE  DeliveredOnce'
<1> DEFINE n == Len(got)
           k == Len(b)
           t == got \o b
<1>1. got \in Seq(Nat) /\ n \in Nat /\ k \in Nat /\ cursor \in Nat /\ cursor <= x
  BY LenProperties DEF TypeOK, Gap
<1>2. Len(t) = n + k /\ \A i \in 1..n + k : t[i] = IF i <= n THEN got[i] ELSE b[i - n]
  BY <1>1, ConcatProperties
<1>3. got' = t /\ cursor' = x + k
  OBVIOUS
<1> HIDE DEF t, n, k
<1>4. \A i \in 1..n : t[i] = got[i] /\ got[i] \in 1..cursor
  BY <1>1, <1>2 DEF DeliveredOnce, n
<1>5. ASSUME NEW i \in 1..k PROVE t[n + i] = x + i
  <2>1. n + i \in 1..n + k /\ ~(n + i <= n) /\ (n + i) - n = i
    BY <1>1
  <2>2. b[i] = x + i
    BY DEF k
  <2>3. t[n + i] = b[(n + i) - n]
    BY <1>2, <2>1
  <2> QED
    BY <2>1, <2>2, <2>3
<1>6. ASSUME NEW i \in 1..n + k PROVE i \in 1..n \/ (i - n \in 1..k /\ t[i] = x + (i - n))
  <2>1. CASE i > n
    <3>1. i - n \in 1..k /\ n + (i - n) = i
      BY <1>1, <2>1
    <3> QED
      BY <1>5, <3>1
  <2> QED
    BY <1>1, <2>1
<1>7. ASSUME NEW i \in 1..n + k PROVE t[i] \in 1..x + k
  <2>1. CASE i \in 1..n
    <3>1. t[i] \in 1..cursor
      BY <1>4, <2>1
    <3> QED
      BY <1>1, <3>1
  <2>2. CASE i - n \in 1..k /\ t[i] = x + (i - n)
    BY <1>1, <2>2
  <2> QED
    BY <1>6, <2>1, <2>2
<1>8. ASSUME NEW i \in 1..n + k, NEW j \in 1..n + k, i < j PROVE t[i] < t[j]
  <2>1. CASE j \in 1..n
    <3>1. i \in 1..n
      BY <1>1, <1>8, <2>1
    <3>2. got[i] < got[j]
      BY <1>8, <2>1, <3>1 DEF DeliveredOnce, n
    <3> QED
      BY <1>4, <2>1, <3>1, <3>2
  <2>2. CASE j - n \in 1..k /\ t[j] = x + (j - n)
    <3>1. CASE i \in 1..n
      <4>1. t[i] \in 1..cursor
        BY <1>4, <3>1
      <4> QED
        BY <1>1, <2>2, <4>1
    <3>2. CASE i - n \in 1..k /\ t[i] = x + (i - n)
      BY <1>1, <1>8, <2>2, <3>2
    <3> QED
      BY <1>6, <3>1, <3>2
  <2> QED
    BY <1>6, <2>1, <2>2
<1>9. ASSUME NEW y \in 1..x + k PROVE y \in lost \/ \E i \in 1..n + k : t[i] = y
  <2>1. CASE y <= cursor
    <3>1. y \in 1..cursor
      BY <1>1, <2>1
    <3>2. y \in lost \/ \E i \in 1..n : got[i] = y
      BY <3>1, ZenonT(30) DEF DeliveredOnce, n
    <3>3. \A i \in 1..n : i \in 1..n + k
      BY <1>1
    <3> QED
      BY <1>4, <3>2, <3>3
  <2>2. CASE cursor < y /\ y <= x
    <3>1. y \in cursor + 1..x
      BY <1>1, <2>2
    <3> QED
      BY <3>1 DEF Gap
  <2>3. CASE y > x
    <3>1. y - x \in 1..k /\ x + (y - x) = y /\ n + (y - x) \in 1..n + k
      BY <1>1, <2>3
    <3>2. t[n + (y - x)] = y
      BY <1>5, <3>1
    <3> QED
      BY <3>1, <3>2
  <2> QED
    BY <1>1, <2>1, <2>2, <2>3
<1> QED
  BY <1>2, <1>3, <1>7, <1>8, <1>9, ZenonT(30) DEF DeliveredOnce

\* A payload continues what was delivered and moves the cursor to its end.
LEMMA CallPayloadArrives ==
  ASSUME TypeOK, CallInv, DataExact, DeliveredOnce, Payload
  PROVE  CallInv' /\ DataExact' /\ DeliveredOnce'
<1> DEFINE m == Head(down[conn])
           b == Bytes(m)
           x == m.to - m.n
<1>1. /\ cpc = "payload" /\ Reader(conn) /\ Arrived({"payload"}) /\ Consumes /\ cursor' = head.to
      /\ UNCHANGED <<conn, kind, req, lost, data, spc, at>> /\ cpc' = "open" /\ got' = got \o b
  BY DEF Payload, Goes, serverVars
<1>2. /\ m.n \in Nat /\ m.to \in Nat /\ m.n <= m.to /\ head.to = m.to /\ Gap(x)
      /\ b \in Seq(Nat) /\ Len(b) = m.n /\ \A i \in 1..Len(b) : b[i] = x + i
  BY <1>1, PayloadContinues DEF Continues
<1>3. CallInv'
  BY <1>1, <1>2, CallRests
<1>4. DataExact'
  BY <1>1 DEF DataExact
<1>5. x \in Nat /\ cursor' = x + Len(b)
  BY <1>1, <1>2
<1> HIDE DEF b, m, x
<1>6. DeliveredOnce'
  BY <1>1, <1>2, <1>5, OnceContinued
<1> QED
  BY <1>3, <1>4, <1>6

\* A blob that is returned is exact if what was collected is.
LEMMA FinishExact ==
  ASSUME NEW all \in Seq(Nat), all = [i \in 1..Len(all) |-> i], BlobExact, Finish(all)
  PROVE  BlobExact'
<1>1. CASE Len(all) = opened.to
  <2>1. value' = [to |-> opened.to, data |-> all]
    BY <1>1 DEF Finish
  <2>2. value'.data = all /\ value'.to = Len(all)
    BY <1>1, <2>1
  <2> QED
    BY <2>2 DEF BlobExact
<1>2. CASE Len(all) # opened.to
  BY <1>2 DEF Finish, BlobExact
<1> QED
  BY <1>1, <1>2

\* The line of a chunk ends the call or announces the bytes that follow.
LEMMA CallBlobLine ==
  ASSUME TypeOK, CallInv, DataExact, DeliveredOnce, BlobExact, BlobLine
  PROVE  CallInv' /\ DataExact' /\ DeliveredOnce' /\ BlobExact'
<1> DEFINE m == Head(down[conn])
<1>1. /\ cpc = "await" /\ kind[conn] = "blob" /\ Arrived({"line"}) /\ Consumes
      /\ UNCHANGED <<kind, cursor, got, lost, spc, at, reply>>
  BY DEF BlobLine, serverVars
<1>6. DeliveredOnce' /\ ~Single(conn)
  BY <1>1, OnceSame DEF Single
<1>2. m.is = "line" /\ m \in Message /\ m.n \in Nat /\ data \in Seq(Nat)
  BY <1>1, ArrivedType, ZenonT(30) DEF Arrived, Message, TypeOK
<1>3. CASE HangsUp /\ UNCHANGED <<req, value>>
  BY <1>3, <1>6, CallEnds DEF BlobExact
<1>4. CASE Finish(data)
  <2>1. BlobExact'
    BY <1>2, <1>4, FinishExact DEF DataExact
  <2> QED
    BY <1>4, <1>6, <2>1, CallEnds DEF Finish
<1>5. CASE m.n # 0 /\ head' = m /\ Goes("payload") /\ UNCHANGED <<req, cgone, opened, data, value>>
  <2>1. CallInv'
    BY <1>1, <1>2, <1>5, <1>6, CallToPayload DEF Goes
  <2> QED
    BY <1>1, <1>5, <1>6, <2>1 DEF DataExact, BlobExact, Goes
<1> QED
  BY <1>3, <1>4, <1>5 DEF BlobLine

\* A chunk continues the blob, and completes it only at the size announced.
LEMMA CallBlobPayload ==
  ASSUME TypeOK, CallInv, DataExact, DeliveredOnce, BlobExact, BlobPayload
  PROVE  CallInv' /\ DataExact' /\ DeliveredOnce' /\ BlobExact'
<1> DEFINE d == down[conn]
           m == Head(d)
           b == Bytes(m)
           all == data \o b
<1>1. /\ cpc = "payload" /\ kind[conn] = "blob" /\ Arrived({"payload"}) /\ Consumes
      /\ UNCHANGED <<kind, cursor, got, lost, spc, at, reply>> /\ conn \in Conns
  BY DEF BlobPayload, serverVars, TypeOK
<1>9. DeliveredOnce' /\ ~Single(conn) /\ ~Single(conn)' /\ ~Reader(conn)
  BY <1>1, OnceSame DEF Single, Reader, BlobPayload, Finish, HangsUp, Goes
<1>2. data \in Seq(Nat) /\ data = [i \in 1..Len(data) |-> i]
  BY DEF TypeOK, DataExact
<1>3. /\ m.to - m.n = Len(data) /\ m.n \in Nat /\ m.to \in Nat /\ head.to = m.to /\ b \in Seq(Nat)
      /\ Len(b) = m.n /\ \A i \in 1..Len(b) : b[i] = Len(data) + i
  BY <1>1, <1>9, PayloadContinues DEF Continues
<1> HIDE DEF b
<1>4. all \in Seq(Nat) /\ Len(all) = Len(data) + Len(b) /\ all = [i \in 1..Len(data) + Len(b) |-> i]
  BY <1>2, <1>3, ExactConcat, ZenonT(30)
<1>5. Len(data) \in Nat
  BY <1>2, LenProperties
<1> HIDE DEF all
<1>6. all = [i \in 1..Len(all) |-> i] /\ Len(all) = head.to
  BY <1>3, <1>4, <1>5
<1>7. CASE Finish(all)
  <2>1. BlobExact'
    BY <1>4, <1>6, <1>7, FinishExact
  <2> QED
    BY <1>7, <1>9, <2>1, CallEnds DEF Finish
<1>8. CASE data' = all /\ head' = Blank /\ Asks /\ Goes("await") /\ UNCHANGED <<cgone, opened, value>>
  <2>1. cpc' = "await" /\ conn' = conn /\ req'[conn] = TRUE /\ data' = all /\ down'[conn] = Tail(d)
    BY <1>1, <1>8 DEF Goes, Asks, TypeOK, Consumes
  <2>2. m.is = "payload" /\ cpc # "none"
    BY <1>1 DEF Arrived
  <2>3. m = d[1] /\ (Len(d) = 1 => Tail(d) = <<>>) /\ Quiet(Tail(d), 1)
    BY <1>1, <2>2, AfterHead
  <2>4. spc[conn] = "left" \/ Answered
    BY <1>1, <2>2, Arriving, ZenonT(30) DEF Arrived, Halved
  <2>5. spc[conn] = "left" \/ (spc[conn] = "next" /\ at[conn] = head.to /\ Len(d) = 1)
    BY <1>1, <2>4 DEF Answered, Rested, Waiting
  <2> HIDE DEF d, m
  <2>6. spc[conn] = "left" \/ Asked'
    BY <1>1, <1>6, <1>9, <2>1, <2>3, <2>5 DEF Asked, Continues, Reader
  <2>7. CallInv'
    BY <1>1, <1>9, <2>1, <2>3, <2>6 DEF CallInv, InFlight, Exchange
  <2>8. DataExact'
    BY <1>6, <2>1 DEF DataExact
  <2> QED
    BY <1>8, <1>9, <2>7, <2>8 DEF BlobExact
<1> QED
  BY <1>7, <1>8 DEF BlobPayload, all, b

\* A failed call returns nothing, and loses only what a failing read consumed.
LEMMA CallFails ==
  ASSUME TypeOK, ConnInv, CallInv, DataExact, DeliveredOnce, BlobExact, Refused \/ Lost
  PROVE  CallInv' /\ DataExact' /\ DeliveredOnce' /\ BlobExact'
<1>1. /\ UNCHANGED <<kind, req, cursor, got, value, spc, at>> /\ cpc # "none" /\ Fails
      /\ lost \subseteq lost'
  BY ZenonT(30) DEF Refused, Lost, Kept, serverVars
<1>4. DeliveredOnce'
  <2>1. cursor' \in Nat /\ Gap(cursor')
    BY <1>1, GapAtCursor DEF TypeOK
  <2> QED
    BY <1>1, <2>1, OnceKept
<1>2. CASE HangsUp
  BY <1>1, <1>2, <1>4, CallEnds DEF BlobExact
<1>3. CASE Reader(conn) /\ cpc # "opening" /\ Goes("open") /\ UNCHANGED <<cgone, callVars>>
  <2>1. cpc' = "open" /\ conn' = conn /\ data' = data /\ conn \in Conns
    BY <1>3 DEF Goes, callVars, TypeOK
  <2>2. CallInv'
    <3>1. CASE Refused
      <4>1. /\ Arrived({"error", "broken"}) /\ Consumes /\ cpc = "await"
            /\ lost' = lost \cup (cursor + 1..at[conn])
        BY <1>3, <3>1 DEF Refused
      <4>2. Head(down[conn]).is # "line"
        BY <4>1 DEF Arrived
      <4> QED
        BY <1>1, <1>3, <2>1, <4>1, <4>2, CallRests
    <3>2. CASE Lost
      <4>1. spc[conn] = "left" /\ down[conn] = <<>> /\ down' = down
        BY <2>1, <3>2 DEF Lost, ConnInv, Handled, Gone
      <4>2. Quiet(down[conn], 1)'
        BY <2>1, <4>1, QuietEmpty
      <4>3. Reader(conn)' /\ ~Single(conn)'
        BY <1>1, <1>3, <2>1 DEF Reader, Single
      <4> QED
        BY <1>1, <2>1, <4>1, <4>2, <4>3 DEF CallInv, InFlight, Exchange
    <3> QED
      BY <3>1, <3>2
  <2> QED
    BY <1>1, <1>4, <2>1, <2>2 DEF DataExact, BlobExact
<1> QED
  BY <1>1, <1>2, <1>3 DEF Fails

\* Where no read fails half-way, none consumes what it does not return.
LEMMA NothingLost ==
  ASSUME TypeOK, ConnInv, CallInv, Lossless, Refused
  PROVE  Lossless'
<1> SUFFICES ASSUME "partial" \notin Faults, Reader(conn) PROVE cursor + 1..at[conn] = {}
  BY DEF Refused, Lossless
<1>1. cursor \in Nat /\ conn \in Conns /\ at[conn] \in Nat /\ lost = {} /\ ~Single(conn)
  BY DEF TypeOK, Lossless, Reader, Single
<1>2. /\ cpc # "none" /\ Arrived({"error", "broken"}) /\ Head(down[conn]).is \notin {"line", "payload"}
  BY DEF Refused, Arrived
<1>3. CASE spc[conn] = "left"
  <2>1. at[conn] = 0
    BY <1>1, <1>3 DEF ConnInv, Handled, Gone
  <2> QED
    BY <1>1, <2>1
<1>4. CASE Halved
  <2>1. down[conn] = <<reply[conn]>> /\ reply[conn].is = "line"
    BY <1>2, <1>4 DEF Halved, Arrived
  <2>2. Head(<<reply[conn]>>) = reply[conn]
    OBVIOUS
  <2> QED
    BY <1>2, <2>1, <2>2
<1>5. CASE Answered
  <2>1. Head(down[conn]) = down[conn][1]
    BY <1>2, AfterHead
  <2>2. Gap(at[conn])
    BY <1>1, <1>2, <1>5, <2>1 DEF Answered, ErrorAt, Beyond
  <2> QED
    BY <1>1, <2>2 DEF Gap
<1> QED
  BY <1>2, <1>3, <1>4, <1>5, Arriving

-----------------------------------------------------------------------------
\* The theorems.

\* The invariant holds at first.
LEMMA InvInit == Init => IInv
<1> SUFFICES ASSUME Init PROVE IInv
  OBVIOUS
<1>1. /\ cpc = "none" /\ data = <<>> /\ got = <<>> /\ cursor = 0 /\ lost = {}
      /\ value = [to |-> 0, data |-> <<>>]
  BY DEF Init
<1>2. DataExact /\ BlobExact /\ Lossless
  BY <1>1, DataEmpty DEF DataExact, BlobExact, Lossless
<1>3. DeliveredOnce
  BY <1>1, DataEmpty DEF DeliveredOnce
<1>4. OnlyHangUpCancels
  BY DEF Init, OnlyHangUpCancels
<1> QED
  BY <1>1, <1>2, <1>3, <1>4, TypeInit, ConnInit DEF IInv, CallInv

\* Every step keeps the invariant.
LEMMA InvStep == IInv /\ [Next]_vars => IInv'
<1> SUFFICES ASSUME IInv, [Next]_vars PROVE IInv'
  OBVIOUS
<1> USE DEF IInv
<1>c. OnlyHangUpCancels'
  BY CancelsStep
<1>1. ASSUME NEW c \in Conns, Serves(c) PROVE IInv'
  <2>1. UNCHANGED clientVars
    BY <1>1, HandlerOwn DEF Own
  <2>2. DataExact' /\ Lossless' /\ BlobExact'
    BY <2>1 DEF clientVars, DataExact, Lossless, BlobExact
  <2>3. DeliveredOnce'
    BY <2>1, OnceSame DEF clientVars
  <2> QED
    BY <1>1, <1>c, <2>2, <2>3, TypeHandler, ConnHandler, CallServer
<1>2. CASE (\E c \in Conns : Monitor(c)) \/ Write \/ End \/ Exit \/ Dial \/ Read \/ Close
  <2>1. TypeOK' /\ CallInv'
    BY <1>2, TypeRest, CallRest
  <2>2. ConnInv'
    BY <1>2, ConnMonitor, ConnClient, ConnExit, ConnDial
  <2>3. DataExact' /\ BlobExact' /\ UNCHANGED <<got, cursor, lost>>
    <3>1. CASE Close
      BY <3>1, CallEnds DEF Close, BlobExact
    <3>2. CASE Dial
      BY <3>2 DEF Dial, DataExact, BlobExact
    <3>3. CASE Read
      BY <3>3 DEF Read, Goes, DataExact, BlobExact
    <3>4. CASE (\E c \in Conns : Monitor(c)) \/ Write \/ End \/ Exit
      <4>1. UNCHANGED clientVars
        BY <3>4, ZenonT(30) DEF Monitor, Check, Clear, Recheck, Watched, Watch, Write, End, Exit
      <4> QED
        BY <4>1 DEF clientVars, DataExact, BlobExact
    <3> QED
      BY <1>2, <3>1, <3>2, <3>3, <3>4
  <2>4. DeliveredOnce' /\ Lossless'
    BY <2>3, OnceSame DEF Lossless
  <2> QED
    BY <1>c, <2>1, <2>2, <2>3, <2>4
<1>3. CASE Receive
  <2>1. cpc = "payload" /\ Arrived({"payload"}) => Head(down[conn]).n <= Head(down[conn]).to
    BY PayloadContinues
  <2>2. TypeOK' /\ ConnInv'
    BY <1>3, <2>1, TypeReceive, ConnClient
  <2>3. CallInv' /\ DataExact' /\ DeliveredOnce' /\ BlobExact'
    <3>1. CASE Opened
      BY <3>1, CallOpened, ZenonT(30) DEF Opened, BlobExact
    <3>2. CASE Line
      BY <3>2, CallLineArrives, ZenonT(30) DEF Line, BlobExact
    <3>3. CASE Payload
      BY <3>3, CallPayloadArrives, ZenonT(30) DEF Payload, BlobExact
    <3> QED
      BY <1>3, <3>1, <3>2, <3>3, CallBlobLine, CallBlobPayload, CallFails DEF Receive
  <2>4. Lossless'
    <3>1. CASE Refused
      BY <3>1, NothingLost
    <3>2. CASE UNCHANGED lost
      BY <3>2 DEF Lossless
    <3> QED
      BY <1>3, <3>1, <3>2, ZenonT(30) DEF Receive, Opened, Line, Payload, BlobLine, BlobPayload, Lost
  <2> QED
    BY <1>c, <2>2, <2>3, <2>4
<1>4. CASE UNCHANGED vars
  <2>1. CallInv'
    BY <1>4, CallSame DEF vars, serverVars, wireVars
  <2>2. ConnInv'
    BY <1>4 DEF vars, serverVars, wireVars, clientVars, ConnInv, InUse, Handled, Unwatched, Monitored, Stopping,
                Unhurried, Within, Unopened, Gone, Unused
  <2>3. TypeOK'
    BY <1>4 DEF vars, logVars, serverVars, wireVars, clientVars, TypeOK
  <2>4. DataExact' /\ Lossless' /\ BlobExact'
    BY <1>4 DEF vars, clientVars, DataExact, Lossless, BlobExact
  <2>5. DeliveredOnce'
    BY <1>4, OnceSame DEF vars, clientVars
  <2> QED
    BY <1>c, <2>1, <2>2, <2>3, <2>4, <2>5
<1> QED
  BY <1>1, <1>2, <1>3, <1>4 DEF Next, Serves

\* The invariant holds in every reachable state.
THEOREM StreamInvariantHolds == Spec => []IInv
BY InvInit, InvStep, PTL DEF Spec

\* Every variable of server, wire and client stays within its type: no chunk that
\* serveBlob cuts and no payload that a read returns has a negative length or offset.
THEOREM StreamTypes == Spec => []TypeOK
<1>1. IInv => TypeOK
  BY DEF IInv
<1> QED
  BY <1>1, StreamInvariantHolds, PTL

\* However often connections are cut, refused, timed out and reopened, and reads fail after
\* they consumed bytes, readOnce returns bytes of the log up to its cursor in order and none
\* twice, and leaves out only bytes of a read that it answered with an error.
THEOREM EveryByteOnce == Spec => []DeliveredOnce
<1>1. IInv => DeliveredOnce
  BY DEF IInv
<1> QED
  BY <1>1, StreamInvariantHolds, PTL

\* Where no read of the log fails after it consumed bytes, readOnce leaves out nothing:
\* every byte before its cursor has been returned, whatever else fails.
THEOREM NothingSkipped ==
  ASSUME "partial" \notin Faults
  PROVE  Spec => [](\A b \in 1..cursor : \E i \in 1..Len(got) : got[i] = b)
<1>1. IInv => \A b \in 1..cursor : \E i \in 1..Len(got) : got[i] = b
  BY DEF IInv, DeliveredOnce, Lossless
<1> QED
  BY <1>1, StreamInvariantHolds, PTL

\* A replay or checkpoint returned by readBlobOnceWithMetadata is whole: every byte of
\* what was captured when it was opened, whatever was written or cut since.
THEOREM BlobsAreWhole == Spec => []BlobExact
<1>1. IInv => BlobExact
  BY DEF IInv
<1> QED
  BY <1>1, StreamInvariantHolds, PTL

\* The deadline that wakes monitorConnection never cancels the operation it watched: a
\* context is cancelled only when the client has hung up.
THEOREM WakingCancelsNothing == Spec => []OnlyHangUpCancels
<1>1. IInv => OnlyHangUpCancels
  BY DEF IInv
<1> QED
  BY <1>1, StreamInvariantHolds, PTL
=============================================================================
