---------------------------- MODULE StreamInvariant ----------------------------
(***************************************************************************)
(* What holds of every connection of Stream, whatever its client does: the *)
(* types, the handshake of a handler with its monitor, and that no blob is *)
(* read past its end.  For any connections, chunk size, slots and faults.  *)
(***************************************************************************)
EXTENDS Stream, SequenceTheorems, TLAPS

\* A handler is watched only while it works on what is watched, it has closed stop before it
\* wakes its monitor, and no deadline has passed before that.
Unwatched(c) == spc[c] \notin {"work", "wake", "join"} \/ ~Monitored(c) => mon[c] = "off"
Stopping(c)  == spc[c] \in {"wake", "join"} => stop[c]
Unhurried(c) == spc[c] \in {"work", "wake"} => deadline[c] = "none"

\* A blob is never read past its end: an answer that is not the last leaves its reader there.
Within(c) == kind[c] = "blob" =>
               /\ spc[c] = "next" => at[c] <= snap[c]
               /\ spc[c] \in {"wake", "join", "line", "payload"} => at[c] <= snap[c] \/ reply[c].last

\* Nothing is in flight on a connection nobody dialled, and only a handler that has
\* returned has closed its own; its reader is gone with it.
Unopened(c) == Unused(c) => down[c] = <<>> /\ ~req[c]
Gone(c)     == (sgone[c] <=> spc[c] = "left") /\ (spc[c] = "left" => at[c] = 0)
InUse       == cpc # "none" => ~Unused(conn)

Handled(c) == Unwatched(c) /\ Stopping(c) /\ Unhurried(c) /\ Within(c) /\ Unopened(c) /\ Gone(c)
ConnInv    == InUse /\ \A c \in Conns : Handled(c)

\* What an operation returns: a result, or an error after n bytes that only a failing read of
\* the log consumes.
Fault(c)   == \E n \in Nat : (n = 0 \/ (Reader(c) /\ "partial" \in Faults)) /\ Errs(c, n)
Returns(c) == ReadsBytes(c) \/ ReadsEnd(c) \/ Captures(c) \/ Waited(c) \/ Wrote(c) \/ Fault(c)

\* Every step of a handler, those that nothing makes it take included.
Serves(c) == Handler(c) \/ Idle(c) \/ Refuse(c) \/ Drain(c)

-----------------------------------------------------------------------------
\* Messages and sequences.

\* A message made of typed parts is a message, with those parts.
LEMMA MessageType ==
  ASSUME NEW is \in {"line", "error", "broken", "payload"}, NEW n \in Nat, NEW to \in Nat,
         NEW last \in BOOLEAN
  PROVE  /\ Msg(is, n, to, last) \in Message
         /\ Msg(is, n, to, last).is = is /\ Msg(is, n, to, last).n = n
         /\ Msg(is, n, to, last).to = to /\ Msg(is, n, to, last).last = last
BY DEF Msg, Message

\* The fixed messages are messages.
LEMMA Constants == Blank \in Message /\ Broken \in Message /\ \A last \in BOOLEAN : Error(last) \in Message
BY MessageType, ZenonT(30) DEF Blank, Broken, Error

\* A sequence of bytes is the beginning of the log when byte i is i.
LEMMA IsExact ==
  ASSUME NEW s \in Seq(Nat), NEW n \in Nat
  PROVE  s = [i \in 1..n |-> i] <=> Len(s) = n /\ \A i \in 1..n : s[i] = i
<1>1. Len(s) \in Nat /\ DOMAIN s = 1..Len(s) /\ s = [i \in 1..Len(s) |-> s[i]]
  BY LenProperties
<1>2. ASSUME Len(s) = n, \A i \in 1..n : s[i] = i PROVE s = [i \in 1..n |-> i]
  BY <1>1, <1>2
<1>3. ASSUME s = [i \in 1..n |-> i] PROVE Len(s) = n /\ \A i \in 1..n : s[i] = i
  <2>1. DOMAIN s = 1..n
    BY <1>3
  <2> QED
    BY <1>1, <1>3, <2>1
<1> QED
  BY <1>2, <1>3

\* Bytes that continue a beginning of the log give a longer one.
LEMMA ExactConcat ==
  ASSUME NEW s \in Seq(Nat), NEW b \in Seq(Nat),
         s = [i \in 1..Len(s) |-> i], \A i \in 1..Len(b) : b[i] = Len(s) + i
  PROVE  /\ s \o b \in Seq(Nat) /\ Len(s \o b) = Len(s) + Len(b)
         /\ s \o b = [i \in 1..Len(s) + Len(b) |-> i]
<1> DEFINE t == s \o b
           n == Len(s) + Len(b)
<1>1. Len(s) \in Nat /\ Len(b) \in Nat /\ n \in Nat
  BY LenProperties
<1>2. \A i \in 1..Len(s) : s[i] = i
  BY <1>1, IsExact
<1>3. /\ t \in Seq(Nat) /\ Len(t) = n
      /\ \A i \in 1..n : t[i] = IF i <= Len(s) THEN s[i] ELSE b[i - Len(s)]
  BY ConcatProperties
<1> HIDE DEF t
<1>4. ASSUME NEW i \in 1..n PROVE t[i] = i
  <2>1. CASE i <= Len(s)
    BY <1>1, <1>2, <1>3, <2>1
  <2>2. CASE i > Len(s)
    <3>1. i - Len(s) \in 1..Len(b)
      BY <1>1, <2>2
    <3>2. b[i - Len(s)] = Len(s) + (i - Len(s))
      BY <3>1
    <3> QED
      BY <1>1, <1>3, <2>2, <3>2
  <2> QED
    BY <1>1, <2>1, <2>2
<1>5. t = [i \in 1..n |-> i]
  BY <1>1, <1>3, <1>4, IsExact
<1> QED
  BY <1>3, <1>5 DEF t
\* The part of the types that belongs to the handlers.
Places    == {"unused", "dialled", "first", "next", "work", "wake", "join", "line", "payload", "left"}
LocalType == /\ spc \in [Conns -> Places]
             /\ stop \in [Conns -> BOOLEAN] /\ sgone \in [Conns -> BOOLEAN]
             /\ at \in [Conns -> Nat] /\ snap \in [Conns -> Nat] /\ reply \in [Conns -> Message]

\* A handler that returns keeps its types.
LEMMA LeavesType == ASSUME TypeOK, NEW c \in Conns, Leaves(c) PROVE LocalType'
BY Constants DEF TypeOK, Leaves, Steps, LocalType, Places

\* So does one that only moves on,
LEMMA StepsType ==
  ASSUME TypeOK, NEW c \in Conns, NEW next \in Places, Steps(c, next), UNCHANGED localVars
  PROVE  LocalType'
BY DEF TypeOK, Steps, LocalType, Places, localVars

\* one that has sent its response,
LEMMA RestsType == ASSUME TypeOK, NEW c \in Conns, Rests(c) PROVE LocalType'
<1>1. CASE reply[c].last
  BY <1>1, LeavesType DEF Rests
<1>2. CASE ~reply[c].last
  BY <1>2, StepsType DEF Rests, Places
<1> QED
  BY <1>1, <1>2

\* and one that has made it.
LEMMA AnswersType ==
  ASSUME TypeOK, NEW c \in Conns, NEW next \in Places, NEW m \in Message, Answers(c, m, next)
  PROVE  spc' \in [Conns -> Places] /\ reply' \in [Conns -> Message]
BY DEF TypeOK, Answers, Steps, Places

\* Sending a message keeps the type of what is in flight.
LEMMA SendsType ==
  ASSUME TypeOK, NEW c \in Conns, NEW m \in Message, Sends(c, m)
  PROVE  down' \in [Conns -> Seq(Message)]
<1>1. down[c] \in Seq(Message) /\ Append(down[c], m) \in Seq(Message)
  BY AppendProperties DEF TypeOK
<1> HIDE DEF Message
<1> QED
  BY <1>1 DEF TypeOK, Sends

\* The initial state is typed.
LEMMA TypeInit == Init => TypeOK
<1> SUFFICES ASSUME Init PROVE TypeOK
  OBVIOUS
<1>1. conn \in Conns
  BY StreamAssumption DEF Init
<1>2. value \in [to : Nat, data : Seq(Nat)] /\ got \in Seq(Nat) /\ data \in Seq(Nat)
  BY DEF Init
<1>3. /\ spc \in [Conns -> Places] /\ mon \in [Conns -> {"off", "check", "clear", "recheck", "read"}]
      /\ deadline \in [Conns -> {"none", "now"}] /\ kind \in [Conns -> {"output", "blob", "wait", "input"}]
      /\ at \in [Conns -> Nat] /\ snap \in [Conns -> Nat]
  BY DEF Init, Places
<1>4. /\ stop \in [Conns -> BOOLEAN] /\ cancelled \in [Conns -> BOOLEAN] /\ req \in [Conns -> BOOLEAN]
      /\ cgone \in [Conns -> BOOLEAN] /\ sgone \in [Conns -> BOOLEAN]
  BY DEF Init
<1>5. reply \in [Conns -> Message] /\ down \in [Conns -> Seq(Message)]
  BY Constants DEF Init
<1>6. head \in Message /\ opened \in Message /\ cpc = "none"
  BY Constants DEF Init
<1>7. written \in Nat /\ ended \in BOOLEAN /\ cursor \in Nat
  BY ZenonT(30) DEF Init
<1>8. lost \subseteq Nat
  BY DEF Init
<1> QED
  BY <1>1, <1>2, <1>3, <1>4, <1>5, <1>6, <1>7, <1>8 DEF TypeOK, Places

\* An operation that ends has a result or an error.
LEMMA OperationEnds ==
  ASSUME TypeOK, NEW c \in Conns, Work(c) \/ Refuse(c) \/ Drain(c)
  PROVE  Done(c) /\ Returns(c)
<1>1. Done(c)
  BY DEF Work, Refuse, Drain
<1>2. CASE Errs(c, 0)
  <2>1. 0 \in Nat
    OBVIOUS
  <2> QED
    BY <1>1, <1>2, <2>1, ZenonT(30) DEF Returns, Fault
<1>3. CASE Refuse(c)
  <2>1. PICK n \in Dropped(c) : Errs(c, n)
    BY <1>3 DEF Refuse
  <2>2. n \in Nat /\ (n = 0 \/ (Reader(c) /\ "partial" \in Faults))
    <3>1. MaxChunk \in Nat /\ written \in Nat /\ at[c] \in Nat
      BY StreamAssumption DEF TypeOK
    <3> QED
      BY <3>1 DEF Dropped, Lesser
  <2> QED
    BY <1>1, <2>1, <2>2, ZenonT(30) DEF Returns, Fault
<1> QED
  BY <1>1, <1>2, <1>3, ZenonT(30) DEF Work, Drain, Returns

\* What an operation returns is typed.
LEMMA WorkType ==
  ASSUME TypeOK, NEW c \in Conns, Done(c), Returns(c)
  PROVE  TypeOK'
<1>1. /\ spc' \in [Conns -> Places] /\ reply' \in [Conns -> Message]
      /\ at' \in [Conns -> Nat] /\ snap' \in [Conns -> Nat]
  <2>1. CASE ReadsBytes(c)
    <3>1. PICK n \in 1..Lesser(MaxChunk, written - at[c]) :
             /\ at' = [at EXCEPT ![c] = @ + n] /\ UNCHANGED snap
             /\ Answers(c, Msg("line", n, at[c] + n, FALSE), "wake")
      BY <2>1, ZenonT(30) DEF ReadsBytes
    <3>a. at[c] \in Nat
      BY ZenonT(30) DEF TypeOK
    <3>2. n \in Nat /\ at[c] \in Nat /\ at[c] + n \in Nat
      BY <3>a
    <3>3. Msg("line", n, at[c] + n, FALSE) \in Message
      BY <3>2, MessageType, ZenonT(30)
    <3> QED
      BY <3>1, <3>2, <3>3, AnswersType, ZenonT(30) DEF TypeOK, Places
  <2>2. CASE ReadsEnd(c)
    <3>0. at[c] \in Nat
      BY DEF TypeOK
    <3>1. Msg("line", 0, at[c], TRUE) \in Message
      BY <3>0, MessageType, ZenonT(30)
    <3> QED
      BY <2>2, <3>1, AnswersType, ZenonT(30) DEF ReadsEnd, TypeOK, Places
  <2>3. CASE Captures(c)
    <3>1. Msg("line", 0, written, FALSE) \in Message
      BY MessageType, ZenonT(30) DEF TypeOK
    <3> QED
      BY <2>3, <3>1, AnswersType, ZenonT(30) DEF Captures, TypeOK, Places
  <2>4. CASE Waited(c)
    BY <2>4, Constants, AnswersType DEF Waited, TypeOK, Places
  <2>5. CASE Wrote(c)
    BY <2>5, Constants, AnswersType DEF Wrote, TypeOK, Places
  <2>6. CASE Fault(c)
    <3>1. PICK n \in Nat : Errs(c, n)
      BY <2>6 DEF Fault
    <3> DEFINE next == IF Monitored(c) THEN "wake" ELSE "line"
    <3>2. Answers(c, Error(kind[c] = "blob"), next) /\ next \in Places
      BY <3>1 DEF Errs, Places
    <3>3. Error(kind[c] = "blob") \in Message
      BY Constants
    <3> HIDE DEF next
    <3>4. spc' \in [Conns -> Places] /\ reply' \in [Conns -> Message]
      BY <3>2, <3>3, AnswersType, ZenonT(30)
    <3>5. at' = [at EXCEPT ![c] = @ + n] /\ snap' = snap
      BY <3>1, ZenonT(30) DEF Errs
    <3>6. at' \in [Conns -> Nat]
      BY <3>5 DEF TypeOK
    <3> QED
      BY <3>1, <3>4, <3>5, <3>6, ZenonT(30) DEF TypeOK
  <2> QED
    BY <2>1, <2>2, <2>3, <2>4, <2>5, <2>6 DEF Returns
<1>2. stop' \in [Conns -> BOOLEAN]
  BY DEF TypeOK, Done, Monitored
<1> QED
  BY <1>1, <1>2, ZenonT(30) DEF TypeOK, Done, Places, logVars, wireVars, clientVars

\* Every step of a handler keeps the types: a chunk is never negative, since the blob is within its end.
LEMMA TypeHandler ==
  ASSUME TypeOK, ConnInv, NEW c \in Conns, Serves(c)
  PROVE  TypeOK'
<1> USE DEF TypeOK
<1>1. CASE Accept(c)
  <2>1. LocalType'
    BY <1>1, LeavesType, StepsType, ZenonT(30) DEF Accept, Places
  <2> QED
    BY <1>1, <2>1, ZenonT(30) DEF Accept, LocalType, Places, logVars, wireVars, clientVars
<1>2. CASE HangUp(c)
  BY <1>2, Constants DEF HangUp, Leaves, Steps, logVars, wireVars, clientVars
<1>3. CASE Idle(c)
  <2>1. LocalType' /\ down' \in [Conns -> Seq(Message)]
    BY <1>3, Constants, LeavesType, SendsType, ZenonT(30) DEF Idle
  <2> QED
    BY <1>3, <2>1, ZenonT(30) DEF Idle, LocalType, Places, logVars, clientVars
<1>4. CASE OpenOutput(c)
  <2>0. at[c] \in Nat
    OBVIOUS
  <2>1. Msg("line", 0, at[c], FALSE) \in Message
    BY <2>0, MessageType, ZenonT(30)
  <2>2. spc' \in [Conns -> Places] /\ reply' \in [Conns -> Message]
    BY <1>4, <2>1, Constants, AnswersType, ZenonT(30) DEF OpenOutput, Places
  <2> QED
    BY <1>4, <2>2, ZenonT(30) DEF OpenOutput, Takes, Places, logVars, clientVars
<1>5. CASE Start(c)
  BY <1>5, ZenonT(30) DEF Start, Takes, Steps, Watches, logVars, clientVars
<1>6. CASE Chunk(c)
  <2> DEFINE end == at[c] + ChunkBytes(c)
  <2>1. at[c] <= snap[c] /\ at[c] \in Nat /\ snap[c] \in Nat
    BY <1>6 DEF Chunk, ConnInv, Handled, Within
  <2>m. MaxChunk \in Nat
    BY StreamAssumption
  <2>2. ChunkBytes(c) \in Nat /\ end \in Nat
    BY <2>1, <2>m DEF ChunkBytes, Lesser
  <2>3. Msg("line", ChunkBytes(c), end, end = snap[c]) \in Message
    BY <2>2, MessageType, ZenonT(30)
  <2>4. Answers(c, Msg("line", ChunkBytes(c), end, end = snap[c]), "line") /\ at' = [at EXCEPT ![c] = end]
    BY <1>6 DEF Chunk
  <2> HIDE DEF end
  <2>5. /\ spc' \in [Conns -> Places] /\ reply' \in [Conns -> Message]
        /\ at' \in [Conns -> Nat]
    BY <2>2, <2>3, <2>4, AnswersType, ZenonT(30) DEF Places
  <2> QED
    BY <1>6, <2>5, ZenonT(30) DEF Chunk, Takes, Places, logVars, clientVars
<1>7. CASE Work(c) \/ Refuse(c) \/ Drain(c)
  <2> HIDE DEF TypeOK
  <2> QED
    BY <1>7, OperationEnds, WorkType, ZenonT(30)
<1>9. CASE Wake(c)
  BY <1>9 DEF Wake, Steps, logVars, wireVars, clientVars
<1>10. CASE Join(c)
  BY <1>10 DEF Join, Steps, logVars, wireVars, clientVars
<1>11. CASE SendLine(c)
  <2>1. LocalType'
    BY <1>11, LeavesType, StepsType, RestsType, ZenonT(30) DEF SendLine, Places
  <2>2. down' \in [Conns -> Seq(Message)]
    <3>1. reply[c] \in Message
      OBVIOUS
    <3> QED
      BY <1>11, <3>1, SendsType DEF SendLine
  <2> QED
    BY <1>11, <2>1, <2>2, ZenonT(30) DEF SendLine, LocalType, Places, logVars, clientVars
<1>12. CASE SendPayload(c)
  <2>1. reply[c] \in Message /\ reply[c].n \in Nat /\ reply[c].to \in Nat
    BY ZenonT(30) DEF Message
  <2>2. Msg("payload", reply[c].n, reply[c].to, FALSE) \in Message
    BY <2>1, MessageType, ZenonT(30)
  <2>3. LocalType'
    BY <1>12, LeavesType, RestsType, ZenonT(30) DEF SendPayload, Places
  <2>4. down' \in [Conns -> Seq(Message)]
    BY <1>12, <2>2, SendsType, ZenonT(30) DEF SendPayload
  <2> QED
    BY <1>12, <2>3, <2>4, ZenonT(30) DEF SendPayload, LocalType, Places, logVars, clientVars
<1> QED
  BY <1>1, <1>2, <1>3, <1>4, <1>5, <1>6, <1>7, <1>9, <1>10, <1>11, <1>12, ZenonT(30) DEF Serves, Handler

\* So do monitors, the session, the end of the process, dialling, asking and closing.
LEMMA TypeRest ==
  ASSUME TypeOK, (\E c \in Conns : Monitor(c)) \/ Write \/ End \/ Exit \/ Dial \/ Read \/ Close
  PROVE  TypeOK'
<1> USE DEF TypeOK
<1>1. ASSUME NEW c \in Conns, Monitor(c) PROVE TypeOK'
  <2> HIDE DEF TypeOK
  <2>1. UNCHANGED <<written, ended, spc, stop, at, snap, reply, sgone, kind, req, down, cgone,
                    cpc, conn, head, opened, cursor, got, lost, data, value>>
    BY <1>1 DEF Monitor, Check, Clear, Recheck, Watched, Watch, logVars, wireVars, clientVars
  <2>2. mon' \in [Conns -> {"off", "check", "clear", "recheck", "read"}]
    <3>1. PICK next \in {"off", "clear", "recheck", "read"} : mon' = [mon EXCEPT ![c] = next]
      <4>1. CASE Check(c)
        BY <4>1, ZenonT(30) DEF Check, Watch
      <4>2. CASE Recheck(c)
        BY <4>2, ZenonT(30) DEF Recheck, Watch
      <4>3. CASE Clear(c) \/ Watched(c)
        BY <4>3 DEF Clear, Watched, Watch
      <4> QED
        BY <1>1, <4>1, <4>2, <4>3 DEF Monitor
    <3> QED
      BY <3>1 DEF TypeOK
  <2>3. deadline' \in [Conns -> {"none", "now"}]
    BY <1>1, ZenonT(30) DEF TypeOK, Monitor, Check, Clear, Recheck, Watched
  <2>4. cancelled' \in [Conns -> BOOLEAN]
    <3>1. CASE Watched(c)
      BY <3>1 DEF TypeOK, Watched, Cancels
    <3>2. CASE UNCHANGED cancelled
      BY <3>2 DEF TypeOK
    <3> QED
      BY <1>1, <3>1, <3>2 DEF Monitor, Check, Clear, Recheck
  <2> QED
    BY <2>1, <2>2, <2>3, <2>4, ZenonT(30) DEF TypeOK
<1>2. CASE Write
  <2>1. written' \in Nat
    BY <1>2 DEF Write
  <2> QED
    BY <1>2, <2>1, ZenonT(30) DEF Write, serverVars, wireVars, clientVars
<1>3. CASE End
  BY <1>3, ZenonT(30) DEF End, serverVars, wireVars, clientVars
<1>4. CASE Exit
  BY <1>4, Constants DEF Exit, Unused, logVars, wireVars, clientVars
<1>5. CASE Dial
  <2> DEFINE c == CHOOSE d \in Conns : Unused(d)
  <2>1. c \in Conns
    BY <1>5, ZenonT(30) DEF Dial
  <2>2. PICK k \in Opens[c] :
           /\ conn' = c /\ cpc' = "opening" /\ kind' = [kind EXCEPT ![c] = k]
           /\ req' = [req EXCEPT ![c] = TRUE] /\ at' = [at EXCEPT ![c] = cursor]
           /\ spc' = [spc EXCEPT ![c] = "dialled"]
    BY <1>5, ZenonT(30) DEF Dial, Steps
  <2>3. k \in {"output", "blob", "wait", "input"}
    BY <2>1, StreamAssumption, ZenonT(30)
  <2>4. UNCHANGED <<mon, stop, deadline, cancelled, snap, reply, sgone, down, cgone, head, opened,
                    cursor, got, lost, data, value, written, ended>>
    BY <1>5, ZenonT(30) DEF Dial, logVars
  <2> HIDE DEF c
  <2> QED
    BY <2>1, <2>2, <2>3, <2>4, ZenonT(30)
<1>6. CASE Read
  BY <1>6 DEF Read, Asks, Goes, logVars, serverVars
<1>7. CASE Close
  <2>1. down' \in [Conns -> Seq(Message)] /\ cgone' \in [Conns -> BOOLEAN]
    BY <1>7 DEF Close, HangsUp
  <2>2. <<>> \in Seq(Nat)
    OBVIOUS
  <2> QED
    BY <1>7, <2>1, <2>2, Constants, ZenonT(30) DEF Close, HangsUp, Goes, logVars, serverVars
<1> QED
  BY <1>1, <1>2, <1>3, <1>4, <1>5, <1>6, <1>7, ZenonT(30)

\* A sequence that is not empty has a first element and a rest.
LEMMA FirstOf ==
  ASSUME NEW S, NEW d \in Seq(S), d # <<>>
  PROVE  Len(d) \in Nat \ {0} /\ Head(d) \in S /\ Head(d) = d[1] /\ Tail(d) \in Seq(S)
<1>1. Head(d) \in S /\ Tail(d) \in Seq(S)
  BY HeadTailProperties, ZenonT(30)
<1>2. Len(d) \in Nat \ {0}
  BY EmptySeq, ZenonT(30)
<1>3. Head(d) = d[1]
  OBVIOUS
<1> QED
  BY <1>1, <1>2, <1>3, ZenonT(30)

\* What has arrived is a message, and what follows it is a sequence of them.
LEMMA ArrivedType ==
  ASSUME TypeOK, NEW is, Arrived(is)
  PROVE  /\ down[conn] \in Seq(Message) /\ Len(down[conn]) \in Nat \ {0} /\ conn \in Conns
         /\ Head(down[conn]) \in Message /\ Head(down[conn]) = down[conn][1]
         /\ Tail(down[conn]) \in Seq(Message)
<1>1. down[conn] \in Seq(Message) /\ down[conn] # <<>> /\ conn \in Conns
  BY DEF TypeOK, Arrived
<1> HIDE DEF Message
<1> QED
  BY <1>1, FirstOf, ZenonT(30)

\* Taking a message keeps the type of what is in flight.
LEMMA ConsumesType ==
  ASSUME TypeOK, NEW is, Arrived(is), Consumes
  PROVE  down' \in [Conns -> Seq(Message)]
<1> USE DEF TypeOK
<1> HIDE DEF Message
<1> QED
  BY ArrivedType DEF Consumes

\* A client that hangs up keeps its types.
LEMMA HangsUpType ==
  ASSUME TypeOK, HangsUp
  PROVE  /\ cgone' \in [Conns -> BOOLEAN] /\ cpc' = "none" /\ conn' = conn
         /\ head' \in Message /\ opened' \in Message /\ data' \in Seq(Nat)
BY Constants DEF TypeOK, HangsUp, Goes

\* The payload of a message is a sequence of bytes.
LEMMA BytesType ==
  ASSUME NEW m \in Message, m.n <= m.to
  PROVE  /\ Bytes(m) \in Seq(Nat) /\ Len(Bytes(m)) = m.n
         /\ \A i \in 1..m.n : Bytes(m)[i] = m.to - m.n + i
<1>1. m.n \in Nat /\ m.to \in Nat
  BY DEF Message
<1>2. \A i \in 1..m.n : m.to - m.n + i \in Nat
  BY <1>1
<1>3. Bytes(m) \in [1..m.n -> Nat]
  BY <1>2 DEF Bytes
<1>4. Bytes(m) \in Seq(Nat) /\ Len(Bytes(m)) = m.n
  BY <1>1, <1>3
<1> QED
  BY <1>4, ZenonT(30) DEF Bytes

\* The bytes that have arrived can be appended.
LEMMA AllType ==
  ASSUME TypeOK, Arrived({"payload"}), Head(down[conn]).n <= Head(down[conn]).to
  PROVE  got \o Bytes(Head(down[conn])) \in Seq(Nat) /\ data \o Bytes(Head(down[conn])) \in Seq(Nat)
<1>1. Bytes(Head(down[conn])) \in Seq(Nat)
  BY ArrivedType, BytesType
<1>2. got \in Seq(Nat) /\ data \in Seq(Nat)
  BY DEF TypeOK
<1> QED
  BY <1>1, <1>2, ConcatProperties

\* So does one that returns a blob.
LEMMA FinishType ==
  ASSUME TypeOK, NEW all \in Seq(Nat), Finish(all)
  PROVE  /\ cgone' \in [Conns -> BOOLEAN] /\ cpc' = "none" /\ conn' = conn /\ req' = req
         /\ head' \in Message /\ opened' \in Message /\ data' \in Seq(Nat)
         /\ value' \in [to : Nat, data : Seq(Nat)]
<1>1. opened.to \in Nat
  BY DEF TypeOK, Message
<1>2. value' \in [to : Nat, data : Seq(Nat)]
  BY <1>1 DEF TypeOK, Finish
<1> QED
  BY <1>2, HangsUpType DEF Finish

\* Every message the client takes keeps the types, if no payload is longer than what precedes its end.
LEMMA TypeReceive ==
  ASSUME TypeOK, Receive,
         cpc = "payload" /\ Arrived({"payload"}) => Head(down[conn]).n <= Head(down[conn]).to
  PROVE  TypeOK'
<1> DEFINE m == Head(down[conn])
<1>1. ASSUME NEW is, Arrived(is) PROVE m \in Message /\ m.n \in Nat /\ m.to \in Nat
  BY <1>1, ArrivedType DEF Message
<1> HIDE DEF m
<1>2. CASE Opened
  <2>1. down' \in [Conns -> Seq(Message)] /\ m \in Message /\ m.to \in Nat
    BY <1>1, <1>2, ConsumesType DEF Opened
  <2>2. CASE HangsUp /\ UNCHANGED <<req, cursor>>
    BY <1>2, <2>1, <2>2, HangsUpType, ZenonT(30) DEF TypeOK, Opened, logVars, serverVars
  <2>3. CASE cursor' = m.to /\ Goes("open") /\ UNCHANGED <<req, cgone, callVars>>
    BY <1>2, <2>1, <2>3, ZenonT(30) DEF TypeOK, Opened, Goes, callVars, logVars, serverVars
  <2>4. CASE opened' = m /\ Asks /\ Goes("await") /\ UNCHANGED <<cgone, cursor, head, data>>
    BY <1>2, <2>1, <2>4, ZenonT(30) DEF TypeOK, Opened, Asks, Goes, logVars, serverVars
  <2> QED
    BY <1>2, <2>2, <2>3, <2>4 DEF Opened, m
<1>3. CASE Line
  <2>1. down' \in [Conns -> Seq(Message)] /\ m \in Message /\ m.to \in Nat
    BY <1>1, <1>3, ConsumesType DEF Line
  <2>2. head' = m /\ (cursor' = m.to \/ cursor' = cursor) /\ cpc' \in {"open", "payload"} /\ conn' = conn
    BY <1>3 DEF Line, LineCursor, Goes, m
  <2> QED
    BY <1>3, <2>1, <2>2, ZenonT(30) DEF TypeOK, Line, logVars, serverVars
<1>4. CASE Payload
  <2>1. down' \in [Conns -> Seq(Message)] /\ got' \in Seq(Nat)
    BY <1>4, ConsumesType, AllType DEF Payload
  <2>2. head.to \in Nat
    BY DEF TypeOK, Message
  <2> QED
    BY <1>4, <2>1, <2>2, Constants, ZenonT(30) DEF TypeOK, Payload, Goes, logVars, serverVars
<1>5. CASE BlobLine
  <2>1. down' \in [Conns -> Seq(Message)] /\ m \in Message /\ data \in Seq(Nat)
    BY <1>1, <1>5, ConsumesType DEF BlobLine, TypeOK
  <2>2. CASE HangsUp /\ UNCHANGED <<req, value>>
    BY <1>5, <2>1, <2>2, HangsUpType, ZenonT(30) DEF TypeOK, BlobLine, logVars, serverVars
  <2>3. CASE Finish(data)
    BY <1>5, <2>1, <2>3, FinishType, ZenonT(30) DEF TypeOK, BlobLine, logVars, serverVars
  <2>4. CASE head' = m /\ Goes("payload") /\ UNCHANGED <<req, cgone, opened, data, value>>
    BY <1>5, <2>1, <2>4 DEF TypeOK, BlobLine, Goes, logVars, serverVars
  <2> QED
    BY <1>5, <2>2, <2>3, <2>4 DEF BlobLine, m
<1>6. CASE BlobPayload
  <2> DEFINE all == data \o Bytes(Head(down[conn]))
  <2>1. down' \in [Conns -> Seq(Message)] /\ all \in Seq(Nat)
    BY <1>6, ConsumesType, AllType DEF BlobPayload
  <2> HIDE DEF all
  <2>2. CASE Finish(all)
    BY <1>6, <2>1, <2>2, FinishType, ZenonT(30) DEF TypeOK, BlobPayload, logVars, serverVars
  <2>3. CASE data' = all /\ head' = Blank /\ Asks /\ Goes("await") /\ UNCHANGED <<cgone, opened, value>>
    BY <1>6, <2>1, <2>3, Constants, ZenonT(30) DEF TypeOK, BlobPayload, Asks, Goes, logVars, serverVars
  <2> QED
    BY <1>6, <2>2, <2>3 DEF BlobPayload, all
<1>7. ASSUME Fails PROVE /\ cgone' \in [Conns -> BOOLEAN] /\ cpc' \in {"none", "open"} /\ conn' = conn
                        /\ head' \in Message /\ opened' \in Message /\ data' \in Seq(Nat)
  <2>1. CASE HangsUp
    BY <2>1, HangsUpType
  <2>2. CASE Goes("open") /\ UNCHANGED <<cgone, callVars>>
    BY <2>2 DEF TypeOK, Goes, callVars
  <2> QED
    BY <1>7, <2>1, <2>2 DEF Fails
<1>8. CASE Refused
  <2>1. down' \in [Conns -> Seq(Message)]
    BY <1>8, ConsumesType DEF Refused
  <2>2. lost' \subseteq Nat
    <3>1. lost \subseteq Nat /\ cursor \in Nat /\ at[conn] \in Nat
      BY DEF TypeOK
    <3>2. cursor + 1..at[conn] \subseteq Nat
      BY <3>1
    <3> QED
      BY <1>8, <3>1, <3>2 DEF Refused
  <2> QED
    BY <1>7, <1>8, <2>1, <2>2, ZenonT(30) DEF TypeOK, Refused, logVars, serverVars
<1>9. CASE Lost
  BY <1>7, <1>9, ZenonT(30) DEF TypeOK, Lost, Kept, logVars, serverVars
<1> QED
  BY <1>2, <1>3, <1>4, <1>5, <1>6, <1>8, <1>9 DEF Receive
=============================================================================
