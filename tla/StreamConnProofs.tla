---------------------------- MODULE StreamConnProofs ----------------------------
(***************************************************************************)
(* What StreamInvariant says of every connection is kept by every step,    *)
(* and no step but a client's hanging up lets a context be cancelled.      *)
(***************************************************************************)
EXTENDS StreamInvariant

-----------------------------------------------------------------------------
\* Whose step it is.

\* What a step leaves of a connection.
Same(d) == /\ spc'[d] = spc[d] /\ mon'[d] = mon[d] /\ stop'[d] = stop[d] /\ deadline'[d] = deadline[d]
           /\ at'[d] = at[d] /\ snap'[d] = snap[d] /\ reply'[d] = reply[d] /\ sgone'[d] = sgone[d]
           /\ kind'[d] = kind[d] /\ down'[d] = down[d] /\ req'[d] = req[d]

\* What holds of a connection depends on its own state alone.
LEMMA HandledSame ==
  ASSUME NEW d \in Conns, Handled(d), Same(d)
  PROVE  Handled(d)'
BY DEF Handled, Same, Unwatched, Monitored, Stopping, Unhurried, Within, Unopened, Gone, Unused

\* A handler's step is its own: it changes nothing of another connection or of the client.
Own(c) == /\ \A d \in Conns \ {c} : Same(d)
          /\ UNCHANGED <<logVars, clientVars, cancelled, kind, cgone>>
          /\ ~Unused(c) /\ ~Unused(c)'

\* The same, of what a handler keeps for its connection.
Alone(c) == \A d \in Conns \ {c} : /\ spc'[d] = spc[d] /\ stop'[d] = stop[d] /\ at'[d] = at[d]
                                /\ snap'[d] = snap[d] /\ reply'[d] = reply[d] /\ sgone'[d] = sgone[d]
\* A handler that returns touches its own connection alone.
LEMMA LeavesAlone == ASSUME TypeOK, NEW c \in Conns, Leaves(c) PROVE Alone(c) /\ spc'[c] = "left"
BY DEF Alone, TypeOK, Leaves, Steps

\* So does one that only moves on,
LEMMA StepsAlone ==
  ASSUME TypeOK, NEW c \in Conns, NEW next, Steps(c, next), UNCHANGED localVars
  PROVE  Alone(c) /\ spc'[c] = next
BY DEF Alone, TypeOK, Steps, localVars

\* one that has sent its response,
LEMMA RestsAlone == ASSUME TypeOK, NEW c \in Conns, Rests(c) PROVE Alone(c) /\ ~Unused(c)'
<1>1. CASE reply[c].last
  BY <1>1, LeavesAlone DEF Rests, Unused
<1>2. CASE ~reply[c].last
  BY <1>2, StepsAlone DEF Rests, Unused
<1> QED
  BY <1>1, <1>2

\* and one that has made it.
LEMMA AnswersAlone ==
  ASSUME TypeOK, NEW c \in Conns, NEW next, NEW m, Answers(c, m, next)
  PROVE  /\ \A d \in Conns \ {c} : spc'[d] = spc[d] /\ reply'[d] = reply[d]
         /\ spc'[c] = next /\ reply'[c] = m
BY DEF TypeOK, Answers, Steps

\* An operation that has returned has made one, and wakes the monitor it has.
LEMMA ReturnsAnswers ==
  ASSUME NEW c \in Conns, Returns(c)
  PROVE  \E m : Answers(c, m, IF Monitored(c) THEN "wake" ELSE "line")
<1>1. CASE ReadsBytes(c) \/ ReadsEnd(c) \/ Captures(c) \/ Waited(c)
  <2>1. \E m : Answers(c, m, "wake")
    BY <1>1, ZenonT(30) DEF ReadsBytes, ReadsEnd, Captures, Waited
  <2>2. kind[c] \in {"output", "blob", "wait"}
    BY <1>1, ZenonT(30) DEF ReadsBytes, ReadsEnd, Captures, Waited, Reader
  <2>3. Monitored(c)
    BY <2>2 DEF Monitored
  <2> QED
    BY <2>1, <2>3, ZenonT(30)
<1>2. CASE Wrote(c)
  <2>1. ~Monitored(c) /\ Answers(c, Blank, "line")
    BY <1>2, ZenonT(30) DEF Wrote, Monitored
  <2> QED
    BY <2>1, ZenonT(30)
<1>3. CASE Fault(c)
  BY <1>3, ZenonT(30) DEF Fault, Errs
<1> QED
  BY <1>1, <1>2, <1>3 DEF Returns

\* Every step of a handler is its own.
LEMMA HandlerOwn ==
  ASSUME TypeOK, NEW c \in Conns, Serves(c)
  PROVE  Own(c)
<1> USE DEF Own, Same
<1>1. CASE Accept(c)
  <2>1. ~Unused(c) /\ ~Unused(c)'
    BY <1>1, LeavesAlone, StepsAlone DEF Accept, Unused
  <2>2. Alone(c)
    BY <1>1, LeavesAlone, StepsAlone DEF Accept
  <2> QED
    BY <1>1, <2>1, <2>2 DEF Alone, Accept, wireVars
<1>2. CASE HangUp(c)
  <2>1. ~Unused(c) /\ ~Unused(c)'
    BY <1>2, LeavesAlone DEF HangUp, Awaits, Unused
  <2>2. Alone(c)
    BY <1>2, LeavesAlone DEF HangUp
  <2> QED
    BY <1>2, <2>1, <2>2 DEF Alone, HangUp, wireVars
<1>3. CASE Idle(c)
  <2>1. ~Unused(c) /\ ~Unused(c)'
    BY <1>3, LeavesAlone DEF Idle, Awaits, Unused
  <2>2. Alone(c)
    BY <1>3, LeavesAlone DEF Idle
  <2> QED
    BY <1>3, <2>1, <2>2 DEF Alone, Idle, Sends, TypeOK
<1>4. CASE OpenOutput(c)
  <2>1. PICK m : Answers(c, m, "line")
    BY <1>4, ZenonT(30) DEF OpenOutput
  <2>2. /\ \A d \in Conns \ {c} : spc'[d] = spc[d] /\ reply'[d] = reply[d]
        /\ ~Unused(c) /\ ~Unused(c)'
    BY <1>4, <2>1, AnswersAlone DEF OpenOutput, Unused
  <2>3. \A d \in Conns \ {c} : req'[d] = req[d]
    BY <1>4 DEF OpenOutput, Takes, TypeOK
  <2> QED
    BY <1>4, <2>2, <2>3 DEF OpenOutput
<1>5. CASE Start(c)
  BY <1>5 DEF TypeOK, Start, Takes, Steps, Unused
<1>6. CASE Chunk(c)
  BY <1>6 DEF TypeOK, Chunk, Takes, Answers, Steps, Unused
<1>7. CASE Done(c) /\ Returns(c)
  <2>1. PICK m : Answers(c, m, IF Monitored(c) THEN "wake" ELSE "line")
    BY <1>7, ReturnsAnswers, ZenonT(30)
  <2>2. \A d \in Conns \ {c} : at'[d] = at[d] /\ snap'[d] = snap[d]
    <3>1. CASE ReadsBytes(c)
      BY <3>1 DEF TypeOK, ReadsBytes
    <3>2. CASE ReadsEnd(c) \/ Captures(c) \/ Waited(c) \/ Wrote(c)
      BY <3>2, ZenonT(30) DEF TypeOK, ReadsEnd, Captures, Waited, Wrote
    <3>3. CASE Fault(c)
      BY <3>3 DEF TypeOK, Fault, Errs
    <3> QED
      BY <1>7, <3>1, <3>2, <3>3 DEF Returns
  <2>3. /\ \A d \in Conns \ {c} : spc'[d] = spc[d] /\ reply'[d] = reply[d]
        /\ spc[c] = "work" /\ spc'[c] \in {"wake", "line"}
    BY <1>7, <2>1, AnswersAlone DEF Done
  <2> QED
    BY <1>7, <2>2, <2>3 DEF TypeOK, Done, wireVars, Unused
<1>8. CASE Work(c) \/ Refuse(c) \/ Drain(c)
  BY <1>7, <1>8, OperationEnds
<1>9. CASE Wake(c)
  BY <1>9 DEF TypeOK, Wake, Steps, Unused, wireVars
<1>10. CASE Join(c)
  BY <1>10 DEF TypeOK, Join, Steps, Unused, wireVars
<1>11. CASE SendLine(c)
  <2>1. ~Unused(c) /\ ~Unused(c)'
    BY <1>11, LeavesAlone, StepsAlone, RestsAlone DEF SendLine, Unused
  <2>2. \A d \in Conns \ {c} : down'[d] = down[d]
    BY <1>11 DEF SendLine, Sends, TypeOK
  <2>3. Alone(c)
    BY <1>11, LeavesAlone, StepsAlone, RestsAlone DEF SendLine
  <2> QED
    BY <1>11, <2>1, <2>2, <2>3 DEF Alone, SendLine
<1>12. CASE SendPayload(c)
  <2>1. ~Unused(c) /\ ~Unused(c)'
    BY <1>12, LeavesAlone, RestsAlone, ZenonT(30) DEF SendPayload, Unused
  <2>2. \A d \in Conns \ {c} : down'[d] = down[d]
    BY <1>12, ZenonT(30) DEF SendPayload, Sends, TypeOK
  <2>3. Alone(c)
    BY <1>12, LeavesAlone, RestsAlone, ZenonT(30) DEF SendPayload
  <2> QED
    BY <1>12, <2>1, <2>2, <2>3 DEF Alone, SendPayload
<1> QED
  BY <1>1, <1>2, <1>3, <1>4, <1>5, <1>6, <1>8, <1>9, <1>10, <1>11, <1>12, ZenonT(30) DEF Serves, Handler

-----------------------------------------------------------------------------
\* The handshake of a handler with its monitor.

\* A connection whose handler has returned, and one whose handler is past its operation.
LEMMA HandledLeft ==
  ASSUME TypeOK, NEW c \in Conns, Handled(c), Leaves(c), mon'[c] = mon[c],
         spc[c] \notin {"work", "wake", "join"}
  PROVE  Handled(c)'
<1>1. spc'[c] = "left" /\ sgone'[c] = TRUE /\ at'[c] = 0
  BY DEF TypeOK, Leaves, Steps
<1> QED
  BY <1>1 DEF Handled, Unwatched, Monitored, Stopping, Unhurried, Within, Unopened, Gone, Unused

\* A handler that has sent its response is unwatched, and within its blob if it goes on.
LEMMA HandledRests ==
  ASSUME TypeOK, NEW c \in Conns, Handled(c), Rests(c), mon'[c] = mon[c], kind'[c] = kind[c],
         spc[c] \in {"line", "payload"}
  PROVE  Handled(c)'
<1>1. CASE reply[c].last
  BY <1>1, HandledLeft DEF Rests
<1>2. CASE ~reply[c].last
  <2>1. spc'[c] \in {"first", "next"} /\ at'[c] = at[c] /\ snap'[c] = snap[c] /\ sgone'[c] = sgone[c]
    BY <1>2 DEF TypeOK, Rests, Steps, localVars
  <2> QED
    BY <1>2, <2>1 DEF Handled, Unwatched, Monitored, Stopping, Unhurried, Within, Unopened, Gone, Unused
<1> QED
  BY <1>1, <1>2

\* An operation that returns closes stop, if it is watched, and stays within its blob or answers
\* for the last time.
LEMMA HandledWork ==
  ASSUME TypeOK, NEW c \in Conns, Handled(c), Done(c), Returns(c)
  PROVE  Handled(c)'
<1>1. /\ spc[c] = "work" /\ stop'[c] = Monitored(c) /\ deadline'[c] = deadline[c] /\ sgone'[c] = sgone[c]
      /\ mon'[c] = mon[c] /\ kind'[c] = kind[c]
  BY DEF TypeOK, Done, wireVars
<1>2. (spc'[c] = "wake" /\ Monitored(c)) \/ (spc'[c] = "line" /\ kind[c] = "input")
  <2>1. PICK m : Answers(c, m, IF Monitored(c) THEN "wake" ELSE "line")
    BY ReturnsAnswers, ZenonT(30)
  <2>2. spc'[c] = IF Monitored(c) THEN "wake" ELSE "line"
    BY <2>1, AnswersAlone, ZenonT(30)
  <2> QED
    BY <2>1, <2>2 DEF Monitored
<1>3. kind[c] = "blob" => at'[c] <= snap'[c] \/ reply'[c].last
  <2>1. CASE ReadsBytes(c) \/ ReadsEnd(c) \/ Waited(c) \/ Wrote(c)
    BY <2>1 DEF ReadsBytes, ReadsEnd, Waited, Wrote, Reader
  <2>2. CASE Captures(c)
    BY <2>2 DEF TypeOK, Captures
  <2>3. CASE Fault(c)
    <3>1. reply'[c] = Error(kind[c] = "blob")
      BY <2>3, AnswersAlone, ZenonT(30) DEF Fault, Errs
    <3> DEFINE b == kind[c] = "blob"
    <3>2. b \in BOOLEAN /\ reply'[c] = Error(b)
      BY <3>1
    <3> HIDE DEF b
    <3>3. reply'[c].last = b
      BY <3>2 DEF Error, Msg
    <3> QED
      BY <3>3, ZenonT(30) DEF b
  <2> QED
    BY <2>1, <2>2, <2>3 DEF Returns
<1> QED
  BY <1>1, <1>2, <1>3 DEF Handled, Unwatched, Monitored, Stopping, Unhurried, Within, Unopened, Gone, Unused

\* Every step of a handler keeps what holds of its connection.
LEMMA HandledHandler ==
  ASSUME TypeOK, NEW c \in Conns, Handled(c), Serves(c)
  PROVE  Handled(c)'
<1>1. CASE Accept(c)
  <2>1. CASE Steps(c, "first") /\ UNCHANGED localVars
    <3>1. spc[c] = "dialled" /\ spc'[c] = "first" /\ mon'[c] = mon[c] /\ sgone'[c] = sgone[c]
      BY <1>1, <2>1 DEF TypeOK, Accept, Steps, localVars
    <3> QED
      BY <3>1 DEF Handled, Unwatched, Monitored, Stopping, Unhurried, Within, Unopened, Gone, Unused
  <2>2. CASE Leaves(c)
    BY <1>1, <2>2, HandledLeft DEF Accept
  <2> QED
    BY <1>1, <2>1, <2>2 DEF Accept
<1>2. CASE HangUp(c)
  BY <1>2, HandledLeft DEF HangUp, Awaits
<1>3. CASE Idle(c)
  BY <1>3, HandledLeft DEF Idle, Awaits
<1>4. CASE OpenOutput(c)
  <2>1. spc[c] = "first" /\ spc'[c] = "line" /\ mon'[c] = mon[c] /\ sgone'[c] = sgone[c] /\ kind'[c] = "output"
    BY <1>4, AnswersAlone, ZenonT(30) DEF OpenOutput, Reader
  <2> QED
    BY <2>1 DEF Handled, Unwatched, Monitored, Stopping, Unhurried, Within, Unopened, Gone, Unused
<1>5. CASE Start(c)
  <2>1. /\ spc[c] # "left" /\ spc'[c] = "work" /\ deadline'[c] = "none" /\ sgone'[c] = sgone[c]
        /\ kind'[c] = kind[c] /\ (~Monitored(c) => mon'[c] = "off")
    BY <1>5 DEF TypeOK, Start, Steps, Watches
  <2>2. Monitored(c)' = Monitored(c)
    BY <2>1 DEF Monitored
  <2> QED
    BY <2>1, <2>2 DEF Handled, Unwatched, Stopping, Unhurried, Within, Unopened, Gone, Unused
<1>6. CASE Chunk(c)
  <2>1. /\ spc[c] = "next" /\ spc'[c] = "line" /\ mon'[c] = mon[c] /\ sgone'[c] = sgone[c]
        /\ kind[c] = "blob" /\ kind'[c] = kind[c] /\ snap'[c] = snap[c]
        /\ at'[c] = at[c] + ChunkBytes(c)
    <3>1. /\ spc[c] = "next" /\ mon' = mon /\ sgone' = sgone /\ kind[c] = "blob" /\ kind' = kind
          /\ snap' = snap /\ at' = [at EXCEPT ![c] = at[c] + ChunkBytes(c)]
      BY <1>6, ZenonT(30) DEF Chunk
    <3>2. spc'[c] = "line"
      BY <1>6, AnswersAlone, ZenonT(30) DEF Chunk
    <3>3. at'[c] = at[c] + ChunkBytes(c)
      BY <3>1, ZenonT(30) DEF TypeOK
    <3> QED
      BY <3>1, <3>2, <3>3, ZenonT(30)
  <2>2. at[c] \in Nat /\ snap[c] \in Nat /\ at[c] <= snap[c] /\ MaxChunk \in Nat
    BY <2>1, StreamAssumption DEF TypeOK, Handled, Within
  <2>3. at'[c] <= snap'[c]
    BY <2>1, <2>2 DEF ChunkBytes, Lesser
  <2> QED
    BY <2>1, <2>3, ZenonT(30) DEF Handled, Unwatched, Monitored, Stopping, Unhurried, Within, Unopened, Gone, Unused
<1>7. CASE Work(c) \/ Refuse(c) \/ Drain(c)
  BY <1>7, OperationEnds, HandledWork
<1>9. CASE Wake(c)
  <2>1. /\ spc[c] = "wake" /\ spc'[c] = "join" /\ stop'[c] = stop[c] /\ sgone'[c] = sgone[c] /\ mon'[c] = mon[c]
        /\ kind'[c] = kind[c] /\ at'[c] = at[c] /\ snap'[c] = snap[c] /\ reply'[c] = reply[c]
    BY <1>9 DEF TypeOK, Wake, Steps, wireVars
  <2> QED
    BY <2>1 DEF Handled, Unwatched, Monitored, Stopping, Unhurried, Within, Unopened, Gone, Unused
<1>10. CASE Join(c)
  <2>1. /\ spc[c] = "join" /\ spc'[c] = "line" /\ mon'[c] = "off" /\ sgone'[c] = sgone[c]
        /\ kind'[c] = kind[c] /\ at'[c] = at[c] /\ snap'[c] = snap[c] /\ reply'[c] = reply[c]
    BY <1>10 DEF TypeOK, Join, Steps, wireVars
  <2> QED
    BY <2>1 DEF Handled, Unwatched, Monitored, Stopping, Unhurried, Within, Unopened, Gone, Unused
<1>11. CASE SendLine(c)
  <2>1. spc[c] = "line" /\ mon'[c] = mon[c] /\ kind'[c] = kind[c]
    BY <1>11 DEF SendLine
  <2>2. CASE Steps(c, "payload") /\ UNCHANGED localVars
    <3>1. /\ spc'[c] = "payload" /\ sgone'[c] = sgone[c] /\ at'[c] = at[c] /\ snap'[c] = snap[c]
          /\ reply'[c] = reply[c]
      BY <2>2 DEF TypeOK, Steps, localVars
    <3> QED
      BY <2>1, <3>1 DEF Handled, Unwatched, Monitored, Stopping, Unhurried, Within, Unopened, Gone, Unused
  <2> QED
    BY <1>11, <2>1, <2>2, HandledLeft, HandledRests DEF SendLine
<1>12. CASE SendPayload(c)
  BY <1>12, HandledLeft, HandledRests, ZenonT(30) DEF SendPayload
<1> QED
  BY <1>1, <1>2, <1>3, <1>4, <1>5, <1>6, <1>7, <1>9, <1>10, <1>11, <1>12 DEF Serves, Handler

\* And what holds of all connections.
LEMMA ConnHandler ==
  ASSUME TypeOK, ConnInv, NEW c \in Conns, Serves(c)
  PROVE  ConnInv'
<1>1. Own(c) /\ Handled(c)'
  BY HandlerOwn, HandledHandler DEF ConnInv
<1>2. ASSUME NEW d \in Conns PROVE Handled(d)'
  BY <1>1, HandledSame DEF ConnInv, Own
<1>3. InUse'
  BY <1>1, ZenonT(30) DEF Own, Same, ConnInv, InUse, Unused, clientVars, TypeOK
<1> QED
  BY <1>2, <1>3 DEF ConnInv

\* A monitor ends, or clears the deadline, only of its own handler.
LEMMA ConnMonitor ==
  ASSUME TypeOK, ConnInv, NEW c \in Conns, Monitor(c)
  PROVE  ConnInv'
<1>1. /\ UNCHANGED <<spc, stop, at, snap, reply, sgone, wireVars, clientVars>> /\ mon[c] # "off"
      /\ \A d \in Conns \ {c} : mon'[d] = mon[d] /\ deadline'[d] = deadline[d]
      /\ deadline'[c] \in {deadline[c], "none"}
  <2>1. CASE Check(c) \/ Recheck(c)
    BY <2>1, ZenonT(30) DEF Check, Recheck, Watch, TypeOK
  <2>2. CASE Clear(c)
    BY <2>2 DEF Clear, Watch, TypeOK
  <2>3. CASE Watched(c)
    BY <2>3 DEF Watched, Watch, TypeOK
  <2> QED
    BY <2>1, <2>2, <2>3, ZenonT(30) DEF Monitor
<1>2. Handled(c)'
  <2>1. spc[c] \in {"work", "wake", "join"}
    BY <1>1, ZenonT(30) DEF ConnInv, Handled, Unwatched
  <2>2. Monitored(c)
    BY <1>1, ZenonT(30) DEF ConnInv, Handled, Unwatched
  <2> QED
    BY <1>1, <2>1, <2>2, ZenonT(30) DEF ConnInv, Handled, Unwatched, Monitored, Stopping, Unhurried, Within, Unopened, Gone, Unused, wireVars
<1>3. ASSUME NEW d \in Conns, d # c PROVE Handled(d)'
  <2>1. Same(d)
    BY <1>1, <1>3, ZenonT(30) DEF Same, wireVars
  <2> QED
    BY <2>1, HandledSame DEF ConnInv
<1>4. InUse'
  BY <1>1, ZenonT(30) DEF ConnInv, InUse, Unused, clientVars
<1> QED
  BY <1>2, <1>3, <1>4 DEF ConnInv

\* A client's step changes what is in flight on the connection it uses, and nothing else
\* of a connection.
LEMMA ConnClient ==
  ASSUME TypeOK, ConnInv, Write \/ End \/ Read \/ Receive \/ Close
  PROVE  ConnInv'
<1>1. CASE Write \/ End
  <2>1. UNCHANGED <<serverVars, wireVars, clientVars>>
    BY <1>1 DEF Write, End
  <2> QED
    BY <2>1, ZenonT(30) DEF serverVars, wireVars, clientVars, ConnInv, Handled, InUse, Unwatched, Monitored, Stopping, Unhurried, Within, Unopened, Gone, Unused
<1>2. CASE Read \/ Receive \/ Close
  <2>1. UNCHANGED <<serverVars, kind, conn>> /\ cpc # "none"
    BY <1>2, ZenonT(30) DEF Read, Receive, Close, Opened, Line, Payload, BlobLine, BlobPayload, Refused, Lost, Goes, HangsUp, Finish, Fails
  <2>2. \A d \in Conns \ {conn} : down'[d] = down[d] /\ req'[d] = req[d]
    BY <1>2, ZenonT(30) DEF TypeOK, Read, Receive, Close, Opened, Line, Payload, BlobLine, BlobPayload, Refused, Lost, Consumes, Asks, Finish
  <2>3. ASSUME NEW d \in Conns PROVE Handled(d)'
    BY <2>1, <2>2 DEF serverVars, ConnInv, Handled, InUse, Unwatched, Monitored, Stopping, Unhurried, Within, Unopened, Gone, Unused
  <2>4. InUse'
    BY <2>1 DEF serverVars, ConnInv, InUse, Unused
  <2> QED
    BY <2>3, <2>4 DEF ConnInv
<1> QED
  BY <1>1, <1>2

\* No connection is dialled at first.
LEMMA ConnInit == Init => ConnInv
BY DEF Init, ConnInv, InUse, Handled, Unwatched, Monitored, Stopping, Unhurried, Within, Unopened, Gone, Unused

\* The end of the process leaves every handler and no monitor.
LEMMA ConnExit == ASSUME TypeOK, ConnInv, Exit PROVE ConnInv'
<1>1. ASSUME NEW d \in Conns PROVE Handled(d)'
  <2>1. /\ spc'[d] = (IF Unused(d) THEN "unused" ELSE "left") /\ sgone'[d] = ~Unused(d)
        /\ mon'[d] = "off" /\ at'[d] = 0 /\ down'[d] = down[d] /\ req'[d] = req[d]
    BY DEF Exit, wireVars
  <2>2. CASE Unused(d)
    BY <2>1, <2>2, ZenonT(30) DEF ConnInv, Handled, Unwatched, Monitored, Stopping, Unhurried, Within, Unopened, Gone, Unused
  <2>3. CASE ~Unused(d)
    BY <2>1, <2>3, ZenonT(30) DEF ConnInv, Handled, Unwatched, Monitored, Stopping, Unhurried, Within, Unopened, Gone, Unused
  <2> QED
    BY <2>2, <2>3
<1>2. InUse'
  BY DEF Exit, ConnInv, InUse, Unused, clientVars, TypeOK
<1> QED
  BY <1>1, <1>2 DEF ConnInv

\* What dialling does to the connection it takes.
LEMMA Dialled ==
  ASSUME TypeOK, Dial
  PROVE  \E c \in Conns :
           /\ Unused(c) /\ conn' = c /\ cpc' = "opening" /\ spc' = [spc EXCEPT ![c] = "dialled"]
           /\ req' = [req EXCEPT ![c] = TRUE] /\ at' = [at EXCEPT ![c] = cursor]
           /\ kind'[c] \in {"output", "blob", "wait", "input"} /\ \A d \in Conns \ {c} : kind'[d] = kind[d]
<1> DEFINE c == CHOOSE d \in Conns : Unused(d)
<1>1. c \in Conns /\ Unused(c)
  BY DEF Dial
<1>2. PICK k \in Opens[c] :
         /\ conn' = c /\ cpc' = "opening" /\ kind' = [kind EXCEPT ![c] = k]
         /\ req' = [req EXCEPT ![c] = TRUE] /\ at' = [at EXCEPT ![c] = cursor]
         /\ spc' = [spc EXCEPT ![c] = "dialled"]
  BY ZenonT(30) DEF Dial, Steps
<1>3. k \in {"output", "blob", "wait", "input"}
  BY <1>1, StreamAssumption
<1> HIDE DEF c
<1>4. kind'[c] = k /\ \A d \in Conns \ {c} : kind'[d] = kind[d]
  BY <1>1, <1>2 DEF TypeOK
<1> QED
  BY <1>1, <1>2, <1>3, <1>4, ZenonT(30)

\* A connection that is dialled has only its request.
LEMMA ConnDial == ASSUME TypeOK, ConnInv, Dial PROVE ConnInv'
<1>1. PICK c \in Conns :
           /\ Unused(c) /\ conn' = c /\ cpc' = "opening" /\ spc' = [spc EXCEPT ![c] = "dialled"]
           /\ req' = [req EXCEPT ![c] = TRUE] /\ at' = [at EXCEPT ![c] = cursor]
           /\ kind'[c] \in {"output", "blob", "wait", "input"} /\ \A d \in Conns \ {c} : kind'[d] = kind[d]
  BY Dialled, ZenonT(30)
<1>2. UNCHANGED <<mon, stop, deadline, snap, reply, sgone, down>>
  BY DEF Dial
<1>3. ASSUME NEW d \in Conns, d # c PROVE Handled(d)'
  <2>1. Same(d)
    BY <1>1, <1>2, <1>3 DEF Same, TypeOK
  <2> QED
    BY <2>1, HandledSame DEF ConnInv
<1>4. spc'[c] = "dialled"
  BY <1>1 DEF TypeOK
<1>5. Handled(c)'
  BY <1>1, <1>2, <1>4, ZenonT(30) DEF ConnInv, Handled, Unwatched, Monitored, Stopping, Unhurried, Within, Unopened, Gone, Unused
<1>6. InUse'
  BY <1>1, <1>4 DEF InUse, Unused
<1> QED
  BY <1>3, <1>5, <1>6 DEF ConnInv

\* A context is cancelled only by a monitor that finds stop open, and then its read ended
\* because the client had hung up; no client comes back.
LEMMA CancelsStep ==
  ASSUME TypeOK, ConnInv, OnlyHangUpCancels, [Next]_vars
  PROVE  OnlyHangUpCancels'
<1> SUFFICES ASSUME NEW d \in Conns, cancelled'[d] PROVE cgone'[d]
  BY DEF OnlyHangUpCancels
<1>1. cgone[d] => cgone'[d]
  <2>1. CASE UNCHANGED cgone
    BY <2>1
  <2>2. CASE HangsUp
    BY <2>2 DEF TypeOK, HangsUp
  <2>3. UNCHANGED cgone \/ HangsUp
    <3>1. ASSUME NEW c \in Conns, Serves(c) PROVE UNCHANGED cgone
      BY <3>1, HandlerOwn DEF Own
    <3>2. ASSUME NEW c \in Conns, Monitor(c) PROVE UNCHANGED cgone
      BY <3>2 DEF Monitor, Check, Clear, Recheck, Watched, Watch, wireVars
    <3>3. CASE Write \/ End \/ Exit \/ Dial \/ Read
      BY <3>3, ZenonT(30) DEF Write, End, Exit, Dial, Read, wireVars
    <3>4. CASE Receive \/ Close
      BY <3>4, ZenonT(30) DEF Receive, Close, Opened, Line, Payload, BlobLine, BlobPayload, Refused, Lost, Finish, Fails
    <3>5. CASE UNCHANGED vars
      BY <3>5 DEF vars, wireVars
    <3> QED
      BY <3>1, <3>2, <3>3, <3>4, <3>5 DEF Next, Serves
  <2> QED
    BY <2>1, <2>2, <2>3
<1>2. CASE cancelled[d]
  BY <1>1, <1>2 DEF OnlyHangUpCancels
<1>3. CASE ~cancelled[d]
  <2>1. PICK c \in Conns : Monitor(c)
    <3>1. ASSUME NEW c \in Conns, Serves(c) PROVE UNCHANGED cancelled
      BY <3>1, HandlerOwn DEF Own
    <3>2. CASE Write \/ End \/ Exit \/ Dial \/ Read \/ Receive \/ Close
      BY <1>3, <3>2, ZenonT(30) DEF Write, End, Exit, Dial, Read, Receive, Close, Opened, Line, Payload, BlobLine, BlobPayload, Refused, Lost, serverVars
    <3>3. CASE UNCHANGED vars
      BY <1>3, <3>3 DEF vars, serverVars
    <3> QED
      BY <1>3, <3>1, <3>2, <3>3 DEF Next, Serves
  <2>2. Watched(c) /\ c = d /\ ~stop[d]
    BY <1>3, <2>1 DEF TypeOK, Monitor, Check, Clear, Recheck, Watched, Cancels
  <2>3. spc[d] \in {"work", "wake", "join"}
    BY <2>2, ZenonT(30) DEF Watched, Watch, ConnInv, Handled, Unwatched
  <2>4. deadline[d] = "none"
    BY <2>2, <2>3, ZenonT(30) DEF ConnInv, Handled, Stopping, Unhurried
  <2>5. cgone[d]
    BY <2>2, <2>4, ZenonT(30) DEF Watched
  <2> QED
    BY <1>1, <2>5
<1> QED
  BY <1>2, <1>3
=============================================================================
