-------------------------------- MODULE Stream --------------------------------
(***************************************************************************)
(* The calls of the wire protocol that block or stream (server.go handle,  *)
(* serveOutput, serveBlob, dispatchRequest, monitorConnection; client.go   *)
(* remoteOutputSource, readBlobOnceWithMetadata, callOncePayload).         *)
(*                                                                         *)
(* One client uses one connection at a time and reopens where its cursor   *)
(* stands; the server still works on the connections it gave up.  A        *)
(* response is a line and then its payload, and either may be the last     *)
(* thing that arrives.  The session's output is bytes 1, 2, ... of its log. *)
(***************************************************************************)
EXTENDS Naturals, Sequences, FiniteSets

CONSTANTS Conns,       \* connections, each dialled once
          Opens,       \* connection -> what the client may use it for: "output", "blob", "wait", "input"
          MaxBytes,    \* bytes the session writes
          MaxChunk,    \* maxRPCChunk
          MaxSlots,    \* maxClientConnections
          Faults       \* "idle" (rpcIdleTimeout), "full" (no slot), "refuse" (errors),
                       \* "partial" (a read that fails after some bytes), "exit" (the server
                       \* dies), "noread" (the child leaves its input unread)

ASSUME StreamAssumption ==
  /\ Conns # {} /\ MaxBytes \in Nat /\ MaxChunk \in Nat \ {0} /\ MaxSlots \in Nat
  /\ Opens \in [Conns -> SUBSET {"output", "blob", "wait", "input"}]
  /\ Faults \subseteq {"idle", "full", "refuse", "partial", "exit", "noread"}

VARIABLES written, ended,  \* the log: bytes in it, whether it is closed
          spc, mon,        \* connection -> next step of its handler, of its monitor
          stop, deadline,  \* connection -> stop is closed; its read deadline
          cancelled,       \* connection -> the handler's context is cancelled
          at, snap,        \* connection -> reader's cursor or blob offset; Len(blob)
          reply,           \* connection -> the response being made
          kind, req, down, \* connection -> what was opened, a request, the responses in flight
          cgone, sgone,    \* connection -> closed by the client, by the server
          cpc, conn,       \* the client's next step and its connection
          head, opened,    \* the response lines it goes by
          cursor, got,     \* remoteOutputSource.cursor; every byte its reads returned
          lost,            \* history: bytes that reads consumed and answered with an error
          data, value      \* a blob so far; the last blob returned

logVars    == <<written, ended>>
serverVars == <<spc, mon, stop, deadline, cancelled, at, snap, reply, sgone>>
wireVars   == <<kind, req, down, cgone>>
clientVars == <<cpc, conn, head, opened, cursor, got, lost, data, value>>
vars       == <<logVars, serverVars, wireVars, clientVars>>

\* A response line that announces n bytes of payload, or the payload: the bytes of the
\* log up to `to`.  The handler returns after a last one (EOF, or a refused open).
Message == [is : {"line", "error", "broken", "payload"}, n : Nat, to : Nat, last : BOOLEAN]
Msg(is, n, to, last) == [is |-> is, n |-> n, to |-> to, last |-> last]
Blank   == Msg("line", 0, 0, FALSE)
Broken  == Msg("broken", 0, 0, TRUE)    \* the ID -1 that a failed readRequest answers
Error(last) == Msg("error", 0, 0, last) \* {code, message}
Bytes(m) == [i \in 1..m.n |-> m.to - m.n + i]

Unused(c) == spc[c] = "unused"
Served(c) == spc[c] \notin {"unused", "dialled", "left"}
Lesser(a, b) == IF a < b THEN a ELSE b

Init ==
  /\ written = 0 /\ ended = FALSE
  /\ spc = [c \in Conns |-> "unused"] /\ mon = [c \in Conns |-> "off"]
  /\ stop = [c \in Conns |-> FALSE] /\ deadline = [c \in Conns |-> "none"]
  /\ cancelled = [c \in Conns |-> FALSE]
  /\ at = [c \in Conns |-> 0] /\ snap = [c \in Conns |-> 0]
  /\ reply = [c \in Conns |-> Blank]
  /\ kind = [c \in Conns |-> "output"] /\ req = [c \in Conns |-> FALSE]
  /\ down = [c \in Conns |-> <<>>]
  /\ cgone = [c \in Conns |-> FALSE] /\ sgone = [c \in Conns |-> FALSE]
  /\ cpc = "none" /\ conn = (CHOOSE c \in Conns : TRUE) /\ head = Blank /\ opened = Blank
  /\ cursor = 0 /\ got = <<>> /\ lost = {} /\ data = <<>>
  /\ value = [to |-> 0, data |-> <<>>]

-----------------------------------------------------------------------------
\* The session.

Write == /\ ~ended /\ written < MaxBytes
         /\ written' = written + 1
         /\ UNCHANGED <<ended, serverVars, wireVars, clientVars>>

End == /\ ~ended /\ ended' = TRUE
       /\ UNCHANGED <<written, serverVars, wireVars, clientVars>>

-----------------------------------------------------------------------------
\* A connection's handler.

Steps(c, next) == spc' = [spc EXCEPT ![c] = next]
Sends(c, m)    == down' = [down EXCEPT ![c] = Append(@, m)]

\* Returning closes the connection and gives up the handler's variables.
localVars == <<sgone, stop, at, snap, reply>>
Leaves(c) == /\ Steps(c, "left") /\ sgone' = [sgone EXCEPT ![c] = TRUE]
             /\ stop' = [stop EXCEPT ![c] = FALSE] /\ reply' = [reply EXCEPT ![c] = Blank]
             /\ at' = [at EXCEPT ![c] = 0] /\ snap' = [snap EXCEPT ![c] = 0]

\* Serve's loop: a connection beyond the slots, which other clients use too, is closed.
Full == Cardinality({d \in Conns : Served(d)}) >= MaxSlots

Accept(c) ==
  /\ spc[c] = "dialled"
  /\ \/ ~Full /\ Steps(c, "first") /\ UNCHANGED localVars
     \/ (Full \/ "full" \in Faults) /\ Leaves(c)
  /\ UNCHANGED <<mon, deadline, cancelled, logVars, wireVars, clientVars>>

\* A request is awaited until the client hangs up or rpcIdleTimeout has passed.
Awaits(c) == spc[c] \in {"first", "next"}

HangUp(c) ==
  /\ Awaits(c) /\ cgone[c] /\ ~req[c] /\ Leaves(c)
  /\ UNCHANGED <<mon, deadline, cancelled, logVars, wireVars, clientVars>>

Idle(c) ==
  /\ "idle" \in Faults /\ Awaits(c) /\ ~cgone[c] /\ Sends(c, Broken) /\ Leaves(c)
  /\ UNCHANGED <<mon, deadline, cancelled, kind, req, cgone, logVars, clientVars>>

Answers(c, m, next) == reply' = [reply EXCEPT ![c] = m] /\ Steps(c, next)
Takes(c)  == req[c] /\ req' = [req EXCEPT ![c] = FALSE]
Reader(c) == kind[c] = "output"
Single(c) == kind[c] \in {"wait", "input"}   \* one request, one response

\* The open request of an output: at is the cursor it asks for.
OpenOutput(c) ==
  /\ spc[c] = "first" /\ Reader(c) /\ Takes(c)
  /\ \/ Answers(c, Msg("line", 0, at[c], FALSE), "line")
     \/ "refuse" \in Faults /\ Answers(c, Error(TRUE), "line")
  /\ UNCHANGED <<mon, stop, deadline, cancelled, at, snap, sgone, kind, down, cgone,
                 logVars, clientVars>>

\* Faulty variant: only the reads of an output are watched.
Faulty_Watches(c) == IF Reader(c) THEN "check" ELSE "off"

\* Reads, captures and Wait run beside a monitor of their connection; dispatchRequest runs
\* every other request, of which WriteInput may block, without one and with no context to cancel.
Monitored(c) == kind[c] # "input"
Watches(c)   == IF Monitored(c) THEN "check" ELSE "off"

\* An operation that may block.
Start(c) ==
  /\ spc[c] = (IF Reader(c) THEN "next" ELSE "first") /\ Takes(c)
  /\ Steps(c, "work") /\ mon' = [mon EXCEPT ![c] = Watches(c)]
  /\ stop' = [stop EXCEPT ![c] = FALSE] /\ deadline' = [deadline EXCEPT ![c] = "none"]
  /\ UNCHANGED <<cancelled, at, snap, reply, sgone, kind, down, cgone, logVars, clientVars>>

ChunkBytes(c) == Lesser(MaxChunk, snap[c] - at[c])

\* The next chunk of a blob: data[offset:end].
Chunk(c) ==
  /\ spc[c] = "next" /\ kind[c] = "blob" /\ Takes(c)
  /\ LET end == at[c] + ChunkBytes(c)
     IN /\ Answers(c, Msg("line", ChunkBytes(c), end, end = snap[c]), "line")
        /\ at' = [at EXCEPT ![c] = end]
  /\ UNCHANGED <<mon, stop, deadline, cancelled, snap, sgone, kind, down, cgone,
                 logVars, clientVars>>

\* What the operation returns.
ReadsBytes(c) == \E n \in 1..Lesser(MaxChunk, written - at[c]) :
                   /\ Reader(c) /\ at' = [at EXCEPT ![c] = @ + n] /\ UNCHANGED snap
                   /\ Answers(c, Msg("line", n, at[c] + n, FALSE), "wake")
ReadsEnd(c)  == /\ Reader(c) /\ ended /\ at[c] = written /\ UNCHANGED <<at, snap>>
                /\ Answers(c, Msg("line", 0, at[c], TRUE), "wake")
Captures(c)  == /\ kind[c] = "blob" /\ snap' = [snap EXCEPT ![c] = written]
                /\ at' = [at EXCEPT ![c] = 0]
                /\ Answers(c, Msg("line", 0, written, FALSE), "wake")
Waited(c)    == /\ kind[c] = "wait" /\ ended /\ UNCHANGED <<at, snap>>
                /\ Answers(c, Blank, "wake")
Wrote(c)     == /\ kind[c] = "input" /\ UNCHANGED <<at, snap>>
                /\ Answers(c, Blank, "line")

\* An error: the reader's cursor may have moved past n bytes, which the response leaves out.
Errs(c, n)   == /\ Answers(c, Error(kind[c] = "blob"), IF Monitored(c) THEN "wake" ELSE "line")
                /\ at' = [at EXCEPT ![c] = @ + n] /\ UNCHANGED snap
Dropped(c)   == IF Reader(c) /\ "partial" \in Faults THEN 0..Lesser(MaxChunk, written - at[c]) ELSE {0}

\* It returns and the handler closes stop,
Done(c) == /\ spc[c] = "work" /\ stop' = [stop EXCEPT ![c] = Monitored(c)]
           /\ UNCHANGED <<mon, deadline, cancelled, sgone, logVars, wireVars, clientVars>>

\* An input write returns when the child reads, which nobody can count on with "noread",
\* or when its PTY is gone.
Work(c)   == /\ Done(c)
             /\ \/ ReadsBytes(c) \/ ReadsEnd(c) \/ Captures(c) \/ Waited(c)
                \/ "noread" \notin Faults /\ Wrote(c)
                \/ cancelled[c] /\ Errs(c, 0)
                \/ kind[c] = "input" /\ ended /\ Errs(c, 0)
Drain(c)  == Done(c) /\ Wrote(c)
Refuse(c) == Done(c) /\ "refuse" \in Faults /\ \E n \in Dropped(c) : Errs(c, n)

\* wakes the monitor with a deadline that has passed,
Wake(c) ==
  /\ spc[c] = "wake" /\ Steps(c, "join") /\ deadline' = [deadline EXCEPT ![c] = "now"]
  /\ UNCHANGED <<mon, stop, cancelled, at, snap, reply, sgone, logVars, wireVars, clientVars>>

\* and waits for it to return.
Join(c) ==
  /\ spc[c] = "join" /\ mon[c] = "off" /\ Steps(c, "line")
  /\ deadline' = [deadline EXCEPT ![c] = "none"]
  /\ UNCHANGED <<mon, stop, cancelled, at, snap, reply, sgone, logVars, wireVars, clientVars>>

\* The response has been written: the handler returns or waits for the next request.
Rests(c) ==
  IF reply[c].last THEN Leaves(c)
  ELSE Steps(c, IF Single(c) THEN "first" ELSE "next") /\ UNCHANGED localVars

SendLine(c) ==
  /\ spc[c] = "line"
  /\ \/ cgone[c] /\ Leaves(c) /\ UNCHANGED down
     \/ /\ ~cgone[c] /\ Sends(c, reply[c])
        /\ IF reply[c].n > 0 THEN Steps(c, "payload") /\ UNCHANGED localVars ELSE Rests(c)
  /\ UNCHANGED <<mon, deadline, cancelled, kind, req, cgone, logVars, clientVars>>

SendPayload(c) ==
  /\ spc[c] = "payload"
  /\ \/ cgone[c] /\ Leaves(c) /\ UNCHANGED down
     \/ ~cgone[c] /\ Sends(c, Msg("payload", reply[c].n, reply[c].to, FALSE)) /\ Rests(c)
  /\ UNCHANGED <<mon, deadline, cancelled, kind, req, cgone, logVars, clientVars>>

Handler(c) == \/ Accept(c) \/ HangUp(c) \/ OpenOutput(c) \/ Start(c) \/ Chunk(c)
              \/ Work(c) \/ Wake(c) \/ Join(c) \/ SendLine(c) \/ SendPayload(c)

-----------------------------------------------------------------------------
\* monitorConnection.

Watch(c, from, next) == /\ mon[c] = from /\ mon' = [mon EXCEPT ![c] = next]
                        /\ UNCHANGED <<spc, stop, at, snap, reply, sgone, logVars, wireVars,
                                       clientVars>>

Check(c) == Watch(c, "check", IF stop[c] THEN "off" ELSE "clear") /\ UNCHANGED <<deadline, cancelled>>

Clear(c) == /\ Watch(c, "clear", "recheck") /\ UNCHANGED cancelled
            /\ deadline' = [deadline EXCEPT ![c] = "none"]

\* Faulty variant: the read begins whatever happened since the first look at stop.
Faulty_Recheck(c) == Watch(c, "recheck", "read") /\ UNCHANGED <<deadline, cancelled>>

Recheck(c) == Watch(c, "recheck", IF stop[c] THEN "off" ELSE "read") /\ UNCHANGED <<deadline, cancelled>>

\* Faulty variant: whatever ends the read cancels the operation.
Faulty_Cancels(c) == TRUE

Cancels(c) == ~stop[c]

\* The read ends when the client hangs up or the deadline has passed.  The protocol is
\* serial: no request arrives meanwhile.
Watched(c) == /\ cgone[c] \/ deadline[c] = "now"
              /\ Watch(c, "read", "off") /\ UNCHANGED deadline
              /\ cancelled' = [cancelled EXCEPT ![c] = @ \/ Cancels(c)]

Monitor(c) == Check(c) \/ Clear(c) \/ Recheck(c) \/ Watched(c)

\* The process ends (an upgrade, a crash) and its connections with it.
Exit ==
  /\ "exit" \in Faults /\ \E c \in Conns : Served(c)
  /\ spc' = [c \in Conns |-> IF Unused(c) THEN "unused" ELSE "left"]
  /\ sgone' = [c \in Conns |-> ~Unused(c)] /\ mon' = [c \in Conns |-> "off"]
  /\ stop' = [c \in Conns |-> FALSE] /\ reply' = [c \in Conns |-> Blank]
  /\ at' = [c \in Conns |-> 0] /\ snap' = [c \in Conns |-> 0]
  /\ UNCHANGED <<deadline, cancelled, logVars, wireVars, clientVars>>

-----------------------------------------------------------------------------
\* The client.

Goes(next) == cpc' = next /\ UNCHANGED conn
Arrived(is) == down[conn] # <<>> /\ Head(down[conn]).is \in is
Consumes   == down' = [down EXCEPT ![conn] = Tail(@)]
Asks       == req' = [req EXCEPT ![conn] = TRUE]
\* The call returns: closeQuietly(connection), and its variables go.
callVars   == <<head, opened, data>>
HangsUp    == /\ cgone' = [cgone EXCEPT ![conn] = TRUE] /\ Goes("none")
              /\ head' = Blank /\ opened' = Blank /\ data' = <<>>

\* dial, then the request that opens: an output from where the last one was left.
Dial ==
  /\ cpc = "none" /\ \E c \in Conns : Unused(c)
  /\ LET c == CHOOSE d \in Conns : Unused(d)
     IN \E k \in Opens[c] :
          /\ conn' = c /\ cpc' = "opening" /\ kind' = [kind EXCEPT ![c] = k]
          /\ req' = [req EXCEPT ![c] = TRUE] /\ at' = [at EXCEPT ![c] = cursor]
          /\ Steps(c, "dialled")
  /\ UNCHANGED <<mon, stop, deadline, cancelled, snap, reply, sgone, down, cgone, head, opened,
                 cursor, got, lost, data, value, logVars>>

\* The answer to it: a call is over, an output can be read, a blob is asked for.
Opened ==
  /\ cpc = "opening" /\ Arrived({"line"}) /\ Consumes
  /\ LET m == Head(down[conn])
     IN \/ Single(conn) /\ HangsUp /\ UNCHANGED <<req, cursor>>
        \/ Reader(conn) /\ cursor' = m.to /\ Goes("open") /\ UNCHANGED <<req, cgone, callVars>>
        \/ /\ kind[conn] = "blob" /\ opened' = m /\ Asks /\ Goes("await")
           /\ UNCHANGED <<cgone, cursor, head, data>>
  /\ UNCHANGED <<kind, got, lost, value, logVars, serverVars>>

\* readOnce: a write to a connection the server has closed fails.
Read ==
  /\ cpc = "open" /\ ~sgone[conn] /\ Asks /\ Goes("await")
  /\ UNCHANGED <<kind, down, cgone, head, opened, cursor, got, lost, data, value, logVars, serverVars>>

\* Faulty variant: the cursor is the line's, whether or not the payload arrives.
Faulty_LineCursor(m) == m.to

LineCursor(m) == IF m.n = 0 THEN m.to ELSE cursor

\* The line of a read: EOF, or the payload is still to come.
Line ==
  /\ cpc = "await" /\ Reader(conn) /\ Arrived({"line"}) /\ Consumes
  /\ head' = Head(down[conn]) /\ cursor' = LineCursor(head')
  /\ Goes(IF head'.n = 0 THEN "open" ELSE "payload")
  /\ UNCHANGED <<kind, req, cgone, opened, got, lost, data, value, logVars, serverVars>>

Payload ==
  /\ cpc = "payload" /\ Reader(conn) /\ Arrived({"payload"}) /\ Consumes
  /\ got' = got \o Bytes(Head(down[conn])) /\ cursor' = head.to /\ Goes("open")
  /\ head' = Blank
  /\ UNCHANGED <<kind, req, cgone, opened, lost, data, value, logVars, serverVars>>

\* The blob is returned if it has the size announced.
Finish(all) ==
  /\ HangsUp /\ UNCHANGED req
  /\ value' = IF Len(all) = opened.to THEN [to |-> opened.to, data |-> all] ELSE value

\* The line of a chunk: one that exceeds that size, or is empty, is refused.
BlobLine ==
  /\ cpc = "await" /\ kind[conn] = "blob" /\ Arrived({"line"}) /\ Consumes
  /\ LET m == Head(down[conn])
     IN IF Len(data) + m.n > opened.to \/ (m.n = 0 /\ ~m.last)
          THEN HangsUp /\ UNCHANGED <<req, value>>
        ELSE IF m.n = 0 THEN Finish(data)
        ELSE head' = m /\ Goes("payload") /\ UNCHANGED <<req, cgone, opened, data, value>>
  /\ UNCHANGED <<kind, cursor, got, lost, logVars, serverVars>>

\* Its bytes: they complete the blob, or the next chunk is asked for.
BlobPayload ==
  /\ cpc = "payload" /\ kind[conn] = "blob" /\ Arrived({"payload"}) /\ Consumes
  /\ LET all == data \o Bytes(Head(down[conn]))
     IN IF head.last THEN Finish(all)
        ELSE /\ data' = all /\ head' = Blank /\ Asks /\ Goes("await")
             /\ UNCHANGED <<cgone, opened, value>>
  /\ UNCHANGED <<kind, cursor, got, lost, logVars, serverVars>>

\* A call that fails closes its connection; a source stays for its owner to close.
Fails == IF Reader(conn) /\ cpc # "opening"
           THEN Goes("open") /\ UNCHANGED <<cgone, callVars>>
           ELSE HangsUp

\* A read that returns an error has given nothing to its caller, whatever it consumed.
Refused ==
  /\ cpc \in {"opening", "await"} /\ Arrived({"error", "broken"}) /\ Consumes /\ Fails
  /\ lost' = IF Reader(conn) THEN lost \cup (cursor + 1..at[conn]) ELSE lost
  /\ UNCHANGED <<kind, req, cursor, got, value, logVars, serverVars>>

\* Faulty variant: a blob ends where its connection does.
Faulty_Kept == IF kind[conn] = "blob" /\ cpc # "opening" THEN [to |-> opened.to, data |-> data] ELSE value

Kept == value

\* The server is gone and so is what it had not sent.
Lost ==
  /\ cpc \in {"opening", "await", "payload"} /\ down[conn] = <<>> /\ sgone[conn] /\ Fails
  /\ value' = Kept
  /\ UNCHANGED <<kind, req, down, cursor, got, lost, logVars, serverVars>>

Receive == Opened \/ Line \/ Payload \/ BlobLine \/ BlobPayload \/ Refused \/ Lost

\* Close, the end of the call's context, or its deadline: what is in flight is lost.
Close ==
  /\ cpc # "none" /\ HangsUp /\ down' = [down EXCEPT ![conn] = <<>>]
  /\ UNCHANGED <<kind, req, cursor, got, lost, value, logVars, serverVars>>

Next == \/ Write \/ End \/ Exit \/ Dial \/ Read \/ Receive \/ Close
        \/ \E c \in Conns : Idle(c) \/ Refuse(c) \/ Drain(c) \/ Handler(c) \/ Monitor(c)

Spec == Init /\ [][Next]_vars

\* The server's goroutines run, and so does a client's blocked call once it can.
Fairness == /\ WF_vars(Receive)
            /\ \A c \in Conns : WF_vars(Handler(c)) /\ WF_vars(Monitor(c))
FairSpec == Spec /\ Fairness

-----------------------------------------------------------------------------
\* Every variable stays within its type: no chunk of server.go:600 has a negative length.
TypeOK ==
  /\ written \in Nat /\ ended \in BOOLEAN
  /\ spc \in [Conns -> {"unused", "dialled", "first", "next", "work", "wake", "join", "line",
                        "payload", "left"}]
  /\ mon \in [Conns -> {"off", "check", "clear", "recheck", "read"}]
  /\ stop \in [Conns -> BOOLEAN] /\ deadline \in [Conns -> {"none", "now"}]
  /\ cancelled \in [Conns -> BOOLEAN]
  /\ at \in [Conns -> Nat] /\ snap \in [Conns -> Nat] /\ reply \in [Conns -> Message]
  /\ kind \in [Conns -> {"output", "blob", "wait", "input"}] /\ req \in [Conns -> BOOLEAN]
  /\ down \in [Conns -> Seq(Message)]
  /\ cgone \in [Conns -> BOOLEAN] /\ sgone \in [Conns -> BOOLEAN]
  /\ cpc \in {"none", "opening", "open", "await", "payload"} /\ conn \in Conns
  /\ head \in Message /\ opened \in Message /\ cursor \in Nat /\ got \in Seq(Nat)
  /\ lost \subseteq Nat /\ data \in Seq(Nat) /\ value \in [to : Nat, data : Seq(Nat)]

\* A remote reader is given bytes of the log in order and none twice, and a byte before its
\* cursor that it was not given is one that a read consumed and answered with an error: none
\* goes missing silently, however often the connection was cut within a response, timed out
\* or was reopened at Cursor() (client.go readOnce takes the cursor after ReadFull).
DeliveredOnce ==
  /\ \A i \in 1..Len(got) : got[i] \in 1..cursor
  /\ \A i, j \in 1..Len(got) : i < j => got[i] < got[j]
  /\ \A b \in 1..cursor : b \in lost \/ \E i \in 1..Len(got) : got[i] = b

\* "Cursor returns the next raw output position Read will deliver" (output.go:110): what is
\* delivered from one cursor on starts there.
CursorIsNext == [][got' # got => got'[Len(got) + 1] = cursor + 1]_vars

\* A replay or checkpoint that a call returns is all of what was captured when it was
\* opened, up to the cursor that came with it, whatever the session wrote since and
\* wherever connections were cut (client.go readBlobOnceWithMetadata).
BlobExact == value.data = [i \in 1..value.to |-> i]

\* Waking the monitor never cancels the handler's context: a stream is only cancelled
\* when its client has hung up (server.go monitorConnection and its three owners).
OnlyHangUpCancels == \A c \in Conns : cancelled[c] => cgone[c]

\* A connection its client closed is left by handler and monitor, whatever read, capture or
\* Wait was blocked, unless the handler is within a request that nothing watches (server.go
\* monitorConnection and its three owners; dispatchRequest).
HandlersEnd == \A c \in Conns :
  []<>(cgone[c] /\ (spc[c] = "work" => Monitored(c)) => spc[c] = "left" /\ mon[c] = "off")

\* RFC 0004: "the server observes the disconnect and cancels any blocked process/output
\* operation" (docs/rfc/0004-wire-protocol.md:142).
BlockedCancelled == \A c \in Conns : []<>(cgone[c] => spc[c] = "left" /\ mon[c] = "off")

\* A client's call returns unless the operation it asked for is blocked, as a read at the end
\* of the log is: no handshake of handler and monitor keeps a response back (server.go
\* close(stop) ... <-monitored).
Blocked(c) == /\ spc[c] = "work" /\ ~ended
              /\ \/ Reader(c) /\ at[c] = written
                 \/ kind[c] = "wait"
                 \/ kind[c] = "input" /\ "noread" \in Faults
CallsAnswered == []<>(cpc \in {"opening", "await", "payload"} => Blocked(conn))
=============================================================================
