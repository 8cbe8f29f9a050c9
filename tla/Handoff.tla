------------------------------- MODULE Handoff -------------------------------
(***************************************************************************)
(* The rolling upgrade: the source's admin handler (src/server.go,         *)
(* handleAdmin) and the destination's adoption (src/migrate.go), two       *)
(* processes that exchange requests, replies and PTY descriptors over one  *)
(* Unix connection, either end of which may close at any moment.           *)
(*                                                                         *)
(* How one session pauses and resumes is module Session; here a session of *)
(* the source is being copied, is prepared (its ticket is stable and its   *)
(* copy loop parked) or has moved.  A reply may carry a descriptor, named  *)
(* by the session whose PTY it is.  Any call of the destination may time   *)
(* out, also when its reply comes later.                                   *)
(***************************************************************************)
EXTENDS Naturals, Sequences, FiniteSets

CONSTANTS
  Sessions,  \* the sessions of the source when the adoption begins
  None       \* no session, no descriptor

ASSUME HandoffAssumption == None \notin Sessions

VARIABLES
  \* The source.
  alive,     \* sessions that have a PTY
  has,       \* Hub.sessions
  copying,   \* sessions whose copy loop reads the PTY
  pending,   \* handleAdmin's pending adoptions
  frozen,    \* batchFrozen: the hub's lifecycle gate is held
  handler,   \* "serving", "leaving" (its deferred functions are due), "gone"
  fresh,     \* a client has started a session since the gate was released
  retired,   \* requestExit: Serve returns and the process ends
  \* The connection.
  open,      \* the destination's end
  reqs,      \* requests on their way
  reps,      \* replies on their way
  \* The destination.
  at,        \* where adoptSessionsWithReport is
  id,        \* adminClient.nextID
  todo,      \* listed sessions not yet attempted
  now,       \* the session being attempted
  fd,        \* the descriptor received for it
  received,  \* adminTransport.received
  master,    \* the descriptor of each prepared session
  prepared,  \* preparedNames
  skipped,   \* skipped
  installed  \* Hub.sessions of the destination, its copy loops started

srcVars  == <<alive, has, copying, pending, frozen, handler, fresh,
              retired>>
connVars == <<open, reqs, reps>>
dstVars  == <<at, id, todo, now, fd, received, master, prepared, skipped,
              installed>>
vars     == <<srcVars, connVars, dstVars>>

Init ==
  /\ alive \in SUBSET Sessions
  /\ has = Sessions
  /\ copying = alive
  /\ pending = {}
  /\ frozen = FALSE
  /\ handler = "serving"
  /\ fresh = FALSE
  /\ retired = FALSE
  /\ open = TRUE
  /\ reqs = <<>>
  /\ reps = <<>>
  /\ at = "start"
  /\ id = 1
  /\ todo = {}
  /\ now = None
  /\ fd = None
  /\ received = <<>>
  /\ master = [s \in Sessions |-> None]
  /\ prepared = {}
  /\ skipped = {}
  /\ installed = {}

-----------------------------------------------------------------------------
\* The source.

\* A child exits and its copy loop, if it is not parked, ends.
ChildExits(s) ==
  /\ s \in copying
  /\ alive' = alive \ {s}
  /\ copying' = copying \ {s}
  /\ UNCHANGED <<has, pending, frozen, handler, fresh, retired, connVars, dstVars>>

\* Hub.Start of a client of the source, while the gate is free.  Before list the
\* new session is one of Sessions.
StartFresh ==
  /\ at # "start"
  /\ ~frozen /\ ~fresh /\ ~retired
  /\ fresh' = TRUE
  /\ UNCHANGED <<alive, has, copying, pending, frozen, handler, retired, connVars,
                 dstVars>>

Request == Head(reqs)
Serves(method) ==
  /\ handler = "serving"
  /\ reqs # <<>>
  /\ Request.method = method
  /\ reqs' = Tail(reqs)

\* A reply; a result that cannot be written ends the handler, an error does not.
Answer(ok, descriptor) ==
  /\ reps' = IF open THEN Append(reps, [id |-> Request.id, ok |-> ok, fd |-> descriptor])
             ELSE reps
  /\ handler' = IF open \/ ~ok THEN handler ELSE "leaving"
  /\ UNCHANGED <<open, dstVars>>

ServeList ==
  /\ Serves("list")
  /\ \/ /\ ~frozen
        /\ frozen' = TRUE
        /\ Answer(TRUE, None)
     \/ /\ Answer(FALSE, None)  \* a batch is active, or a log has failed
        /\ UNCHANGED frozen
  /\ UNCHANGED <<alive, has, copying, pending, fresh, retired>>

\* adopt succeeds when the ticket becomes stable; it fails without a list, for
\* an unknown or prepared session, and when the ticket is unstable or late
\* (then it is aborted at once).
ServeAdopt ==
  /\ Serves("adopt")
  /\ LET s == Request.name IN
     \/ /\ frozen /\ s \in has \ pending
        /\ pending' = pending \cup {s}
        /\ copying' = copying \ {s}
        /\ Answer(TRUE, IF s \in alive THEN s ELSE None)
     \/ /\ Answer(FALSE, None)
        /\ UNCHANGED <<pending, copying>>
  /\ UNCHANGED <<alive, has, frozen, fresh, retired>>

ServeSnapshot ==
  /\ Serves("snapshot")
  /\ Answer(Request.name \in pending, None)
  /\ UNCHANGED <<alive, has, copying, pending, frozen, fresh, retired>>

\* Faulty variant: the moved sessions stay in the source's table.
Faulty_ServeCommit ==
  /\ Serves("commit")
  /\ pending' = pending \ Request.names
  /\ frozen' = (frozen /\ pending' # {})
  /\ Answer(Request.names \subseteq pending, None)
  /\ UNCHANGED <<alive, has, copying, fresh, retired>>

\* commit: every named session must be prepared; all of them move.
ServeCommit ==
  /\ Serves("commit")
  /\ IF Request.names \subseteq pending
     THEN /\ has' = has \ Request.names
          /\ pending' = pending \ Request.names
          /\ frozen' = (frozen /\ (pending' # {} \/ ~open))
          /\ Answer(TRUE, None)
     ELSE /\ Answer(FALSE, None)
          /\ UNCHANGED <<has, pending, frozen>>
  /\ UNCHANGED <<alive, copying, fresh, retired>>

\* abort: the named copy loops resume; the batch stays frozen.
ServeAbort ==
  /\ Serves("abort")
  /\ IF Request.names \subseteq pending
     THEN /\ pending' = pending \ Request.names
          /\ copying' = copying \cup (Request.names \cap alive)
          /\ Answer(TRUE, None)
     ELSE /\ Answer(FALSE, None)
          /\ UNCHANGED <<pending, copying>>
  /\ UNCHANGED <<alive, has, frozen, fresh, retired>>

\* exit: refused while sessions are prepared; otherwise the handler returns and
\* the source stops listening.
ServeExit ==
  /\ Serves("exit")
  /\ reps' = IF open THEN Append(reps, [id |-> Request.id, ok |-> pending = {}, fd |-> None])
             ELSE reps
  /\ handler' = IF pending = {} THEN "leaving" ELSE handler
  /\ retired' = (pending = {} /\ open)
  /\ UNCHANGED <<alive, has, copying, pending, frozen, fresh, open, dstVars>>

\* The read deadline, or EOF once the buffered requests are consumed.
HandlerReadFails ==
  /\ handler = "serving"
  /\ reqs = <<>>
  /\ handler' = "leaving"
  /\ UNCHANGED <<alive, has, copying, pending, frozen, fresh, retired, connVars,
                 dstVars>>

\* Faulty variants: the deferred function forgets the tickets, or the batch.
Faulty_LeavesPaused ==
  /\ handler = "leaving"
  /\ handler' = "gone"
  /\ pending' = {}
  /\ frozen' = FALSE
  /\ UNCHANGED <<alive, has, copying, fresh, retired, connVars, dstVars>>
Faulty_LeavesFrozen ==
  /\ handler = "leaving"
  /\ handler' = "gone"
  /\ pending' = {}
  /\ copying' = copying \cup (pending \cap alive)
  /\ UNCHANGED <<alive, has, frozen, fresh, retired, connVars, dstVars>>

\* The deferred function: abort what is prepared, end the batch, close.
HandlerLeaves ==
  /\ handler = "leaving"
  /\ handler' = "gone"
  /\ pending' = {}
  /\ copying' = copying \cup (pending \cap alive)
  /\ frozen' = FALSE
  /\ UNCHANGED <<alive, has, fresh, retired, connVars, dstVars>>

SourceStep ==
  \/ ServeList \/ ServeAdopt \/ ServeSnapshot \/ ServeCommit \/ ServeAbort
  \/ ServeExit \/ HandlerReadFails \/ HandlerLeaves

-----------------------------------------------------------------------------
\* The destination: adminClient.call is a request sent and then its outcome.

\* The request of a call; a write on a closed connection is lost.
Call(method, s, names, where) ==
  /\ reqs' = IF open /\ handler # "gone"
             THEN Append(reqs, [id |-> id, method |-> method, name |-> s, names |-> names])
             ELSE reqs
  /\ id' = id + 1
  /\ at' = where

Reply == Head(reps)
Arrived(taken) == received' = IF taken /\ Reply.fd # None THEN Append(received, Reply.fd)
                              ELSE received

\* Faulty variant: the reply's ID is not compared.
Faulty_Succeeds ==
  /\ open /\ reps # <<>>
  /\ Reply.ok
  /\ reps' = Tail(reps)

\* The call returned nil: the reply is this request's and no error.
Succeeds ==
  /\ open /\ reps # <<>>
  /\ Reply.id = id - 1 /\ Reply.ok
  /\ reps' = Tail(reps)

\* The call returned an error: an error reply or one of an earlier request,
\* a timeout, or a connection that is closed.
Fails ==
  \/ /\ open /\ reps # <<>>
     /\ Reply.id # id - 1 \/ ~Reply.ok
     /\ reps' = Tail(reps)
     /\ Arrived(TRUE)
  \/ /\ reps' = reps
     /\ Arrived(FALSE)

List ==
  /\ at = "start"
  /\ Call("list", None, {}, "list")
  /\ UNCHANGED <<srcVars, open, reps, todo, now, fd, received, master, prepared,
                 skipped, installed>>

Listed ==
  /\ at = "list"
  /\ \/ Succeeds /\ at' = "next" /\ todo' = Sessions /\ UNCHANGED received
     \/ Fails /\ at' = "close" /\ UNCHANGED todo
  /\ UNCHANGED <<srcVars, open, reqs, id, now, fd, master, prepared, skipped,
                 installed>>

Adopt(s) ==
  /\ at = "next"
  /\ s \in todo
  /\ todo' = todo \ {s}
  /\ now' = s
  /\ Call("adopt", s, {}, "adopt")
  /\ UNCHANGED <<srcVars, open, reps, fd, received, master, prepared, skipped,
                 installed>>

\* abortSingle after a failed attempt; the descriptor, if any, is closed.
SkipNow ==
  /\ skipped' = skipped \cup {now}
  /\ fd' = None
  /\ Call("abort", None, {now}, "abortone")

\* receiveAdoptedSession: takeFD takes the oldest received descriptor when the
\* reply says that the session is alive.
TakeFD ==
  IF Reply.fd = None THEN fd' = None /\ UNCHANGED received
  ELSE LET queue == Append(received, Reply.fd)
       IN  fd' = Head(queue) /\ received' = Tail(queue)

Adopted ==
  /\ at = "adopt"
  /\ \/ /\ Succeeds
        /\ TakeFD
        /\ Call("snapshot", now, {}, "snapshot")
        /\ UNCHANGED skipped
     \/ Fails /\ SkipNow
  /\ UNCHANGED <<srcVars, open, todo, now, master, prepared, installed>>

Prepare ==
  /\ prepared' = prepared \cup {now}
  /\ master' = [master EXCEPT ![now] = fd]
  /\ at' = "next"
  /\ UNCHANGED <<id, reqs, fd, skipped>>

\* The snapshot is restored, natively or with loss, or the attempt fails.  An
\* error of the call leads to one more adopt.
Snapshot ==
  /\ at = "snapshot"
  /\ \/ /\ Succeeds
        /\ UNCHANGED received
        /\ \/ Prepare
           \/ SkipNow /\ UNCHANGED <<master, prepared>>
     \/ /\ Fails
        /\ fd' = None
        /\ Call("adopt", now, {}, "retry")
        /\ UNCHANGED <<master, prepared, skipped>>
  /\ UNCHANGED <<srcVars, open, todo, now, installed>>

\* The source still has the session prepared, and refuses: an older source
\* aborted it when its snapshot failed.
Retried ==
  /\ at = "retry"
  /\ Fails
  /\ SkipNow
  /\ UNCHANGED <<srcVars, open, todo, now, master, prepared, installed>>

AbortedOne ==
  /\ at = "abortone"
  /\ \/ Succeeds /\ UNCHANGED received
     \/ Fails
  /\ at' = "next"
  /\ UNCHANGED <<srcVars, open, reqs, id, todo, now, fd, master, prepared,
                 skipped, installed>>

\* Faulty variant: commit what could be prepared.
Faulty_Commit ==
  /\ at = "next" /\ todo = {}
  /\ Call("commit", None, prepared, "commit")
  /\ UNCHANGED <<srcVars, open, reps, todo, now, fd, received, master, prepared,
                 skipped, installed>>

Commit ==
  /\ at = "next" /\ todo = {} /\ skipped = {}
  /\ Call("commit", None, prepared, "commit")
  /\ UNCHANGED <<srcVars, open, reps, todo, now, fd, received, master, prepared,
                 skipped, installed>>

\* The deferred abort: the prepared sessions go back, their states are closed.
RollBack ==
  IF prepared = {} THEN at' = "close" /\ UNCHANGED <<id, reqs>>
  ELSE Call("abort", None, prepared, "rollback")

GiveUp ==
  /\ at = "next" /\ todo = {} /\ skipped # {}
  /\ RollBack
  /\ UNCHANGED <<srcVars, open, reps, todo, now, fd, received, master, prepared,
                 skipped, installed>>

\* commit returned: install and start the copy loops, then ask the source to
\* exit; or roll back.
Committed ==
  /\ at = "commit"
  /\ \/ /\ Succeeds
        /\ installed' = prepared
        /\ Call("exit", None, {}, "exit")
        /\ UNCHANGED received
     \/ /\ Fails
        /\ RollBack
        /\ UNCHANGED installed
  /\ UNCHANGED <<srcVars, open, todo, now, fd, master, prepared, skipped>>

RolledBack ==
  /\ at = "rollback"
  /\ \/ Succeeds /\ UNCHANGED received
     \/ Fails
  /\ master' = [s \in Sessions |-> None]
  /\ prepared' = {}
  /\ at' = "close"
  /\ UNCHANGED <<srcVars, open, reqs, id, todo, now, fd, skipped, installed>>

Exited ==
  /\ at = "exit"
  /\ \/ Succeeds /\ UNCHANGED received
     \/ Fails
  /\ at' = "close"
  /\ UNCHANGED <<srcVars, open, reqs, id, todo, now, fd, master, prepared,
                 skipped, installed>>

\* The deferred close of the connection and of descriptors nobody took.
Close ==
  /\ at = "close"
  /\ at' = "end"
  /\ open' = FALSE
  /\ received' = <<>>
  /\ UNCHANGED <<srcVars, reqs, reps, id, todo, now, fd, master, prepared,
                 skipped, installed>>

\* The caller's context ends: the watcher closes the connection.
Cancel ==
  /\ open
  /\ at \notin {"start", "end"}
  /\ open' = FALSE
  /\ UNCHANGED <<srcVars, reqs, reps, dstVars>>

DestinationStep ==
  \/ List \/ Listed \/ (\E s \in Sessions : Adopt(s)) \/ Adopted \/ Snapshot
  \/ Retried \/ AbortedOne \/ Commit \/ GiveUp \/ Committed \/ RolledBack
  \/ Exited \/ Close

-----------------------------------------------------------------------------
Next ==
  \/ \E s \in Sessions : ChildExits(s)
  \/ StartFresh
  \/ SourceStep
  \/ DestinationStep
  \/ Cancel

Spec == Init /\ [][Next]_vars

\* Both processes run and their deadlines fire.
Fairness == WF_vars(SourceStep) /\ WF_vars(DestinationStep)
FairSpec == Spec /\ Fairness

-----------------------------------------------------------------------------
\* Properties.

Places == {"start", "list", "next", "adopt", "snapshot", "retry", "abortone",
           "commit", "rollback", "exit", "close", "end"}

\* Only that every variable has its type.
TypeOK ==
  /\ {alive, has, copying, pending} \subseteq SUBSET Sessions
  /\ {todo, prepared, skipped, installed} \subseteq SUBSET Sessions
  /\ {frozen, fresh, retired, open} \subseteq BOOLEAN
  /\ handler \in {"serving", "leaving", "gone"}
  /\ reqs \in Seq([id : 1 .. id, method : STRING, name : Sessions \cup {None},
                   names : SUBSET Sessions])
  /\ reps \in Seq([id : 1 .. id, ok : BOOLEAN, fd : Sessions \cup {None}])
  /\ at \in Places
  /\ id \in Nat
  /\ {now, fd} \subseteq Sessions \cup {None}
  /\ received \in Seq(Sessions)
  /\ master \in [Sessions -> Sessions \cup {None}]

\* RFC 0002 "prevent split ownership": no session is in both servers' tables,
\* and no PTY has two readers.
NoSplitOwnership ==
  /\ has \cap installed = {}
  /\ copying \cap {master[s] : s \in installed} = {}

\* The destination adopts all sessions or none, and the source gives up all of
\* them or none.
AllOrNothing == {has, installed} \subseteq {{}, Sessions}

\* Replies that come late never pair a session with another session's PTY, or
\* with none: what is committed is its own.
OwnDescriptor ==
  /\ \A s \in prepared : master[s] \in {s, None}
  /\ \A s \in installed : s \in alive => master[s] = s

\* A session whose copy loop is parked is one the source will resume or move:
\* nothing stays paused once the handler is gone.
ResumedWhenOver ==
  /\ pending # {} => frozen
  /\ handler = "gone" => ~frozen /\ copying = has \cap alive

\* The source's hub does not stay frozen, whatever becomes of the destination.
SourceThaws == frozen ~> ~frozen

\* migrate.go:400, "migrates every source session into h as one transaction":
\* an adoption that fails leaves the source the owner.
FailedLeavesSource ==
  at = "end" /\ installed = {} => has = Sessions

\* RFC 0002, "adopt every session from an old same-host server without
\* disconnecting child processes": the source retires with no session left.
RetiresEmpty == retired => has = {} /\ ~fresh

=============================================================================
