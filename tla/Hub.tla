--------------------------------- MODULE Hub ---------------------------------
(***************************************************************************)
(* The session table of one server process (src/hub.go) and the calls that *)
(* change it: Start, Get, Terminate and Delete through a handle, Close, a  *)
(* migration batch of the source and an adoption by the destination.       *)
(*                                                                         *)
(* lifecycleMu is held for reading by every caller that is not idle and    *)
(* for writing by gate = "held"; a writer that waits ("wait") keeps new    *)
(* readers out.  Each section under Hub.mu is one step; what happens       *)
(* outside it (spawning, terminating, discarding) is a step of its own.    *)
(***************************************************************************)
EXTENDS Naturals, FiniteSets, Functions

CONSTANTS
  Callers,    \* goroutines that call the hub and its session handles
  Deleters,   \* those that call Delete
  Names,      \* session names
  MaxStates   \* bound on the sessions ever created

ASSUME HubAssumption ==
  /\ Deleters \subseteq Callers
  /\ MaxStates \in Nat

VARIABLES
  sessions,  \* Hub.sessions: name -> session, 0 for none
  pending,   \* Hub.pending
  closed,    \* Hub.closed
  created,   \* number of sessions created so far
  name,      \* the name of each session
  running,   \* sessions whose process tree runs under this server
  unreaped,  \* those of them whose terminate gave up on them ("did not reap")
  stored,    \* sessions whose output directory exists
  pc,        \* where each caller is
  target,    \* the name a Start is about
  handle,    \* the session each caller has, or is making, a handle of
  gate,      \* lifecycleMu's writer: none, one that waits, one that holds it
  writer,    \* what the writer does
  doomed     \* sessions Close took out of the table to terminate

tableVars == <<sessions, pending, closed>>
worldVars == <<created, name, running, unreaped, stored>>
callVars  == <<pc, target, handle>>
gateVars  == <<gate, writer, doomed>>
vars      == <<tableVars, worldVars, callVars, gateVars>>

States  == 1 .. MaxStates
Goto(c, where) == pc' = [pc EXCEPT ![c] = where]
NoName  == CHOOSE n \in Names : TRUE  \* what target is when no Start is under way
Listed  == {sessions[n] : n \in Names} \ {0}
Current(s) == s # 0 /\ sessions[name[s]] = s

Init ==
  /\ sessions = [n \in Names |-> 0]
  /\ pending = {}
  /\ closed = FALSE
  /\ created = 0
  /\ name = [s \in States |-> NoName]
  /\ running = {}
  /\ unreaped = {}
  /\ stored = {}
  /\ pc = [c \in Callers |-> "idle"]
  /\ target = [c \in Callers |-> NoName]
  /\ handle = [c \in Callers |-> 0]
  /\ gate = "none"
  /\ writer = "none"
  /\ doomed = {}

\* Faulty variant: the gate is not taken.
Faulty_Admitted(c) == pc[c] = "idle"

\* lifecycleMu.RLock.
Admitted(c) == pc[c] = "idle" /\ gate = "none"

\* terminate(state): the tree has ended, or outlives the wait after SIGKILL.
Ends(s) == \/ running' = running \ {s} /\ unreaped' = unreaped \ {s}
           \/ s \in running /\ unreaped' = unreaped \cup {s} /\ UNCHANGED running

-----------------------------------------------------------------------------
Reserve(c, n) ==
  /\ Admitted(c)
  /\ sessions[n] = 0
  /\ pending' = pending \cup {n}
  /\ target' = [target EXCEPT ![c] = n]
  /\ Goto(c, "spawn")
  /\ UNCHANGED <<sessions, closed, worldVars, handle, gateVars>>

\* Faulty variant: a reserved name is free.
Faulty_StartPending(c, n) == ~closed /\ Reserve(c, n)

\* Start up to the first unlock: the name is reserved, or refused.
StartReserve(c, n) == ~closed /\ n \notin pending /\ Reserve(c, n)

\* startSession: a new process tree with a directory of its own (MkdirTemp).
StartSpawn(c) ==
  /\ pc[c] = "spawn"
  /\ created < MaxStates
  /\ created' = created + 1
  /\ name' = [name EXCEPT ![created + 1] = target[c]]
  /\ running' = running \cup {created + 1}
  /\ stored' = stored \cup {created + 1}
  /\ handle' = [handle EXCEPT ![c] = created + 1]
  /\ Goto(c, "install")
  /\ UNCHANGED <<tableVars, unreaped, target, gateVars>>

\* Start returns.
Returns(c) == Goto(c, "idle") /\ target' = [target EXCEPT ![c] = NoName]

\* MkdirAll or startSession fails: release.
StartFails(c) ==
  /\ pc[c] = "spawn"
  /\ pending' = pending \ {target[c]}
  /\ Returns(c)
  /\ UNCHANGED <<sessions, closed, worldVars, handle, gateVars>>

\* The second section: installed, unless the hub was closed or the name taken;
\* the new session is terminated then.
StartInstall(c) ==
  /\ pc[c] = "install"
  /\ pending' = pending \ {target[c]}
  /\ IF closed \/ sessions[target[c]] # 0
     THEN Ends(handle[c]) /\ UNCHANGED sessions
     ELSE /\ sessions' = [sessions EXCEPT ![target[c]] = handle[c]]
          /\ UNCHANGED <<running, unreaped>>
  /\ Returns(c)
  /\ UNCHANGED <<closed, created, name, stored, handle, gateVars>>

\* Get, and each entry of List.
Get(c, n) ==
  /\ Admitted(c)
  /\ sessions[n] # 0
  /\ handle' = [handle EXCEPT ![c] = sessions[n]]
  /\ UNCHANGED <<tableVars, worldVars, pc, target, gateVars>>

\* localSession.terminate and localSession.delete begin with current().
TerminateCall(c) ==
  /\ Admitted(c)
  /\ Current(handle[c])
  /\ Goto(c, "terminate")
  /\ UNCHANGED <<tableVars, worldVars, target, handle, gateVars>>

DeleteCall(c) ==
  /\ Admitted(c)
  /\ c \in Deleters
  /\ Current(handle[c])
  /\ Goto(c, "remove")
  /\ UNCHANGED <<tableVars, worldVars, target, handle, gateVars>>

\* hub.remove, by name.
DeleteRemove(c) ==
  /\ pc[c] = "remove"
  /\ sessions' = [sessions EXCEPT ![name[handle[c]]] = 0]
  /\ Goto(c, "kill")
  /\ UNCHANGED <<pending, closed, worldVars, target, handle, gateVars>>

\* Faulty variant: Delete does not terminate.
Faulty_Terminate(c) ==
  /\ pc[c] \in {"terminate", "kill"}
  /\ Goto(c, IF pc[c] = "kill" THEN "discard" ELSE "idle")
  /\ UNCHANGED <<tableVars, worldVars, target, handle, gateVars>>

\* terminate(state), for Terminate and for Delete.
Terminate(c) ==
  /\ pc[c] \in {"terminate", "kill"}
  /\ Ends(handle[c])
  /\ Goto(c, IF pc[c] = "kill" THEN "discard" ELSE "idle")
  /\ UNCHANGED <<tableVars, created, name, stored, target, handle, gateVars>>

DeleteDiscard(c) ==
  /\ pc[c] = "discard"
  /\ stored' = stored \ {handle[c]}
  /\ Goto(c, "idle")
  /\ UNCHANGED <<tableVars, created, name, running, unreaped, target, handle, gateVars>>

ChildExits(s) ==
  /\ s \in running
  /\ running' = running \ {s}
  /\ unreaped' = unreaped \ {s}
  /\ UNCHANGED <<tableVars, created, name, stored, callVars, gateVars>>

-----------------------------------------------------------------------------
\* The writers of lifecycleMu: Close, a source's batch, an adoption.
WriterWaits(w) ==
  /\ gate = "none"
  /\ gate' = "wait"
  /\ writer' = w
  /\ UNCHANGED <<tableVars, worldVars, callVars, doomed>>

\* lifecycleMu.Lock, and the section of Hub.mu that follows.
WriterEnters ==
  /\ gate = "wait"
  /\ \A c \in Callers : pc[c] = "idle"
  /\ \/ /\ writer = "close" /\ ~closed
        /\ closed' = TRUE
        /\ doomed' = Listed
        /\ sessions' = [n \in Names |-> 0]
        /\ gate' = "held"
        /\ UNCHANGED writer
     \/ /\ \/ writer = "batch" /\ ~closed
           \/ writer = "adopt" /\ ~closed /\ Listed = {} /\ pending = {}
        /\ gate' = "held"
        /\ UNCHANGED <<closed, doomed, sessions, writer>>
     \/ /\ closed \/ (writer = "adopt" /\ (Listed # {} \/ pending # {}))
        /\ gate' = "none"
        /\ writer' = "none"
        /\ UNCHANGED <<closed, doomed, sessions>>
  /\ UNCHANGED <<pending, worldVars, callVars>>

\* Faulty variants: Close skips a session; it waits for one that is gone.
Faulty_CloseSkips(s) ==
  /\ gate = "held" /\ writer = "close"
  /\ s \in doomed
  /\ doomed' = doomed \ {s}
  /\ UNCHANGED <<tableVars, worldVars, callVars, gate, writer>>
Faulty_CloseHangs(s) ==
  /\ gate = "held" /\ writer = "close"
  /\ s \in doomed \cap running
  /\ Ends(s)
  /\ doomed' = doomed \ {s}
  /\ UNCHANGED <<tableVars, created, name, stored, callVars, gate, writer>>

\* Close terminates the sessions it took, one after the other.
CloseTerminates(s) ==
  /\ gate = "held" /\ writer = "close"
  /\ s \in doomed
  /\ Ends(s)
  /\ doomed' = doomed \ {s}
  /\ UNCHANGED <<tableVars, created, name, stored, callVars, gate, writer>>

\* A committed batch: every session has moved to the next server.
BatchCommits ==
  /\ gate = "held" /\ writer = "batch"
  /\ sessions' = [n \in Names |-> 0]
  /\ running' = running \ Listed
  /\ unreaped' = unreaped \ Listed
  /\ UNCHANGED <<pending, closed, created, name, stored, callVars, gateVars>>

\* adoptSessionsWithReport installs what it committed, all names under one
\* hold of h.mu, and keeps lifecycleMu while it retires the old server.
AdoptInstalls(N) ==
  /\ gate = "held" /\ writer = "adopt"
  /\ created + Cardinality(N) <= MaxStates
  /\ created' = created + Cardinality(N)
  /\ \E id \in Bijection(N, created + 1 .. created + Cardinality(N)) :
       /\ sessions' = [n \in Names |-> IF n \in N THEN id[n] ELSE 0]
       /\ name' = [s \in States |-> IF s \in Range(id) THEN Inverse(id, N, Range(id))[s]
                                    ELSE name[s]]
  /\ running' = running \cup (created + 1 .. created + Cardinality(N))
  /\ stored' = stored \cup (created + 1 .. created + Cardinality(N))
  /\ writer' = "adopted"
  /\ UNCHANGED <<unreaped, pending, closed, callVars, doomed, gate>>

\* lifecycleMu.Unlock.
WriterLeaves ==
  /\ gate = "held"
  /\ doomed = {}
  /\ gate' = "none"
  /\ writer' = "none"
  /\ UNCHANGED <<tableVars, worldVars, callVars, doomed>>

-----------------------------------------------------------------------------
CallStep(c) ==
  \/ StartSpawn(c) \/ StartFails(c) \/ StartInstall(c)
  \/ DeleteRemove(c) \/ Terminate(c) \/ DeleteDiscard(c)

GateStep ==
  \/ WriterEnters
  \/ \E s \in States : CloseTerminates(s)
  \/ WriterLeaves

Next ==
  \/ \E c \in Callers :
       \/ CallStep(c)
       \/ \E n \in Names : StartReserve(c, n) \/ Get(c, n)
       \/ TerminateCall(c) \/ DeleteCall(c)
  \/ \E s \in States : ChildExits(s)
  \/ \E w \in {"close", "batch", "adopt"} : WriterWaits(w)
  \/ GateStep
  \/ BatchCommits
  \/ \E N \in SUBSET Names : AdoptInstalls(N)

Spec == Init /\ [][Next]_vars

\* Goroutines are scheduled; every call returns (Session shows when it does
\* not), and the admin connection's deadline ends a batch.
Fairness == /\ \A c \in Callers : WF_vars(CallStep(c))
            /\ WF_vars(GateStep)
FairSpec == Spec /\ Fairness

-----------------------------------------------------------------------------
\* Properties.

\* Only that every variable has its type.
TypeOK ==
  /\ sessions \in [Names -> 0 .. created]
  /\ pending \subseteq Names
  /\ closed \in BOOLEAN
  /\ created \in 0 .. MaxStates
  /\ name \in [States -> Names]
  /\ running \subseteq 1 .. created /\ unreaped \subseteq running /\ stored \subseteq 1 .. created
  /\ pc \in [Callers -> {"idle", "spawn", "install", "terminate",
                         "remove", "kill", "discard"}]
  /\ target \in [Callers -> Names]
  /\ handle \in [Callers -> 0 .. created]
  /\ gate \in {"none", "wait", "held"}
  /\ writer \in {"none", "close", "batch", "adopt", "adopted"}
  /\ doomed \subseteq 1 .. created

\* Sessions a call in progress is about to install or to end.
InHand == {handle[c] : c \in {d \in Callers : pc[d] \in {"install", "kill"}}}

\* While a writer holds the gate (a batch between list and commit, an adoption,
\* a Close) no caller is between two sections: none has reserved a name, spawned
\* a child it has not installed, or removed a session it has not ended.
InventoryClosed ==
  gate = "held" => pending = {} /\ running \cap InHand = {}

\* One child per name is being started or listed, however Starts overlap.
OneChildPerName ==
  \A n \in Names :
    Cardinality({s \in running : name[s] = n /\
                   (s \in Listed \/ \E c \in Callers :
                      pc[c] = "install" /\ handle[c] = s)}) <= 1

\* A session is known: no process tree runs that is neither listed nor in the
\* hands of a call, unless its terminate gave up on it and said so (process.go:673;
\* with one caller of Delete per session).
NothingOrphaned == running \subseteq Listed \cup InHand \cup doomed \cup unreaped

CloseReturned == closed /\ gate # "held"

\* A writer that waits is let in, and Close returns.
CloseReturns == gate = "wait" ~> gate = "none"

\* hub.go:268: "Close terminates every session", but for those that it reports as not
\* reaped, or that an earlier call did.
CloseTerminatesAll == CloseReturned => running \subseteq unreaped

=============================================================================
