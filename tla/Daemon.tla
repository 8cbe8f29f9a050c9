-------------------------------- MODULE Daemon --------------------------------
(***************************************************************************)
(* Server processes on one socket path and the managed clients that start, *)
(* await and stop them (client.go, server.go, cmd/ghostline).              *)
(*                                                                         *)
(* A server binds its public path and then the admin path; each system     *)
(* call on a path is a step of its own, since any number of servers start, *)
(* stop and crash on the same path.  Go's Close of a listener unlinks the  *)
(* path it was bound to, whoever's socket is there by then.                *)
(***************************************************************************)
EXTENDS Naturals, Sequences

CONSTANTS Servers, Clients, Callers,   \* processes, managed clients, goroutines using them
          None, Stale,                 \* no socket file; one whose server is long gone
          Ops,                         \* what callers do: "ensure", "call", "close"
          MaxCalls,                    \* calls begun
          Events                       \* what may befall: "stale", "slow", "crash", "retire"

ASSUME DaemonAssumption ==
  /\ None \notin Servers \cup Clients \cup Callers \cup {Stale} /\ Stale \notin Servers
  /\ Ops \subseteq {"ensure", "call", "close"} /\ MaxCalls \in Nat
  /\ Events \subseteq {"stale", "slow", "crash", "retire"}

VARIABLES path,      \* path -> whose socket file is there
          spc, at,   \* server -> its next step, the path it is binding
          sock,      \* server -> path -> state of its listener
          todo,      \* server -> what a return of Serve still closes and removes
          quit,      \* server -> why it is to stop: "term" (SIGTERM), "exit" (upgrade)
          cmd,       \* client -> the process it owns (clientLifecycle.cmd)
          mutex,     \* client -> the caller inside clientLifecycle.mu
          kpc, op, of, \* caller -> its next step, what it does, with which client
          mine,      \* caller -> the process its call started or signalled
          broken,    \* caller -> its call has lost a request to a transport error
          calls      \* how many calls were begun

serverVars == <<path, spc, at, sock, todo, quit>>
clientVars == <<cmd, mutex>>
callerVars == <<kpc, op, of, mine, broken, calls>>
vars       == <<serverVars, clientVars, callerVars>>

Paths     == {"pub", "admin"}
Cleanups  == [do : {"close", "remove"}, at : Paths]
Close(x)  == [do |-> "close", at |-> x]
Remove(x) == [do |-> "remove", at |-> x]

Alive(p)     == spc[p] \notin {"unborn", "dead"}
Listens(p,x) == sock[p][x] = "listening"
Reachable(x) == path[x] \in Servers /\ Listens(path[x], x)

\* Whether a dial of x connects; a dial that is given 100 ms may also time out.
Dials(x) == IF Reachable(x) THEN {TRUE} \cup {~("slow" \in Events)} ELSE {FALSE}

Init ==
  /\ \/ path = [x \in Paths |-> None]
     \/ "stale" \in Events /\ path = [x \in Paths |-> Stale]
  /\ spc = [p \in Servers |-> "unborn"] /\ at = [p \in Servers |-> "pub"]
  /\ sock = [p \in Servers |-> [x \in Paths |-> "none"]]
  /\ todo = [p \in Servers |-> <<>>] /\ quit = [p \in Servers |-> {}]
  /\ cmd = [c \in Clients |-> None] /\ mutex = [c \in Clients |-> None]
  /\ kpc = [k \in Callers |-> "idle"] /\ op = [k \in Callers |-> "none"]
  /\ of = [k \in Callers |-> None] /\ mine = [k \in Callers |-> None]
  /\ broken = [k \in Callers |-> FALSE] /\ calls = 0

-----------------------------------------------------------------------------
\* A server process.

\* The process is gone: its listeners refuse, its socket files stay.
Dies(p) == /\ spc' = [spc EXCEPT ![p] = "dead"]
           /\ path' = [x \in Paths |-> IF path[x] = p THEN Stale ELSE path[x]]
           /\ sock' = [sock EXCEPT ![p] = [x \in Paths |-> "none"]]
           /\ todo' = [todo EXCEPT ![p] = <<>>] /\ at' = [at EXCEPT ![p] = "pub"]
           /\ quit' = [quit EXCEPT ![p] = {}]

Goes(p, next) == /\ spc' = [spc EXCEPT ![p] = next]
                 /\ UNCHANGED <<at, todo, quit>>

\* Flags parsed, NotifyContext installed: from now on SIGTERM is caught.
Boot(p) == spc[p] = "boot" /\ Goes(p, "stat") /\ UNCHANGED <<path, sock>>

\* Faulty variant: a failed admin listener leaves the public one as it is.
Faulty_ServeFails(p, first) ==
  /\ spc' = [spc EXCEPT ![p] = "fail"] /\ todo' = [todo EXCEPT ![p] = first]
  /\ UNCHANGED <<at, quit>>

\* Serve returns an error; what its deferred calls undo depends on how far it came.
ServeFails(p, first) ==
  LET rest == IF at[p] = "admin" THEN <<Remove("pub"), Close("pub")>> ELSE <<>>
  IN  /\ spc' = [spc EXCEPT ![p] = "fail"]
      /\ todo' = [todo EXCEPT ![p] = first \o rest]
      /\ UNCHANGED <<at, quit>>

\* listenUnix: Lstat, probe, unlink, bind and listen are separate system calls.
Lstat(p) ==
  /\ spc[p] = "stat"
  /\ Goes(p, IF path[at[p]] = None THEN "bind" ELSE "probe")
  /\ UNCHANGED <<path, sock>>

Probe(p) ==
  /\ spc[p] = "probe"
  /\ \E ready \in Dials(at[p]) : IF ready THEN ServeFails(p, <<>>) ELSE Goes(p, "unlink")
  /\ UNCHANGED <<path, sock>>

Unlink(p) ==
  /\ spc[p] = "unlink"
  /\ path' = [path EXCEPT ![at[p]] = None]
  /\ Goes(p, "bind") /\ UNCHANGED sock

Bind(p) ==
  /\ spc[p] = "bind"
  /\ \/ /\ path[at[p]] # None /\ ServeFails(p, <<>>) /\ UNCHANGED <<path, sock>>
     \/ /\ path[at[p]] = None /\ Goes(p, "listen")
        /\ path' = [path EXCEPT ![at[p]] = p]
        /\ sock' = [sock EXCEPT ![p][at[p]] = "bound"]

Listen(p) ==
  /\ spc[p] = "listen"
  /\ sock' = [sock EXCEPT ![p][at[p]] = "listening"]
  /\ Goes(p, "chmod") /\ UNCHANGED path

\* Chmod works on the path, and fails if somebody has unlinked it.
Chmod(p) ==
  /\ spc[p] = "chmod" /\ UNCHANGED <<path, sock>>
  /\ \/ path[at[p]] = None /\ ServeFails(p, <<Close(at[p]), Remove(at[p])>>)
     \/ /\ path[at[p]] # None /\ at[p] = "pub"
        /\ at' = [at EXCEPT ![p] = "admin"] /\ spc' = [spc EXCEPT ![p] = "stat"]
        /\ UNCHANGED <<todo, quit>>
     \/ path[at[p]] # None /\ at[p] = "admin" /\ Goes(p, "serve")

\* UnixListener.Close unlinks its path once and closes; a second Close does nothing.
CloseListener(p, x) ==
  IF sock[p][x] \in {"bound", "listening"}
  THEN path' = [path EXCEPT ![x] = None] /\ sock' = [sock EXCEPT ![p][x] = "closed"]
  ELSE UNCHANGED <<path, sock>>

\* The goroutine that awaits the context, or requestExit: the public listener first.
StopListening(p, x) ==
  /\ spc[p] \in {"serve", "clean"} /\ quit[p] # {} /\ Listens(p, x)
  /\ x = "admin" => ~Listens(p, "pub")
  /\ CloseListener(p, x) /\ UNCHANGED <<spc, at, todo, quit>>

\* Accept fails on the closed listener and Serve returns; the deferred Close of that
\* listener has nothing left to do.
ServeReturns(p) ==
  /\ spc[p] = "serve" /\ ~Listens(p, "pub")
  /\ spc' = [spc EXCEPT ![p] = "clean"]
  /\ todo' = [todo EXCEPT ![p] = <<Remove("admin"), Close("admin"), Remove("pub")>>]
  /\ UNCHANGED <<path, sock, at, quit>>

\* One deferred call of Serve.
Deferred(p) ==
  /\ todo[p] # <<>> /\ spc[p] \in {"fail", "clean"}
  /\ LET d == Head(todo[p])
     IN  \/ d.do = "close" /\ CloseListener(p, d.at)
         \/ d.do = "remove" /\ path' = [path EXCEPT ![d.at] = None] /\ UNCHANGED sock
  /\ todo' = [todo EXCEPT ![p] = Tail(todo[p])]
  /\ UNCHANGED <<spc, at, quit>>

\* serveCommand ends; after a SIGTERM it first terminates the sessions (Shutdown).
Exit(p) ==
  /\ \/ spc[p] \in {"fail", "clean"} /\ todo[p] = <<>>
     \/ spc[p] = "shutdown"
  /\ IF spc[p] = "clean" /\ "term" \in quit[p]
     THEN Goes(p, "shutdown") /\ UNCHANGED <<path, sock>>
     ELSE Dies(p)

ServerStep(p) ==
  /\ \/ Boot(p) \/ Lstat(p) \/ Probe(p) \/ Unlink(p) \/ Bind(p) \/ Listen(p) \/ Chmod(p)
     \/ ServeReturns(p) \/ Deferred(p) \/ Exit(p)
     \/ \E x \in Paths : StopListening(p, x)
  /\ UNCHANGED <<clientVars, callerVars>>

\* The destination of a rolling upgrade asks a server to exit (requestExit).
Retire(p) ==
  /\ "retire" \in Events /\ spc[p] = "serve" /\ quit[p] = {}
  /\ quit' = [quit EXCEPT ![p] = {"exit"}]
  /\ UNCHANGED <<path, spc, at, sock, todo, clientVars, callerVars>>

Crash(p) ==
  /\ "crash" \in Events /\ Alive(p) /\ Dies(p)
  /\ UNCHANGED <<clientVars, callerVars>>

-----------------------------------------------------------------------------
\* A call on a managed client.

Step(k, next) == kpc' = [kpc EXCEPT ![k] = next] /\ UNCHANGED <<op, of, broken, calls>>

Returns(k) == /\ kpc' = [kpc EXCEPT ![k] = "idle"] /\ op' = [op EXCEPT ![k] = "none"]
              /\ of' = [of EXCEPT ![k] = None] /\ mine' = [mine EXCEPT ![k] = None]
              /\ broken' = [broken EXCEPT ![k] = FALSE] /\ UNCHANGED calls

\* A caller leaves spawnAndWait or Close, with the client owning p or nothing.
Unlocks(k, p) == /\ mutex' = [mutex EXCEPT ![of[k]] = None]
                 /\ cmd' = [cmd EXCEPT ![of[k]] = p]

\* spawnAndWait found or made a server: a call sends its request again.
Ready(k, p) == /\ Unlocks(k, p)
               /\ \/ op[k] = "call" /\ Step(k, "send") /\ mine' = [mine EXCEPT ![k] = None]
                  \/ op[k] # "call" /\ Returns(k)

Begin(k, c, o) ==
  /\ kpc[k] = "idle" /\ calls < MaxCalls /\ calls' = calls + 1
  /\ kpc' = [kpc EXCEPT ![k] = CASE o = "ensure" -> "ask" [] o = "call" -> "send" [] o = "close" -> "lock"]
  /\ op' = [op EXCEPT ![k] = o] /\ of' = [of EXCEPT ![k] = c]
  /\ UNCHANGED <<mine, broken, serverVars, clientVars>>

\* ConnectManaged, Ensure and the second thoughts of callRetryable: a server that
\* accepts connections is used as it is, and a call that it failed is not repeated.
Ask(k) ==
  /\ kpc[k] = "ask"
  /\ \E ready \in Dials("pub") :
       \/ ready /\ Returns(k)
       \/ ~ready /\ Step(k, "lock") /\ UNCHANGED mine
  /\ UNCHANGED <<serverVars, clientVars>>

\* A transport error ends the first request of a call in second thoughts, the
\* second one in an error (callRetryable).
Breaks(k) ==
  \/ /\ ~broken[k] /\ broken' = [broken EXCEPT ![k] = TRUE]
     /\ kpc' = [kpc EXCEPT ![k] = "ask"] /\ UNCHANGED <<op, of, mine, calls>>
  \/ broken[k] /\ Returns(k)

\* callOnce: it is answered or its context ends, or the dial fails or the connection
\* ends first (the server had no free slot for it, or died).
Send(k) ==
  /\ kpc[k] = "send"
  /\ Returns(k) \/ Breaks(k)
  /\ UNCHANGED <<serverVars, clientVars>>

\* spawnAndWait looks again under the lock.
Check(k) ==
  /\ kpc[k] = "lock" /\ op[k] # "close" /\ mutex[of[k]] = None
  /\ \E ready \in Dials("pub") :
       \/ ready /\ Ready(k, cmd[of[k]])
       \/ /\ ~ready /\ Step(k, "spawn")
          /\ mutex' = [mutex EXCEPT ![of[k]] = k] /\ UNCHANGED <<mine, cmd>>
  /\ UNCHANGED serverVars

Unborn == {p \in Servers : spc[p] = "unborn"}

\* The command may not start; a process that did becomes the client's, in place of
\* whatever it owned.  Unborn processes do not differ, so any one of them will do.
Spawn(k) ==
  LET p == CHOOSE q \in Unborn : TRUE
  IN  /\ kpc[k] = "spawn" /\ UNCHANGED <<path, at, sock, todo, quit>>
      /\ \/ Unlocks(k, cmd[of[k]]) /\ Returns(k) /\ UNCHANGED spc
         \/ /\ Unborn # {} /\ spc' = [spc EXCEPT ![p] = "boot"]
            /\ cmd' = [cmd EXCEPT ![of[k]] = p] /\ mine' = [mine EXCEPT ![k] = p]
            /\ Step(k, "poll") /\ UNCHANGED mutex

\* waitReady: has the process exited, does the socket accept?  It asks until one of
\* the two is so; after the first failed dial the wait may also end (GiveUp).
Poll(k) ==
  /\ kpc[k] \in {"poll", "pause"}
  /\ \/ ~Alive(mine[k]) /\ Step(k, "exited") /\ UNCHANGED <<mine, clientVars>>
     \/ Alive(mine[k]) /\ TRUE \in Dials("pub") /\ Ready(k, cmd[of[k]])
     \/ /\ Alive(mine[k]) /\ FALSE \in Dials("pub") /\ kpc[k] = "poll"
        /\ Step(k, "pause") /\ UNCHANGED <<mine, clientVars>>
  /\ UNCHANGED serverVars

\* Faulty variant: the process is left running.
Faulty_GiveUp(k) ==
  kpc[k] = "pause" /\ Unlocks(k, None) /\ Returns(k) /\ UNCHANGED serverVars

\* The timer or the caller's context ends the wait: the process is killed and reaped.
GiveUp(k) ==
  /\ kpc[k] = "pause"
  /\ IF Alive(mine[k]) THEN Dies(mine[k]) ELSE UNCHANGED serverVars
  /\ Unlocks(k, None) /\ Returns(k)

\* readyAfterExit: somebody else's server may have the socket.
AfterExit(k) ==
  /\ kpc[k] = "exited"
  /\ \E ready \in Dials("pub") :
       \/ ready /\ Ready(k, None)
       \/ ~ready /\ Unlocks(k, None) /\ Returns(k)
  /\ UNCHANGED serverVars

\* Faulty variant: no signal is sent.
Faulty_Sigterm(p) == UNCHANGED serverVars

\* SIGTERM kills a process that does not catch it yet; after its end it does nothing.
Sigterm(p) ==
  \/ spc[p] = "boot" /\ Dies(p)
  \/ /\ Alive(p) /\ spc[p] # "boot"
     /\ quit' = [quit EXCEPT ![p] = @ \cup {"term"}]
     /\ UNCHANGED <<path, spc, at, sock, todo>>
  \/ ~Alive(p) /\ UNCHANGED serverVars

\* Close signals the process the client owns, if any, and awaits its end.
Stop(k) ==
  LET p == cmd[of[k]]
  IN  /\ kpc[k] = "lock" /\ op[k] = "close" /\ mutex[of[k]] = None
      /\ \/ p = None /\ Returns(k) /\ UNCHANGED <<serverVars, clientVars>>
         \/ /\ p # None /\ mine' = [mine EXCEPT ![k] = p] /\ Step(k, "await")
            /\ mutex' = [mutex EXCEPT ![of[k]] = k] /\ UNCHANGED cmd
            /\ Sigterm(p)

Await(k) ==
  /\ kpc[k] = "await" /\ ~Alive(mine[k])
  /\ Unlocks(k, None) /\ Returns(k) /\ UNCHANGED serverVars

CallerStep(k) ==
  \/ Ask(k) \/ Send(k) \/ Check(k) \/ Spawn(k) \/ Poll(k) \/ GiveUp(k)
  \/ AfterExit(k) \/ Stop(k) \/ Await(k)

Next ==
  \/ \E p \in Servers : ServerStep(p) \/ Retire(p) \/ Crash(p)
  \/ \E k \in Callers : CallerStep(k) \/ \E c \in Clients, o \in Ops : Begin(k, c, o)

Spec == Init /\ [][Next]_vars

Runs == (\E p \in Servers : ServerStep(p)) \/ (\E k \in Callers : CallerStep(k))

\* Processes and goroutines are scheduled and the timer of waitReady fires.  Servers
\* and calls are finitely many and none of their steps loops, so that it is enough
\* not to stop while one can run.  Nothing has to be begun, to crash or to retire.
FairSpec == Spec /\ WF_vars(Runs)

-----------------------------------------------------------------------------
\* Properties.

ServerSteps == {"unborn", "boot", "stat", "probe", "unlink", "bind", "listen", "chmod",
                "serve", "fail", "clean", "shutdown", "dead"}
Outside     == {"idle", "ask", "send", "lock"}
Inside      == {"spawn", "poll", "pause", "exited", "await"}

\* Types, and that a caller holds its client's lifecycle mutex exactly while it is
\* between taking and releasing it (spawnAndWait, Close).
TypeOK ==
  /\ path \in [Paths -> Servers \cup {None, Stale}]
  /\ spc \in [Servers -> ServerSteps] /\ at \in [Servers -> Paths]
  /\ sock \in [Servers -> [Paths -> {"none", "bound", "listening", "closed"}]]
  /\ \A p \in Servers : todo[p] \in Seq(Cleanups) /\ Len(todo[p]) <= 4
  /\ quit \in [Servers -> SUBSET {"term", "exit"}]
  /\ cmd \in [Clients -> Servers \cup {None}] /\ mutex \in [Clients -> Callers \cup {None}]
  /\ kpc \in [Callers -> Outside \cup Inside] /\ op \in [Callers -> Ops \cup {"none"}]
  /\ of \in [Callers -> Clients \cup {None}] /\ mine \in [Callers -> Servers \cup {None}]
  /\ broken \in [Callers -> BOOLEAN] /\ calls \in 0 .. MaxCalls
  /\ \A k \in Callers : of[k] # None =>
       (mutex[of[k]] = k <=> kpc[k] \in Inside)

\* A call that started or signalled a process leaves the client's lifecycle owning
\* it, or the process has ended: exit, time-out, cancellation and Close alike
\* (spawnAndWait kills and reaps, Close awaits).
StartedIsOwnedOrDead ==
  [][\A k \in Callers :
       of[k] # None /\ mine[k] # None /\ mutex[of[k]] = k /\ mutex'[of[k]] # k
         => cmd'[of[k]] = mine[k] \/ spc'[mine[k]] = "dead"]_vars

\* A server that exits by itself, successfully or not, leaves no socket file of its
\* own, at whichever step of binding its two paths it failed (Serve's deferred calls).
ExitLeavesNoSocket ==
  [][\A p \in Servers : Exit(p) /\ spc'[p] = "dead" => \A x \in Paths : path[x] # p]_vars

\* Every call on a managed client returns, whatever servers fail, race or crash:
\* Close gets its process to exit, and a wait for a socket that stays silent ends.
CallsReturn == \A k \in Callers : []<>(kpc[k] = "idle")

\* What listenUnix's comment says: a server that is listening keeps its socket.
LiveSocketKept ==
  \A p \in Servers : spc[p] \in {"chmod", "serve"} /\ Listens(p, "pub") => path["pub"] = p

\* RFC 0001: the client of a losing spawn does not claim process ownership.
LoserNotOwned ==
  \A c \in Clients : mutex[c] = None /\ cmd[c] # None => spc[cmd[c]] # "fail"

\* ConnectManaged's comment: the client owns the server it spawned, Close stops it.
ReachableIsOwned ==
  Reachable("pub") => \E c \in Clients : cmd[c] = path["pub"]
=============================================================================
