---------------------------- MODULE OutputStream ----------------------------
(***************************************************************************)
(* What Session.Output promises, with no generations, files, locks or      *)
(* size marks: one growing stream of bytes, each produced for some grid;   *)
(* readers that move forward through it without repeating or reordering a  *)
(* byte; and gaps only over bytes that retention has removed.              *)
(***************************************************************************)
EXTENDS Naturals, Sequences

CONSTANTS Readers, Grids, NoGrid, Detached

VARIABLES
  stream,  \* the grid of every byte recorded so far
  lost,    \* positions retention has removed
  pos,     \* bytes before each reader's position, or Detached
  offer    \* what a reader's call is about to deliver: length and size

vars == <<stream, lost, pos, offer>>

None == [n |-> 0, size |-> NoGrid]

Init ==
  /\ stream = <<>>
  /\ lost = {}
  /\ pos = [r \in Readers |-> Detached]
  /\ offer = [r \in Readers |-> None]

Produce ==
  /\ Len(stream') > Len(stream)
  /\ SubSeq(stream', 1, Len(stream)) = stream
  /\ UNCHANGED <<lost, pos, offer>>

Forget ==
  /\ lost \subseteq lost' /\ lost' \subseteq 1 .. Len(stream)
  /\ UNCHANGED <<stream, pos, offer>>

Attach(r) ==
  /\ pos[r] = Detached
  /\ \E p \in 0 .. Len(stream) : pos' = [pos EXCEPT ![r] = p]
  /\ UNCHANGED <<stream, lost, offer>>

\* One reader is closed, or a new server process drops them all.
Detach(R) ==
  /\ pos' = [r \in Readers |-> IF r \in R THEN Detached ELSE pos[r]]
  /\ offer' = [r \in Readers |-> IF r \in R THEN None ELSE offer[r]]
  /\ UNCHANGED <<stream, lost>>

\* The next n bytes, in order; a size that is given is the size of them all.
Offer(r) ==
  /\ pos[r] # Detached /\ offer[r] = None
  /\ \E n \in 1 .. Len(stream) - pos[r], s \in Grids \cup {NoGrid} :
       /\ s # NoGrid => \A i \in pos[r] + 1 .. pos[r] + n : stream[i] = s
       /\ offer' = [offer EXCEPT ![r] = [n |-> n, size |-> s]]
  /\ UNCHANGED <<stream, lost, pos>>

Deliver(r) ==
  /\ offer[r] # None
  /\ \E n \in 0 .. offer[r].n : pos' = [pos EXCEPT ![r] = @ + n]
  /\ offer' = [offer EXCEPT ![r] = None]
  /\ UNCHANGED <<stream, lost>>

\* Without a delivery a reader moves only over bytes that are gone.
Skip(r) ==
  /\ pos[r] # Detached /\ offer[r] = None
  /\ \E p \in pos[r] + 1 .. Len(stream) :
       /\ pos[r] + 1 .. p \subseteq lost
       /\ pos' = [pos EXCEPT ![r] = p]
  /\ UNCHANGED <<stream, lost, offer>>

Next ==
  \/ Produce
  \/ Forget
  \/ \E R \in SUBSET Readers : Detach(R)
  \/ \E r \in Readers : Attach(r) \/ Offer(r) \/ Deliver(r) \/ Skip(r)

Spec == Init /\ [][Next]_vars
=============================================================================
