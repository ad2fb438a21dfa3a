---------------------------- MODULE AtomicRegistry ----------------------------
(***************************************************************************)
(* What state.Store promises processes that hold its lock around each       *)
(* operation: a map from scope keys to entries on which an operation takes  *)
(* effect in one step, between its call and its return, or fails and leaves *)
(* the map alone.                                                           *)
(***************************************************************************)
EXTENDS PopupEntries

CONSTANTS
  Procs,       \* processes of the plugin
  Idle         \* the request of a process that asks for nothing

VARIABLES
  registry,    \* the entries, a function on a subset of Keys
  request,     \* the operation each process executes
  result       \* what has become of it, and the registry its Get looks into

vars == <<registry, request, result>>

Pending == [is |-> "pending", got |-> Empty]
Failed == [is |-> "failed", got |-> Empty]

\* Only Get answers from the registry.
Done(r, reg) == [is |-> "done", got |-> IF r.op = "get" THEN reg ELSE Empty]

Init ==
  /\ registry \in Registries
  /\ request = [p \in Procs |-> Idle]
  /\ result = [p \in Procs |-> Pending]

Call(p, r) ==
  /\ request[p] = Idle
  /\ request' = [request EXCEPT ![p] = r]
  /\ UNCHANGED <<registry, result>>

TakeEffect(p) ==
  /\ request[p] # Idle /\ result[p] = Pending
  /\ registry' = Apply(request[p], registry)
  /\ result' = [result EXCEPT ![p] = Done(request[p], registry)]
  /\ UNCHANGED request

GiveUp(p) ==
  /\ request[p] # Idle /\ result[p] = Pending
  /\ result' = [result EXCEPT ![p] = Failed]
  /\ UNCHANGED <<registry, request>>

Ends(p) ==
  /\ request[p] # Idle
  /\ request' = [request EXCEPT ![p] = Idle]
  /\ result' = [result EXCEPT ![p] = Pending]
  /\ UNCHANGED registry

\* The operation returns once it has taken effect or failed.
Return(p) == result[p] # Pending /\ Ends(p)

\* Its process dies, before or after the effect.
Die(p) == Ends(p)

Next ==
  \E p \in Procs :
    TakeEffect(p) \/ GiveUp(p) \/ Return(p) \/ Die(p) \/ \E r \in Requests : Call(p, r)

\* Another program spoils the document between two operations.
Forget ==
  /\ \A p \in Procs : request[p] = Idle
  /\ registry' = Empty
  /\ UNCHANGED <<request, result>>

Spec == Init /\ [][Next \/ Forget]_vars
===============================================================================
