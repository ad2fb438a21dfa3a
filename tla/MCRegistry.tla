----------------------------- MODULE MCRegistry -----------------------------
(* Instances of Registry.  Keys, panes, processes and contents are
   interchangeable: nothing orders them. *)
EXTENDS Registry, TLC

Interchangeable ==
  Permutations(Keys) \cup Permutations(Panes) \cup Permutations(Procs) \cup Permutations(Junk)

\* What of the state a later step or a property can depend on: not the variables an
\* operation has left behind.
Needed(p) ==
  <<step[p], request[p],
    IF step[p] \in Storing \cup {"return"} THEN seen[p] ELSE Empty,
    IF step[p] \in {"resetRename", "rename"} THEN temp[p] ELSE Absent,
    IF step[p] = "moveAside" THEN backup[p] ELSE <<>>,
    step[p] = "return" /\ failed[p]>>
NeededState == <<disk, lock, clock, [p \in Procs |-> Needed(p)]>>
=============================================================================
