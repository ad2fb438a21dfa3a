---------------------------- MODULE MCLegacyToggle ----------------------------
(* Instances of LegacyToggle: one overlay per scope, and the circumstances
   of each run. *)
EXTENDS LegacyToggle, TLC

CONSTANTS k1, k2, w1, w2

OneScope == k1 :> w1
TwoScopes == k1 :> w1 @@ k2 :> w2

\* Everything may happen, also to toggles that do not overlap.
AnyConditions == {Circumstances, Circumstances \ {"overlap", "sameScope"}}

\* What one thing does alone.
TwoPresses == {{"sameScope"}}
GetsFail == {{"getFails"}}
ClosesFail == {{"closeFails"}}

\* Processes are interchangeable, and so are the scopes with their overlays.
Swap == [x \in {k1, k2, w1, w2} |-> CASE x = k1 -> k2 [] x = k2 -> k1 [] x = w1 -> w2 [] x = w2 -> w1]
Interchangeable == Permutations(Procs) \cup {Swap}

\* What of the state a later step or a property can depend on: not the variables
\* of a process that has ended, nor what an operation has left behind.
Needed(p) ==
  IF at[p] = "off" THEN <<>>
  ELSE <<at[p], scope[p], step[p],
         IF at[p] = "paneGet" \/ step[p] \in Storing \cup {"return"} THEN seen[p] ELSE Empty,
         IF step[p] = "moveAside" THEN backup[p] ELSE <<>>,
         step[p] = "return" /\ failed[p]>>
NeededState ==
  <<disk, live, happens,
    {k \in Keys : OverlayOf[k] \in live /\ lapses[k] # {}},
    {k \in Keys : OverlayOf[k] \in live /\ lapses[k] \cap Losing # {}},
    [p \in Procs |-> Needed(p)]>>
===============================================================================
