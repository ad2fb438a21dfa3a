------------------------------- MODULE MCDoctor -------------------------------
(* An instance of Doctor: popups and the doctor may have different keys, one of
   which tmux rejects. *)
EXTENDS MCPopupShell, Doctor, TLC

MCFallback == {"M-l", "M-bogus"}
MCOnlyDefault == {"M-l"}
MCDefaultCode == [k \in MCOnlyDefault |-> "alt_l"]

\* Nothing orders the popups.
Symmetry == Permutations(Popups)
===============================================================================
