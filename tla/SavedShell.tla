------------------------------ MODULE SavedShell ------------------------------
(***************************************************************************)
(* What popup-shell promises, without tmux: a saved shell outlives every    *)
(* popup that shows it, a popup shows only a running shell, and several     *)
(* popups may show the same one.                                            *)
(***************************************************************************)
CONSTANTS
  Popups,      \* popup panes
  Sessions,    \* saved-shell identities
  NoSession    \* what a popup that is not open shows

VARIABLES
  running,     \* the identities whose shell runs
  view         \* the shell each popup shows

vars == <<running, view>>

TypeOK ==
  /\ running \subseteq Sessions
  /\ view \in [Popups -> Sessions \cup {NoSession}]

Init ==
  /\ running = {}
  /\ view = [p \in Popups |-> NoSession]

\* The first popup of an identity starts its shell.
Start(s) ==
  /\ running' = running \cup {s}
  /\ UNCHANGED view

\* A popup opens on a running shell.
Open(p, s) ==
  /\ view[p] = NoSession
  /\ s \in running
  /\ view' = [view EXCEPT ![p] = s]
  /\ UNCHANGED running

\* A popup closes; the shell goes on.
Close(p) ==
  /\ view' = [view EXCEPT ![p] = NoSession]
  /\ UNCHANGED running

\* The shell exits, which closes every popup that shows it.
Exit(s) ==
  /\ s \in running
  /\ running' = running \ {s}
  /\ view' = [p \in Popups |-> IF view[p] = s THEN NoSession ELSE view[p]]

Next ==
  \/ \E s \in Sessions : Start(s) \/ Exit(s)
  \/ \E p \in Popups : Close(p) \/ \E s \in Sessions : Open(p, s)

Spec == Init /\ [][Next]_vars
===============================================================================
