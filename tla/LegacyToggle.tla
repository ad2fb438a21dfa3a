----------------------------- MODULE LegacyToggle -----------------------------
(***************************************************************************)
(* The toggle command (internal/toggle/toggle.go) with its migration guard, *)
(* composed with the registry it reads and writes without the lock and with *)
(* the panes of Herdr it asks about and closes.  Every key press starts a   *)
(* process; processes of several scopes run at the same time.               *)
(***************************************************************************)
EXTENDS Registry

CONSTANTS
  OverlayOf,   \* the pane an earlier release opened for each scope key
  Conditions   \* the sets of the mishaps below that a behaviour may have

Circumstances ==
  {"overlap",      \* toggles of different scopes run at the same time
   "sameScope",    \* so do toggles of one scope
   "getFails",     \* pane get fails or times out on a pane that exists
   "closeFails",   \* plugin pane close fails or times out
   "killed",       \* a process is killed
   "diskFails",    \* a file-system call of the Store fails
   "noStateDir"}   \* HERDR_PLUGIN_STATE_DIR is not set

\* What the command may do wrong while an overlay is there.
Lapses ==
  {"unasked",      \* it takes a pane get that failed for a pane that is gone
   "abandoned",    \* it is killed with the entry hidden and the pane open
   "unrestored",   \* its rollback fails
   "carried",      \* another scope is writing the entry back as it was hidden
   "overtaken",    \* another press is opening the popup as the entry was hidden
   "unlooked"}     \* it has no registry to look at

\* Those that leave the overlay without a visible entry.
Losing == {"unasked", "abandoned", "unrestored", "carried"}

ASSUME ToggleAssumption ==
  /\ OverlayOf \in [Keys -> Panes]
  /\ \A j, k \in Keys : OverlayOf[j] = OverlayOf[k] => j = k
  /\ Conditions \subseteq SUBSET Circumstances

VARIABLES
  happens,     \* the mishaps of this behaviour
  at,          \* where each process is in Run
  scope,       \* its legacyStateKey
  live,        \* the overlay panes Herdr shows
  lapses       \* history: the lapses about each scope's overlay while it is there

mishaps == <<happens, lapses>>
vars == <<registryVars, at, scope, live, mishaps>>

Places == {"off", "getting", "paneGet", "forgetting", "hiding", "close", "restoring", "open"}

TypeOK ==
  /\ RegistryTypeOK
  /\ happens \in Conditions
  /\ at \in [Procs -> Places]
  /\ scope \in [Procs -> Keys]
  /\ live \subseteq Panes
  /\ lapses \in [Keys -> SUBSET Lapses]
  /\ \A p \in Procs : step[p] # "idle" <=> at[p] \in {"getting", "forgetting", "hiding", "restoring"}

\* legacyEntryIsVisible: an entry is found and not hidden.  Its plugin and
\* entrypoint are its key's.
Visible(reg, k) == k \in DOMAIN reg /\ ~reg[k].hidden

\* The earlier release recorded the overlay of every scope, and marked hidden
\* the ones it had closed.
Init ==
  /\ RegistryInit
  /\ file \in Registries => \A k \in DOMAIN file : file[k].pane = OverlayOf[k]
  /\ live \in SUBSET {OverlayOf[k] :
       k \in {j \in Keys : file \in Registries /\ Visible(file, j)}}
  /\ happens \in Conditions
  /\ at = [p \in Procs |-> "off"]
  /\ scope \in [Procs -> Keys]
  /\ lapses = [k \in Keys |-> {}]

-------------------------------------------------------------------------------
\* The process moves on in Run; to "off" when it ends.
Move(p, from, to) ==
  /\ at[p] = from
  /\ at' = [at EXCEPT ![p] = to]
  /\ UNCHANGED scope

\* A lapse leaves its mark on the behaviour, for the properties, and stops nothing.
Lapse(k, cs) ==
  /\ lapses' = [lapses EXCEPT ![k] = IF OverlayOf[k] \in live THEN @ \cup cs ELSE @]
  /\ UNCHANGED happens

\* It calls a Store operation on its key, and goes on when that has returned.
CallStore(p, from, to, r) ==
  /\ Move(p, from, to)
  /\ Begin(p, r)

\* Run: closeVisibleLegacyOverlay looks for the entry of the key, unless there
\* is no state directory.
Toggle(p, k) ==
  /\ at[p] = "off"
  /\ \A q \in Procs : at[q] # "off" =>
       (IF scope[q] = k THEN "sameScope" ELSE "overlap") \in happens
  /\ scope' = [scope EXCEPT ![p] = k]
  /\ at' = [at EXCEPT ![p] = "getting"]
  /\ Begin(p, [op |-> "get", key |-> k])
  /\ UNCHANGED <<live, mishaps>>

ToggleStateless(p, k) ==
  /\ "noStateDir" \in happens
  /\ at[p] = "off"
  /\ scope' = [scope EXCEPT ![p] = k]
  /\ at' = [at EXCEPT ![p] = "open"]
  /\ Lapse(k, {"unlooked"})
  /\ UNCHANGED <<registryVars, live>>

\* store.Get: an error ends the command, no visible entry opens the popup.
Got(p) ==
  /\ Move(p, "getting",
          IF failed[p] THEN "off" ELSE IF Visible(seen[p], scope[p]) THEN "paneGet" ELSE "open")
  /\ Return(p)
  /\ UNCHANGED <<live, mishaps>>

\* client.PaneExists is false for any error of pane get, PluginPaneClose reports
\* any error of plugin pane close: there is no such pane, or the command failed or
\* was cut off.
GetMayFail(w) == w \notin live \/ "getFails" \in happens
CloseMayFail(w) == w \notin live \/ "closeFails" \in happens

\* PaneExists: a pane get that succeeds, and the entry is marked hidden ...
PaneExists(p) ==
  /\ CallStore(p, "paneGet", "hiding", [op |-> "setHidden", key |-> scope[p], hidden |-> TRUE])
  /\ seen[p][scope[p]].pane \in live
  /\ UNCHANGED <<live, mishaps>>

\* Mutant: a pane that is gone is waited for.
PaneAwaited(p) ==
  /\ CallStore(p, "paneGet", "forgetting", [op |-> "delete", key |-> scope[p]])
  /\ seen[p][scope[p]].pane \in live /\ "getFails" \in happens
  /\ Lapse(scope[p], {"unasked"})
  /\ UNCHANGED live

\* ... or fails, whatever for, and the entry is deleted.
PaneMissing(p) ==
  /\ CallStore(p, "paneGet", "forgetting", [op |-> "delete", key |-> scope[p]])
  /\ GetMayFail(seen[p][scope[p]].pane)
  /\ Lapse(scope[p], {"unasked"})
  /\ UNCHANGED live

Forgot(p) ==
  /\ Move(p, "forgetting", IF failed[p] THEN "off" ELSE "open")
  /\ Return(p)
  /\ UNCHANGED <<live, mishaps>>

\* Mutant: the close command does not wait for the entry to be written.
HidUnfinished(p) ==
  /\ Move(p, "hiding", "close")
  /\ UNCHANGED <<registryVars, live, mishaps>>

\* Mutant: the command ends once the entry is hidden.
HidEnds(p) ==
  /\ Move(p, "hiding", "off")
  /\ Return(p)
  /\ UNCHANGED <<live, mishaps>>

Hid(p) ==
  /\ Move(p, "hiding", IF failed[p] THEN "off" ELSE "close")
  /\ Return(p)
  /\ UNCHANGED <<live, mishaps>>

\* PluginPaneClose closes the overlay, and the command is done ...
PaneClosed(p) ==
  /\ OverlayOf[scope[p]] \in live
  /\ Move(p, "close", "off")
  /\ live' = live \ {OverlayOf[scope[p]]}
  /\ UNCHANGED <<registryVars, mishaps>>

\* Mutant: the error of the close is ignored, as its comment expects.
CloseErrorIgnored(p) ==
  /\ CloseMayFail(OverlayOf[scope[p]])
  /\ Move(p, "close", "off")
  /\ live' \in {live, live \ {OverlayOf[scope[p]]}}
  /\ UNCHANGED <<registryVars, mishaps>>

\* Mutant: a close that fails is tried again.
CloseRetried(p) ==
  /\ CloseMayFail(OverlayOf[scope[p]])
  /\ Move(p, "close", "paneGet")
  /\ live' \in {live, live \ {OverlayOf[scope[p]]}}
  /\ UNCHANGED <<registryVars, mishaps>>

\* ... or reports an error, before or after Herdr has closed it; the entry is
\* visible again.
PaneCloseFails(p) ==
  /\ CloseMayFail(OverlayOf[scope[p]])
  /\ CallStore(p, "close", "restoring", [op |-> "setHidden", key |-> scope[p], hidden |-> FALSE])
  /\ live' \in {live, live \ {OverlayOf[scope[p]]}}
  /\ UNCHANGED mishaps

Restored(p) ==
  /\ Move(p, "restoring", "off")
  /\ Return(p)
  /\ Lapse(scope[p], IF failed[p] THEN {"unrestored"} ELSE {})
  /\ UNCHANGED live

\* PluginPopupOpen: Herdr opens the popup or reports an error; the command ends.
PopupOpen(p) ==
  /\ Move(p, "open", "off")
  /\ UNCHANGED <<registryVars, live, mishaps>>

\* The process opens a popup over k, or has found no visible entry and will.
Opens(p, k) ==
  /\ scope[p] = k
  /\ \/ at[p] = "open"
     \/ at[p] = "getting" /\ step[p] = "return" /\ ~failed[p] /\ ~Visible(seen[p], k)

\* A toggle of another scope writes back the registry it read when k was hidden.
Carries(p, k) ==
  /\ scope[p] # k
  /\ step[p] \in Storing
  /\ k \in DOMAIN seen[p] /\ seen[p][k].hidden

\* What the rollback of an entry comes too late for.
TooLate(k) ==
  {c \in {"carried", "overtaken"} :
     \E q \in Procs : IF c = "carried" THEN Carries(q, k) ELSE Opens(q, k)}

RollsBack(p) == at[p] = "restoring" /\ step[p] = "rename"

\* The steps of the Store operation in progress.
StoreStep(p) ==
  /\ SystemCall(p) \/ ("diskFails" \in happens /\ Fail(p))
  /\ Lapse(scope[p], IF RollsBack(p) THEN TooLate(scope[p]) ELSE {})
  /\ UNCHANGED <<at, scope, live>>

Work(p) ==
  \/ Got(p) \/ PaneExists(p) \/ PaneMissing(p) \/ Forgot(p) \/ Hid(p)
  \/ PaneClosed(p) \/ PaneCloseFails(p) \/ Restored(p) \/ PopupOpen(p) \/ StoreStep(p)

\* The user closes an overlay in Herdr.
CloseOverlay(w) ==
  /\ w \in live
  /\ live' = live \ {w}
  /\ UNCHANGED <<registryVars, at, scope, mishaps>>

\* The process has hidden its entry, does not know the pane closed, and has not made
\* the entry visible again.
Closing(p) ==
  \/ at[p] = "hiding" /\ step[p] = "return" /\ ~failed[p]
  \/ at[p] = "close"
  \/ at[p] = "restoring" /\ (step[p] = "return" => failed[p])

\* A process is killed.  A popup it has asked for may still open.
Killed(p) ==
  /\ "killed" \in happens
  /\ at[p] # "off"
  /\ at' = [at EXCEPT ![p] = "off"]
  /\ IF step[p] = "idle" THEN UNCHANGED registryVars ELSE Crash(p)
  /\ Lapse(scope[p], IF Closing(p) THEN {"abandoned"} ELSE {})
  /\ UNCHANGED <<scope, live>>

Next ==
  \/ \E p \in Procs, k \in Keys : Toggle(p, k) \/ ToggleStateless(p, k)
  \/ \E p \in Procs : Work(p) \/ Killed(p)
  \/ \E w \in Panes : CloseOverlay(w)

Spec == Init /\ [][Next]_vars

-------------------------------------------------------------------------------
(* What makes the migration guard correct. *)

\* The popup of a process opens, or may: the process has asked for it, and ends or is
\* killed.
Opened(p) == at[p] = "open" /\ at'[p] = "off"

\* "If such an overlay is still visible when the updated action first runs,
\* close it instead of opening a native popup on top of it": no popup opens for
\* a scope whose recorded overlay is still there, unless a process was killed
\* between hiding its entry and learning that it closed.  A second press before the
\* close, and a pane get that times out, show that the command does not keep it.
NeverOverOverlay ==
  [][\A p \in Procs : Opened(p) =>
       OverlayOf[scope[p]] \notin live \/ "abandoned" \in lapses[scope[p]]]_vars

\* A process of the scope is closing its overlay.
BeingClosed(k) == \E p \in Procs : scope[p] = k /\ Closing(p)

\* What it does keep, whatever happens: a popup opens over a recorded overlay only
\* while another press of its key is closing that overlay (toggle.go:97-100), or
\* after one of the lapses: the overlay was lost, the other press made its entry
\* visible again when this one had seen it hidden, or there is no state directory.
\* A Store operation that fails opens nothing.
OverOnlyBeingClosed ==
  [][\A p \in Procs : Opened(p) =>
       LET k == scope[p] IN OverlayOf[k] \notin live \/ BeingClosed(k) \/ lapses[k] # {}]_vars

\* A hidden entry is a closed overlay: an overlay that is still there has a
\* visible entry, by which a later toggle finds it, or a process is about to
\* close it or to restore the entry.  The command loses it in four ways and in no
\* other, whatever fails and however toggles overlap: pane get fails on it and the
\* entry is deleted (toggle.go:91-92), the rollback fails (toggle.go:101), another
\* scope, writing without the lock, carries the hidden entry over the rollback, or
\* the process is killed in between.  Killed, or failing, anywhere else, it loses
\* none, not of its scope and not of another whose entry it was writing.
OverlayTracked ==
  \A k \in Keys : OverlayOf[k] \in live =>
    \/ file \in Registries /\ Visible(file, k)
    \/ BeingClosed(k)
    \/ lapses[k] \cap Losing # {}

\* PluginPaneClose: "callers are expected to ignore the returned error and clear
\* their registry entry regardless of whether the close call succeeds": a toggle
\* that has asked for the close, and is not killed, leaves no visible entry.  The
\* command restores the entry instead (toggle.go:101), also of a pane that Herdr did
\* close.
CloseClearsEntry ==
  [][\A p \in Procs :
       /\ at[p] \in {"close", "restoring"} /\ at'[p] = "off"
       /\ file' \in Registries
       => ~Visible(file', scope[p])]_vars

\* Without the lock the Store is the map with one-step operations as long as
\* toggles do not overlap, also when they are killed or when their system calls
\* fail: no lock is needed against a process that has died.
Overlapping == {"overlap", "sameScope"} \cap happens # {}

AtomicAlone ==
  [][Overlapping \/ [Atomic!Next]_(Atomic!vars)]_vars

\* The commands and calls a toggle has left at most, by its place in Run and in the
\* Store operation.
PlacesLeft(x) ==
  CASE x = "off" -> 0 [] x = "open" -> 1 [] x = "restoring" -> 2 [] x = "close" -> 3
    [] x \in {"forgetting", "hiding"} -> 4 [] x = "paneGet" -> 5 [] x = "getting" -> 6

CallsLeft(s) ==
  CASE s = "idle" -> 0 [] s = "return" -> 1 [] s = "rename" -> 2 [] s = "write" -> 3
    [] s = "create" -> 4 [] s = "resetRename" -> 5 [] s = "resetWrite" -> 6
    [] s = "resetCreate" -> 7 [] s = "moveAside" -> 8 [] s = "backupPath" -> 9
    [] s = "read" -> 10 [] s = "lock" -> 11

Left(p) == 12 * PlacesLeft(at[p]) + CallsLeft(step[p])

\* A toggle ends, whatever Herdr and the disk answer: whatever it does brings it
\* nearer its end, it asks nothing twice, and it can always go on.
ToggleAdvances ==
  [][\A p \in Procs :
       at[p] # "off" => Left(p)' < Left(p) \/ UNCHANGED <<at[p], step[p]>>]_vars

NeverStuck == \A p \in Procs : at[p] # "off" => ENABLED Work(p)

(* What these rest on. *)

\* The circumstances keep toggles apart, but for those without a state directory.
MayOverlap(p, q) ==
  \/ (IF scope[p] = scope[q] THEN "sameScope" ELSE "overlap") \in happens
  \/ "noStateDir" \in happens /\ "open" \in {at[p], at[q]}

Apart ==
  \A p, q \in Procs : at[p] # "off" /\ at[q] # "off" /\ p # q => MayOverlap(p, q)

\* The Store operation a process executes is that of its place in Run, a Get
\* writes nothing, and what it renames is what the operation makes of the registry
\* it read.
Asks(p) ==
  /\ step[p] # "idle" =>
       \/ at[p] = "getting" /\ request[p] = [op |-> "get", key |-> scope[p]]
       \/ at[p] = "forgetting" /\ request[p] = [op |-> "delete", key |-> scope[p]]
       \/ at[p] = "hiding" /\ request[p] = [op |-> "setHidden", key |-> scope[p], hidden |-> TRUE]
       \/ at[p] = "restoring" /\ request[p] = [op |-> "setHidden", key |-> scope[p], hidden |-> FALSE]
  /\ at[p] = "getting" => step[p] \notin Storing
  /\ step[p] = "rename" => temp[p] = Apply(request[p], seen[p])

\* The document has the entry of k for its overlay.
Records(reg, k) == k \in DOMAIN reg /\ reg[k].pane = OverlayOf[k]

\* It is visible unless a process has hidden it.
Knows(reg, k) == Records(reg, k) /\ (reg[k].hidden => BeingClosed(k))

\* The process of k decides by the registry it read.
Decides(p, k) ==
  /\ scope[p] = k
  /\ at[p] = "paneGet" \/ (at[p] = "getting" /\ step[p] = "return" /\ ~failed[p])

\* While the overlay is there and has not been lost, the file has its entry, and so
\* have the copies that are decided by or written back.  A process of its scope sets
\* the entry itself; the copy of another one must know whether it is hidden.
Guarded(k) ==
  /\ file \in Registries /\ Knows(file, k)
  /\ \A p \in Procs :
       /\ step[p] \notin {"backupPath", "moveAside"} \cup Resetting
       /\ Decides(p, k) => Records(seen[p], k)
       /\ step[p] \in Storing =>
            IF scope[p] = k THEN Records(seen[p], k) ELSE Knows(seen[p], k)
       /\ scope[p] = k => at[p] # "forgetting"

GuardInv ==
  /\ Apart
  /\ \A p \in Procs : Asks(p)
  /\ \A k \in Keys : OverlayOf[k] \in live /\ lapses[k] \cap Losing = {} => Guarded(k)

\* A process that opens a popup, or will, does so beside one that has hidden the
\* entry.
OpensBeside(k) == \A p \in Procs : Opens(p, k) => BeingClosed(k)

BesideInv == \A k \in Keys : OverlayOf[k] \in live /\ lapses[k] = {} => OpensBeside(k)
===============================================================================
