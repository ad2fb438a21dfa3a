------------------------------ MODULE PopupShell ------------------------------
(***************************************************************************)
(* The popup-shell command (internal/popupshell/popupshell.go): each popup  *)
(* pane runs tmuxAttachScript against the one dedicated tmux server, one    *)
(* tmux command at a time.  Scripts of several popups, the shells inside    *)
(* the sessions, and Herdr closing a popup interleave between any two       *)
(* commands.                                                                *)
(***************************************************************************)
EXTENDS TmuxServer

CONSTANTS
  Popups,      \* popup panes, each running one popup-shell process at a time
  DefaultKey,  \* config.DefaultCloseKey, M-l
  NoSession,   \* the target of a popup that is not open
  TeardownAt   \* the script positions at which Herdr may close the popup

VARIABLES
  pc,          \* where each popup's script is; "closed" when it does not run
  target,      \* $1, the session name
  key          \* the script's variable key, $5 until the fallback replaces it

popupVars == <<pc, target, key>>
vars == <<tmuxVars, popupVars>>

-------------------------------------------------------------------------------
\* The positions of the script, named for the command each one runs next.
\* Creating: new-session has run, the options of the create branch have not all.
\* Configuring: the session may still lack what the script is about to set.
Creating == {"setClipboardNew", "statusOff", "mouseOn"}
Keying == {"setCloseKey", "bindKey", "fallbackOption", "fallbackBind"}
Configuring == Creating \cup Keying \cup {"windowSize"}
Script == Configuring \cup {"hasSession", "setClipboard", "newSession", "attachSession"}
Positions == Script \cup {"closed", "attached"}

ASSUME PopupAssumption ==
  /\ DefaultKey \in KnownKeys
  /\ NoSession \notin Sessions
  /\ TeardownAt \subseteq Script

PopupTypeOK ==
  /\ pc \in [Popups -> Positions]
  /\ target \in [Popups -> Sessions \cup {NoSession}]
  /\ key \in [Popups -> CloseKeys \cup {NoKey}]
  /\ \A p \in Popups : pc[p] # "closed" => target[p] \in Sessions /\ key[p] \in CloseKeys

TypeOK == TmuxTypeOK /\ PopupTypeOK

Init ==
  /\ TmuxInit
  /\ pc = [p \in Popups |-> "closed"]
  /\ target = [p \in Popups |-> NoSession]
  /\ key = [p \in Popups |-> NoKey]

Attached(p, s) == pc[p] = "attached" /\ target[p] = s

\* Popup p's script moves from one position to the next.
Step(p, from, to) ==
  /\ pc[p] = from
  /\ pc' = [pc EXCEPT ![p] = to]
  /\ UNCHANGED <<target, key>>

\* The popups in ps close: their processes are gone.
Close(ps) ==
  /\ pc' = [p \in Popups |-> IF p \in ps THEN "closed" ELSE pc[p]]
  /\ target' = [p \in Popups |-> IF p \in ps THEN NoSession ELSE target[p]]
  /\ key' = [p \in Popups |-> IF p \in ps THEN NoKey ELSE key[p]]

-------------------------------------------------------------------------------
\* run: the identity and the close key are resolved, and the process becomes
\* the script.  Its failures (no HERDR_SOCKET_PATH, no cwd, no tmux) end the
\* process before it reaches tmux, which leaves the popup closed.
Run(p, s, k) ==
  /\ pc[p] = "closed"
  /\ pc' = [pc EXCEPT ![p] = "hasSession"]
  /\ target' = [target EXCEPT ![p] = s]
  /\ key' = [key EXCEPT ![p] = k]
  /\ UNCHANGED tmuxVars

\* if has-session -t "$1"
CheckSession(p) ==
  /\ Step(p, "hasSession",
          IF HasSession(target[p]) THEN "setClipboard" ELSE "newSession")
  /\ UNCHANGED tmuxVars

\* Mutant: window-size moves into the create branch.
ReuseSkipsWindowSize(p) ==
  /\ Step(p, "setClipboard", "setCloseKey")
  /\ SetClipboard("external")

\* then set-option -s set-clipboard external
ReuseSession(p) ==
  /\ Step(p, "setClipboard", "windowSize")
  /\ SetClipboard("external")

\* else new-session, set-clipboard, status off, mouse on
CreateSession(p) ==
  /\ Step(p, "newSession", "setClipboardNew")
  /\ NewSession(target[p])

ClipboardNew(p) ==
  /\ Step(p, "setClipboardNew", "statusOff")
  /\ SetClipboard("external")

\* Mutant: the create branch forgets `status off`.
StatusLeftOn(p) ==
  /\ Step(p, "statusOff", "mouseOn")
  /\ UNCHANGED tmuxVars

StatusOff(p) ==
  /\ Step(p, "statusOff", "mouseOn")
  /\ SetOption(target[p], [options[target[p]] EXCEPT !.statusOff = TRUE])

MouseOn(p) ==
  /\ Step(p, "mouseOn", "windowSize")
  /\ SetOption(target[p], [options[target[p]] EXCEPT !.mouse = TRUE])

\* fi; set-option -w window-size smallest
WindowSize(p) ==
  /\ Step(p, "windowSize", "setCloseKey")
  /\ SetOption(target[p], [options[target[p]] EXCEPT !.smallest = TRUE])

\* key="$5"; set-option @herdr-close-key "$key"
SetCloseKey(p) ==
  /\ Step(p, "setCloseKey", "bindKey")
  /\ SetOption(target[p], [options[target[p]] EXCEPT !.closeKey = key[p]])

\* Mutant: the binding is made only once, by whoever binds the key first.
BindsOnlyFirst(p) ==
  /\ BindSucceeds(key[p])
  /\ Step(p, "bindKey", "attachSession")
  /\ IF \A c \in Codes : rootTable[c] = NoKey THEN BindKey(key[p])
                                             ELSE UNCHANGED tmuxVars

\* if ! bind-key -n "$key" ...: on success the branch is skipped.
BindCloseKey(p) ==
  /\ BindSucceeds(key[p])
  /\ Step(p, "bindKey", "attachSession")
  /\ BindKey(key[p])

\* Mutant: no fallback for a name tmux rejects.
RejectIgnored(p) ==
  /\ ~BindSucceeds(key[p])
  /\ Step(p, "bindKey", "attachSession")
  /\ UNCHANGED tmuxVars

\* Mutant: the fallback clears the key instead of naming the default.
RejectClearsKey(p) ==
  /\ ~BindSucceeds(key[p])
  /\ pc[p] = "bindKey"
  /\ pc' = [pc EXCEPT ![p] = "fallbackOption"]
  /\ key' = [key EXCEPT ![p] = NoKey]
  /\ UNCHANGED <<target, tmuxVars>>

\* then key=M-l
RejectCloseKey(p) ==
  /\ ~BindSucceeds(key[p])
  /\ pc[p] = "bindKey"
  /\ pc' = [pc EXCEPT ![p] = "fallbackOption"]
  /\ key' = [key EXCEPT ![p] = DefaultKey]
  /\ UNCHANGED <<target, tmuxVars>>

FallbackOption(p) ==
  /\ Step(p, "fallbackOption", "fallbackBind")
  /\ SetOption(target[p], [options[target[p]] EXCEPT !.closeKey = key[p]])

FallbackBind(p) ==
  /\ Step(p, "fallbackBind", "attachSession")
  /\ BindKey(key[p])

\* fi; exec attach-session -t "$1": without the session the command fails and,
\* being the popup's process, closes the popup.
Attach(p) ==
  /\ HasSession(target[p])
  /\ Step(p, "attachSession", "attached")
  /\ UNCHANGED tmuxVars

AttachFails(p) ==
  /\ pc[p] = "attachSession"
  /\ ~HasSession(target[p])
  /\ Close({p})
  /\ UNCHANGED tmuxVars

ScriptStep(p) ==
  \/ CheckSession(p) \/ ReuseSession(p) \/ CreateSession(p) \/ ClipboardNew(p)
  \/ StatusOff(p) \/ MouseOn(p) \/ WindowSize(p) \/ SetCloseKey(p)
  \/ BindCloseKey(p) \/ RejectCloseKey(p) \/ FallbackOption(p) \/ FallbackBind(p)
  \/ Attach(p) \/ AttachFails(p)

-------------------------------------------------------------------------------
\* The binding bind-key installs, run for the client that pressed the key:
\* if-shell -F "#{==:#{@herdr-close-key},$key}" detach-client, after which the
\* popup's process is gone.  Any other key reaches the pane and changes nothing.
PressCloseKey(p, c) ==
  /\ pc[p] = "attached"
  /\ rootTable[c] # NoKey
  /\ rootTable[c] = options[target[p]].closeKey
  /\ Close({p})
  /\ UNCHANGED tmuxVars

\* Mutant: closing the popup kills its session.
TeardownKills(p) ==
  /\ pc[p] \in TeardownAt \cup {"attached"}
  /\ Close({p})
  /\ IF HasSession(target[p]) THEN EndSession(target[p]) ELSE UNCHANGED tmuxVars

\* Herdr closes the popup and hangs up its process: the client when it is
\* attached, the script, between two commands, at the positions of TeardownAt.
Teardown(p) ==
  /\ pc[p] \in TeardownAt \cup {"attached"}
  /\ Close({p})
  /\ UNCHANGED tmuxVars

\* The saved shell exits: the session ends and its clients with it.
ShellExit(s) ==
  /\ EndSession(s)
  /\ Close({p \in Popups : Attached(p, s)})

\* A shell in a popup changes, through tmux itself, a setting the script owns.
DriftClipboard ==
  /\ ServerUp
  /\ SetClipboard("other")
  /\ UNCHANGED popupVars

DriftWindowSize(s) ==
  /\ HasSession(s)
  /\ SetOption(s, [options[s] EXCEPT !.smallest = FALSE])
  /\ UNCHANGED popupVars

Next ==
  \/ \E p \in Popups, s \in Sessions, k \in CloseKeys : Run(p, s, k)
  \/ \E p \in Popups : ScriptStep(p)
  \/ \E p \in Popups, c \in Codes : PressCloseKey(p, c)
  \/ \E p \in Popups : Teardown(p)
  \/ \E s \in Sessions : ShellExit(s)
  \/ DriftClipboard
  \/ \E s \in Sessions : DriftWindowSize(s)

Spec == Init /\ [][Next]_vars

\* The operating system runs a started script to its end.  Nothing makes a
\* user press a key, a shell exit or Herdr close a popup.
FairSpec == Spec /\ \A p \in Popups : WF_vars(ScriptStep(p))

-------------------------------------------------------------------------------
(* What makes popup-shell correct. *)

\* A script is between its first change to session s and its last.
BeingConfigured(s, at) == \E q \in Popups : target[q] = s /\ pc[q] \in at

\* The close key recorded for s is bound, and to that spelling, so pressing it
\* detaches the client.
Closable(s) ==
  /\ options[s].closeKey \in KnownKeys
  /\ rootTable[Code[options[s].closeKey]] = options[s].closeKey

\* The script is never cut short between a session's creation and its binding.
UninterruptedSetup == TeardownAt \cap Configuring = {}

\* Nor between new-session and the options of the create branch.
UninterruptedCreation == TeardownAt \cap Creating = {}

\* Every two accepted spellings name different keys.
NoAliases == \A j, k \in KnownKeys : Code[j] = Code[k] => j = k

\* At most one popup is open at a time.
OnePopup == \A p, q \in Popups : p = q

\* "A name tmux rejects falls back to the default so the popup can always be
\* closed": an open popup closes on its session's recorded key, except while
\* another script is about to re-key that session.  The record and the binding
\* are set by two commands, the table is shared by all sessions, and each
\* session may have another key.
AlwaysClosable ==
  \A p \in Popups, s \in Sessions :
    Attached(p, s) => Closable(s) \/ BeingConfigured(s, Configuring)

\* "The tmux status line stays disabled, and mouse wheel and trackpad scrolling
\* move the shell's output history": only the script that creates a session
\* sets these two options, so no other script may find it half made and keep it
\* that way.
SettingsApplied ==
  \A s \in sessions :
    \/ options[s].statusOff /\ options[s].mouse
    \/ BeingConfigured(s, Creating)

\* What AlwaysClosable rests on.  A dead session leaves no options behind, an
\* attached client has its session, and a script in the fallback binds a key
\* tmux accepts.
DeadSessions == \A s \in Sessions \ sessions : options[s] = DefaultOptions
AttachedAlive == \A p \in Popups : pc[p] = "attached" => target[p] \in sessions
FallbackKnown ==
  \A p \in Popups : pc[p] \in {"fallbackOption", "fallbackBind"} => key[p] \in KnownKeys

\* Script q will still bind key k for session s.
WillBind(q, s, k) ==
  /\ target[q] = s
  /\ \/ pc[q] = "fallbackOption"
     \/ pc[q] \in {"bindKey", "fallbackBind"} /\ key[q] = k

\* The recorded key of a session is bound, or a script is about to bind that
\* very key or to replace it, or none is recorded yet and a script will.
KeyTracked(s) ==
  \/ Closable(s)
  \/ options[s].closeKey = NoKey /\ BeingConfigured(s, Creating \cup {"windowSize", "setCloseKey"})
  \/ \E q \in Popups : WillBind(q, s, options[s].closeKey)

KeysTracked == \A s \in sessions : KeyTracked(s)

\* What it rests on when popups do not overlap: the script has recorded the key it
\* binds, and has bound the key recorded.
RecordsThenBinds ==
  \A p \in Popups : target[p] \in sessions =>
    /\ pc[p] \in {"bindKey", "fallbackBind"} => options[target[p]].closeKey = key[p]
    /\ pc[p] \in {"attachSession", "attached"} => Closable(target[p])

ClosableInv == DeadSessions /\ AttachedAlive /\ FallbackKnown /\ KeysTracked

\* What SettingsApplied rests on: each option is set or its command is to come.
SettingTracked(s) ==
  /\ options[s].statusOff \/ BeingConfigured(s, {"setClipboardNew", "statusOff"})
  /\ options[s].mouse \/ BeingConfigured(s, Creating)

SettingsTracked == \A s \in sessions : SettingTracked(s)

\* A session whose key is being changed under an open popup gets a working key
\* again, whatever the other scripts do in between.
EventuallyClosable ==
  \A p \in Popups, s \in Sessions :
    Attached(p, s) ~> (~Attached(p, s) \/ Closable(s))

\* "It sets set-clipboard=external on every connection", and window-size "is
\* reapplied on every connection to correct any drift": a started script
\* reaches a state with the server option set, and one with the window option
\* set, unless its popup closes first, whichever branch it takes.
DriftCorrected ==
  \A p \in Popups, s \in Sessions :
    /\ (pc[p] = "hasSession" /\ target[p] = s) ~> (pc[p] = "closed" \/ clipboard = "external")
    /\ (pc[p] = "hasSession" /\ target[p] = s) ~> (pc[p] = "closed" \/ options[s].smallest)

\* popup-shell implements SavedShell: the shells are the tmux sessions, and a
\* popup shows the one its client is attached to.
Saved == INSTANCE SavedShell WITH
  running <- sessions,
  view <- [p \in Popups |-> IF pc[p] = "attached" THEN target[p] ELSE NoSession]

ImplementsSavedShell == Saved!Spec
===============================================================================
