------------------------------ MODULE TmuxServer ------------------------------
(***************************************************************************)
(* The dedicated tmux server (`tmux -L herdr-toggle-popup -f /dev/null`)    *)
(* as the plugin uses it.  tmux is not part of the repository: every        *)
(* operator here is the effect, on the server, of one tmux command the      *)
(* attach script runs.  The server is single threaded, so a command is one  *)
(* atomic step.                                                             *)
(*                                                                          *)
(* The server process lives exactly as long as it holds a session: the      *)
(* first new-session starts it and the end of its last session stops it.    *)
(* Key bindings and server options are lost when it stops.                  *)
(***************************************************************************)
CONSTANTS
  Sessions,    \* session names
  CloseKeys,   \* key spellings that pass config.isValidCloseKey
  KnownKeys,   \* the spellings bind-key accepts
  Codes,       \* the keys of a keyboard
  Code,        \* the key a known spelling names
  NoKey        \* an option or a root-table slot that is not set

ASSUME KeysAssumption ==
  /\ KnownKeys \subseteq CloseKeys
  /\ Code \in [KnownKeys -> Codes]
  /\ NoKey \notin CloseKeys

VARIABLES
  sessions,    \* the live sessions, each running one saved shell
  options,     \* the session and window options the script sets
  clipboard,   \* the server option set-clipboard
  rootTable    \* the spelling each key is bound with by bind-key -n

tmuxVars == <<sessions, options, clipboard, rootTable>>

\* What a new session inherits: tmux's own defaults, so a status line, no
\* mouse, another window-size policy and no @herdr-close-key.
DefaultOptions ==
  [statusOff |-> FALSE, mouse |-> FALSE, smallest |-> FALSE, closeKey |-> NoKey]

SessionOptions ==
  [statusOff : BOOLEAN, mouse : BOOLEAN, smallest : BOOLEAN,
   closeKey : CloseKeys \cup {NoKey}]

TmuxTypeOK ==
  /\ sessions \subseteq Sessions
  /\ options \in [Sessions -> SessionOptions]
  /\ clipboard \in {"external", "other"}
  /\ rootTable \in [Codes -> CloseKeys \cup {NoKey}]

NoBindings == [c \in Codes |-> NoKey]

TmuxInit ==
  /\ sessions = {}
  /\ options = [s \in Sessions |-> DefaultOptions]
  /\ clipboard = "external"
  /\ rootTable = NoBindings

-------------------------------------------------------------------------------
ServerUp == sessions # {}

\* has-session -t s: the exit status.
HasSession(s) == s \in sessions

\* new-session -d -s s: starts the server when there is none; a name already
\* taken is an error ("duplicate session") that changes nothing.
NewSession(s) ==
  /\ sessions' = sessions \cup {s}
  /\ UNCHANGED <<options, clipboard, rootTable>>

\* set-option -s set-clipboard v: an error without a server.
SetClipboard(v) ==
  /\ clipboard' = IF ServerUp THEN v ELSE clipboard
  /\ UNCHANGED <<sessions, options, rootTable>>

\* set-option [-w] -t s: an error without the session; opts is what the
\* session's options become.
SetOption(s, opts) ==
  /\ options' = IF HasSession(s) THEN [options EXCEPT ![s] = opts] ELSE options
  /\ UNCHANGED <<sessions, clipboard, rootTable>>

\* bind-key -n k: the exit status, and the binding it leaves in the root table.
\* Two spellings of one key share a slot; the later binding replaces the other.
BindSucceeds(k) == ServerUp /\ k \in KnownKeys

BindKey(k) ==
  /\ rootTable' = IF BindSucceeds(k) THEN [rootTable EXCEPT ![Code[k]] = k]
                                     ELSE rootTable
  /\ UNCHANGED <<sessions, options, clipboard>>

\* The session ends with its shell; the server stops with its last session.
EndSession(s) ==
  /\ HasSession(s)
  /\ sessions' = sessions \ {s}
  /\ options' = [options EXCEPT ![s] = DefaultOptions]
  /\ IF sessions = {s}
     THEN /\ clipboard' = "external"
          /\ rootTable' = NoBindings
     ELSE UNCHANGED <<clipboard, rootTable>>
===============================================================================
