------------------------------- MODULE Identity -------------------------------
(***************************************************************************)
(* Which saved shell a popup gets: tmuxSessionKey and ResolveIdentity        *)
(* (internal/popupshell/popupshell.go), legacyStateKey                       *)
(* (internal/toggle/toggle.go) and the doctor's diagnoseConnection, each     *)
(* from the configuration and the invocation context of its own process.     *)
(* Keys are built piece by piece, so that a ":" inside a field is a          *)
(* separator like any other.                                                 *)
(***************************************************************************)
EXTENDS DoctorFiles, FiniteSets, Sequences

CONSTANTS
  Pieces,      \* what fields are made of
  Sockets,     \* values of HERDR_SOCKET_PATH
  Paths,       \* focused_pane_cwd strings, sequences of pieces
  Workspaces,  \* workspace ids, sequences of pieces
  Tabs,        \* tab ids, sequences of pieces
  Entrypoints, \* entrypoint names, sequences of pieces
  DefaultEntrypoint,
  Files,       \* contents of config.toml the user may save
  OtherFiles,  \* contents of config.toml that differ in the other settings
  MaxOpened    \* bound: popups remembered as opened

VARIABLES
  cfgFile,     \* config.toml
  stateFile,   \* popups.json, as the doctor finds it
  context,     \* the environment a command would run in now
  opened       \* the popups opened so far, with the shell each one got

files == <<cfgFile, stateFile>>
vars == <<files, context, opened>>

None == <<>>

\* A context field is "" when it is absent, and so is a variable not set.
Contexts ==
  [socket : Sockets \cup {None}, cwd : Paths \cup {None}, entry : Entrypoints,
   workspaceEnv : Workspaces \cup {None}, workspaceId : Workspaces \cup {None},
   tabId : Tabs \cup {None}]

\* A directory may have ":" in its name, and a tab id in Herdr's form; the
\* entrypoints of the manifest and workspace ids have none.
ASSUME IdentityAssumption ==
  /\ MaxOpened \in Nat
  /\ {":", "namespace", "directory", "workspace", "tab"} \subseteq Pieces
  /\ \A f \in Sockets \cup Paths \cup Workspaces \cup Tabs \cup Entrypoints : f \in Seq(Pieces)
  /\ DefaultEntrypoint \in Entrypoints
  /\ None \notin Sockets \cup Paths \cup Workspaces \cup Tabs \cup Entrypoints
  /\ \A f \in Sockets \cup Workspaces \cup Entrypoints : \A i \in 1..Len(f) : f[i] # ":"

\* A config.toml that TOML accepts has the settings, each with any value.
ASSUME FileAssumption ==
  \A f \in Files \cup OtherFiles :
    \/ f \in Unusable
    \/ /\ DOMAIN f = {"scope", "width", "height", "closeKey"}
       /\ f.width \in Dimensions /\ f.height \in Dimensions
       /\ f.closeKey \in Spellings \cup {Unset}

-------------------------------------------------------------------------------
\* Mutant: a field is written right after another.
RunTogether(field, rest) == field \o rest

\* fmt.Sprintf: a field, a ":" and the rest.
Colon(field, rest) == field \o <<":">> \o rest

\* workspaceIDFromContext, and its copy in tmuxSessionKey: HERDR_WORKSPACE_ID,
\* and workspace_id of the context when it is not set.
Workspace(c) == IF c.workspaceEnv # None THEN c.workspaceEnv ELSE c.workspaceId

\* Mutant: an unknown scope is the directory's.
UnknownIsDirectory(scope, c) ==
  CASE scope \notin {"workspace", "tab"} -> Colon(<<"directory">>, Colon(c.cwd, c.entry))
    [] Workspace(c) = None -> None
    [] scope = "tab" /\ c.tabId = None -> None
    [] scope = "tab" -> Colon(<<"tab">>, Colon(Workspace(c), Colon(c.tabId, c.entry)))
    [] OTHER -> Colon(<<"workspace">>, Colon(Workspace(c), c.entry))

\* tmuxSessionKey after the namespace: None where what the scope needs is
\* missing; a scope it does not know is the workspace's.
ScopeKey(scope, c) ==
  CASE scope = "directory" -> Colon(<<"directory">>, Colon(c.cwd, c.entry))
    [] scope # "directory" /\ Workspace(c) = None -> None
    [] scope = "tab" /\ Workspace(c) # None ->
         IF c.tabId = None THEN None
         ELSE Colon(<<"tab">>, Colon(Workspace(c), Colon(c.tabId, c.entry)))
    [] OTHER -> Colon(<<"workspace">>, Colon(Workspace(c), c.entry))

\* tmuxSessionKey: an error without a namespace, a cwd or what the scope needs.
\* The hashes of namespaceForSocketPath and sessionName are taken as injective.
TmuxSessionKey(scope, c) ==
  IF c.socket = None \/ c.cwd = None \/ ScopeKey(scope, c) = None THEN None
  ELSE Colon(<<"namespace">>, Colon(c.socket, ScopeKey(scope, c)))

\* Mutant: toggle asks the context alone for the workspace.
LegacyContextOnly(scope, c) ==
  CASE c.cwd = None -> None
    [] c.cwd # None /\ scope = "directory" -> Colon(<<"directory">>, Colon(c.cwd, c.entry))
    [] c.cwd # None /\ scope # "directory" ->
         IF c.workspaceId = None \/ (scope = "tab" /\ c.tabId = None) THEN None
         ELSE IF scope = "tab" THEN Colon(<<"tab">>, Colon(c.workspaceId, Colon(c.tabId, c.entry)))
         ELSE Colon(<<"workspace">>, Colon(c.workspaceId, c.entry))

\* toggle.Run's check of the cwd, then legacyStateKey.
LegacyStateKey(scope, c) ==
  LET mode == IF IsValidScope(scope) THEN scope ELSE "workspace" IN
  IF c.cwd = None THEN None
  ELSE IF mode = "directory" THEN Colon(<<"directory">>, Colon(c.cwd, c.entry))
  ELSE IF Workspace(c) = None \/ (mode = "tab" /\ c.tabId = None) THEN None
  ELSE IF mode = "tab" THEN Colon(<<"tab">>, Colon(Workspace(c), Colon(c.tabId, c.entry)))
  ELSE Colon(<<"workspace">>, Colon(Workspace(c), c.entry))

\* doctor: diagnoseConnection asks for the session of the default entrypoint.
DoctorSession(cfg, c) ==
  TmuxSessionKey(cfg.scope, [c EXCEPT !.entry = DefaultEntrypoint])

-------------------------------------------------------------------------------
(* What the resolvers make correct. *)

\* README: a saved shell is keyed to its namespace, its scope and its
\* entrypoint; a directory is its string, a tab is within a workspace.
Intended(scope, c) ==
  [namespace |-> c.socket, entry |-> c.entry,
   place |-> IF scope = "directory" THEN <<"directory", c.cwd>>
             ELSE IF scope = "tab" THEN <<"tab", Workspace(c), c.tabId>>
             ELSE <<"workspace", Workspace(c)>>]

\* An environment with nothing set.
Bare ==
  [socket |-> None, cwd |-> None, entry |-> DefaultEntrypoint, workspaceEnv |-> None,
   workspaceId |-> None, tabId |-> None]

\* Bound: the files that make no difference to a context are tried in one.
Init ==
  /\ \/ cfgFile \in Files /\ stateFile = Missing /\ context \in Contexts
     \/ cfgFile \in OtherFiles /\ stateFile \in Documents /\ context = Bare
  /\ opened = {}

\* The user saves another config.toml, or what Herdr passes changes, a field at
\* a time.
Edit(f) == cfgFile' = f /\ UNCHANGED <<stateFile, context, opened>>

Focus(f, v) ==
  /\ cfgFile \in Files /\ stateFile = Missing
  /\ [context EXCEPT ![f] = v] \in Contexts
  /\ context' = [context EXCEPT ![f] = v]
  /\ UNCHANGED <<files, opened>>

\* The popup that popup-shell would open now, if it resolves a session.
Popups ==
  LET scope == Load(cfgFile).scope
      key == TmuxSessionKey(scope, context)
  IN {p \in {[key |-> key, shell |-> Intended(scope, context)]} : p.key # None}

Open ==
  /\ Popups # {}
  /\ Cardinality(opened) < MaxOpened
  /\ opened' = opened \cup Popups
  /\ UNCHANGED <<files, context>>

Values == UNION {Sockets, Paths, Workspaces, Tabs, Entrypoints, {None}}

Next ==
  \/ \E f \in Files : Edit(f)
  \/ \E f \in DOMAIN context, v \in Values : Focus(f, v)
  \/ Open

Spec == Init /\ [][Next]_vars

\* The key of a popup's session is the same exactly when its namespace, scope
\* and entrypoint are: no two identities share a shell, whatever ":" their
\* directory or tab has, and no identity gets a second one.
OneShellPerIdentity ==
  \A x, y \in opened \cup Popups : (x.key = y.key) <=> (x.shell = y.shell)

\* toggle looks for the legacy overlay of the very scope popup-shell will open:
\* wherever popup-shell gets a session, toggle gets a key, of the same fields.
ResolversAgree ==
  LET scope == Load(cfgFile).scope IN
  TmuxSessionKey(scope, context) # None =>
    /\ LegacyStateKey(scope, context) # None
    /\ TmuxSessionKey(scope, context) =
         Colon(<<"namespace">>, Colon(context.socket, LegacyStateKey(scope, context)))

\* The doctor names the session that popup-shell opens for its entrypoint, or
\* none where it opens none.
DoctorNamesSession ==
  context.entry = DefaultEntrypoint =>
    DoctorSession(DiagnoseConfig(cfgFile), context) = TmuxSessionKey(Load(cfgFile).scope, context)

\* "A broken file never blocks the toggle": from every config.toml the settings
\* are usable.
SettingsUsable == Usable(Load(cfgFile))

\* popup-shell reports every setting of the file it does not apply as written,
\* and no other; a missing file is silent.
ReplacementsReported == ShellWarnings(Load(cfgFile)) = Unapplied(cfgFile)

\* "diagnoseConfig reports the file's status and returns the effective settings
\* the plugin would use": the line says error for a file Load rejects, and for
\* no other, except that a close_key of another type makes Load reject the file
\* and is no field of the doctor's.
ConfigLineTrue ==
  /\ (ConfigStatus(cfgFile) = "missing") <=> (cfgFile = Missing)
  /\ cfgFile # MistypedKey =>
       ((ConfigStatus(cfgFile) = "error") <=> (Load(cfgFile).warnings = {"file"}))

\* The state line tells what the Store will do with popups.json: ok of a file it
\* uses, missing of none, and error of every file it cannot read or moves aside,
\* except that it says ok of one the Store moves aside for a field of another type
\* in an entry.
StateLineTrue ==
  StateStatus(stateFile) =
    CASE Read(stateFile) = "default" -> "missing"
      [] Read(stateFile) = "used" \/ Mistyped(stateFile) -> "ok"
      [] OTHER -> "error"
===============================================================================
