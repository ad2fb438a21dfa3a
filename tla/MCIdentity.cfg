SPECIFICATION Spec
CONSTANTS
  Spellings <- MCSpellings
  SafeKeys <- MCSafeKeys
  DefaultCloseKey = "M-l"
  Unset = Unset
  Garbage = Garbage
  Missing = Missing
  Unreadable = Unreadable
  Malformed = Malformed
  MistypedKey = MistypedKey
  DefaultEntrypoint <- MCShell
  Pieces <- MCPieces
  Sockets <- MCSockets
  Paths <- MCPaths
  Workspaces <- MCWorkspaces
  Tabs <- MCTabs
  Entrypoints <- MCEntrypoints
  Files <- MCScopeFiles
  OtherFiles <- MCOtherFiles
  MaxOpened = 1
INVARIANT OneShellPerIdentity
INVARIANT ResolversAgree
INVARIANT DoctorNamesSession
INVARIANT SettingsUsable
INVARIANT ReplacementsReported
INVARIANT ConfigLineTrue
INVARIANT StateLineTrue
