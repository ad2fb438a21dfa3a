# Verification of herdr-toggle-popup

TLA+ specifications of the plugin's moving parts, the TLC runs that check them on
small instances, and TLAPS proofs of their safety properties for every
instance. Everything is translated from the Go and shell sources; where a comment or
the README promises something the code does not do, a run shows the trace.

    tlc -config MCPopupShell.cfg MCPopupShell
    tlapm PopupShellProofs.tla

`PROJECT.json` lists the runs with their modules, the source lines each definition
translates, the hazards of the code with the properties aimed at them, the findings
and the theorems.

## The system

Herdr, a terminal multiplexer, runs one short-lived process of the plugin per event.
No process talks to another one directly: they meet in Herdr's panes, in one tmux
server, and in files.

| Part | State | Operations | Talks to |
|---|---|---|---|
| `toggle` (`internal/toggle`) | none of its own | one run per key press: migration guard, then open a native popup | Herdr CLI with a timeout; the registry |
| `popup-shell` (`internal/popupshell`) | none: becomes a `sh` script, then a tmux client | create or reuse the session, set its options, bind the close key, attach | the dedicated tmux server |
| tmux server (external) | sessions, their options, the root key table, `set-clipboard` | one command at a time | every popup's script and client, the shells inside |
| identity (`tmuxSessionKey`, `legacyStateKey`, doctor) | none | scope, context and environment to a key | `config`, Herdr's context |
| `config` | `config.toml` | `Load`, with fallbacks and warnings | the user |
| `state` | `popups.json`, its backups, `popups.lock`, temporary files | Get, Set, SetHidden, Delete, DeleteByPaneID, DeleteVisibleByPaneID, WithLock | several processes at once |
| herdr client | none | run a CLI command, cut it off after a timeout | Herdr |
| `doctor` | none | one read-only report, a tmux command per line | config, the tmux server while scripts change it, the registry |
| `scripts/build.sh` | `bin/toggle-popup` | compile, or download, verify and install | GitHub release, the file system |

What is hard about it:

* **Interleaving.** tmux executes a command atomically, the script is a dozen
  commands, several scripts run at once, and their sessions share one key table.
* **Interruption.** Herdr closes a popup by hanging up its process, at any command of
  the script. Nothing undoes what the script has done.
* **Unlocked files.** `state.WithLock` exists and `toggle` does not use it.
* **Timeouts.** A Herdr command that is cut off may have had its effect or not, and
  `PaneExists` cannot tell a missing pane from a failed question.
* **Reads that are not a snapshot.** The doctor asks the server one option at a time
  while the scripts go on, and the session it asks about may end and come back.
* **Separators.** Session keys are fields joined by `:`, and directories and tab ids
  contain `:`.

What makes each part correct: an open popup can be closed by its key; a saved shell
outlives its popups and is shared only by its own identity; its options are those
the README describes; the registry behaves as a map and never loses a corrupt
document; no popup opens on top of a legacy overlay, and no overlay is forgotten
(neither of which the code keeps without exception, see below); from any `config.toml`
the settings are usable and the replaced ones reported; only verified or compiled content becomes executable; what the doctor reports is so.

## Modules

### popup-shell

* `TmuxServer` - the server as the script uses it (external): one operator per
  command, with its effect when the server or the session is missing.
* `PopupShell` - `tmuxAttachScript`. `pc` is the command a popup's script runs next,
  named after it; `target` and `key` are `$1` and the variable `key`. One action per
  command; `BindCloseKey`/`RejectCloseKey` are the two exits of `if ! ... bind-key`.
  `PressCloseKey` is the installed binding: it detaches only if the spelling it was
  bound with equals the session's `@herdr-close-key`. `Teardown` is Herdr closing the
  popup, at the positions of the constant `TeardownAt` and when attached. `ShellExit`,
  `DriftClipboard` and `DriftWindowSize` are what happens inside a shell.
* `SavedShell` - the abstract promise: shells and the popups that show them.
  `PopupShell!ImplementsSavedShell` is the refinement; its mapping takes the live
  sessions for the running shells and an attached client for a view.
* `PopupShellProofs` - the theorems.
* `MCPopupShell` - instances.

### doctor

* `Doctor` - `diagnoseTmux`, composed with `PopupShell` (`EXTENDS`): `at` is the line
  whose command runs next, `report` the status printed on each line. `ListSessions`,
  `ListClients` and `ReadOption(l)` are the commands; `ListSessionsFails` and the second
  alternative of `ReadOption` are a command that fails or is cut off, and
  `StartWithoutTmux` and `LastRead` the early returns. `Others` is any step of the
  scripts, the shells or Herdr in between. `meanwhile` is a history variable: what has
  come between the report and its truth, a change of the server, a drifted option, or an
  unanswered command.
* `DoctorFiles` - the lines on `config.toml` and `popups.json`, which the doctor decodes
  with types of its own. Their properties are stated in `Identity`, whose variables
  `cfgFile` and `stateFile` are the two files.
* `DoctorProofs` - the theorems, on top of those of `PopupShellProofs`.
* `MCDoctor` - an instance.

### state

* `PopupEntries` - the document and what each operation makes of it.
* `AtomicRegistry` - the promise: between its call and its return an operation takes
  effect in one step, and a Get answers from the map of that moment; or it fails, and
  leaves the map alone. A process may die before or after the effect.
* `Registry` - the Store, a system call at a time: `ReadFile`, `ReadCorrupt`,
  `BackupPath` (the `stat`), `MoveAside` (the `rename` to the backup), `CreateTemp`,
  `WriteTemp`, `RenameTemp`, and `Acquire`/`Release` of the flock. `step[p]` is the
  next system call; `Fail` is an I/O error, `Crash` a killed process. The constant
  `Locked` says whether the operations run inside `WithLock`, which has no caller outside
  the tests: `toggle` uses the Store without it. `Spoil` is another program leaving a
  corrupt file. `Document` and `Result` are the refinement mapping to `AtomicRegistry`.
* `RegistryProofs` - the theorems.
* `MCRegistry` - instances.

### toggle

* `LegacyToggle` - `toggle.Run` composed with `Registry` (`EXTENDS`, `Locked = FALSE`
  in every instance, as in the code) and with Herdr's panes. `at[p]` is the place in
  `Run`; a Store call goes through the registry's steps before `Got`, `Forgot`, `Hid`
  or `Restored` continue. What can go wrong around the command, and which toggles overlap,
  is fixed for a behaviour by `happens`, one of the sets in the constant `Conditions`.
  A timeout of `plugin pane close` closes the pane or not; the timeout of `pane get` is
  `getFails`. `Killed` is a process that dies anywhere, also within a Store operation.
  `lapses` is a history variable that disables nothing: what the command has done wrong
  about each scope's overlay while it was there, each named at the step that does it.
* `LegacyToggleProofs` - the theorems, on top of those of `RegistryProofs`.
* `MCLegacyToggle` - instances.

### identity and configuration

* `Config` - `Load` as operators: dimensions with their u8 and u16 widths, the close
  key's pattern, the scope, and the warnings. `Garbage` is a value of a type `Load` has
  no case for or a string that is no number; `Missing`, `Unreadable` and `Malformed`
  are the files that give no settings.
* `Identity` - the three resolvers, over keys that are sequences of pieces, so that a
  `:` in a field is the separator's equal. The state machine lets the user edit the
  file and the context change around a popup that was opened earlier. The properties of
  `Config` and `DoctorFiles` are stated here, of the files the user saves.
* `IdentityProofs` - the theorems about the settings and the doctor's lines on the files;
  `SessionKeyProofs` - those about the keys.
* `MCIdentity` - an instance.

### build

* `Build` - `scripts/build.sh`, by several runs that overlap in any way; the release is
  published again between downloads, a download may be garbage, any command fails or
  is killed. Between file systems (`rename` is false), `mv` and `go build` unlink and copy
  in two steps. `bin` is the file: its content, whether all of it is there, whether it is
  executable, and the run that created it, so that a run whose file was replaced goes on
  with one that has no name. `beside` is a history variable, the runs that another one
  has run beside.
* `BuildProofs` - the theorems.
* `MCBuild` - an instance.

## Runs

| Run | States | Shows |
|---|---|---|
| `popup_safety` | 619,665 | `AlwaysClosable`, `SettingsApplied` and the refinement of `SavedShell`, when no script is cut short while it configures a session |
| `popup_live` | 32,708 | `EventuallyClosable`, `DriftCorrected` |
| `popup_interrupted` | violation | a script hung up between recording and binding the key |
| `registry` | 316,018 | under the lock the Store is a map with one-step operations, no corrupt document is lost, and no way out of an operation keeps the lock |
| `registry_unlocked_recovery` | violation | without it, two recoveries in one second lose the corrupt document |
| `legacy_safe` | about 246,000 | with every circumstance at once, and with all of them one toggle at a time: an overlay is forgotten in four named ways and no other, a popup opens over one only while another press is closing it or after a named lapse, toggles that do not overlap need no lock, and every toggle ends |
| `legacy_same_scope` | violation | a second key press before the close opens the popup on the overlay |
| `legacy_get_fails` | violation | a pane get that times out opens the popup on the overlay, and forgets it |
| `legacy_close_fails` | violation | a close that fails makes the entry visible again, where the client's comment has it cleared |
| `identity` | 135,858 | one shell per identity, and three resolvers that agree; usable settings, reported replacements; true lines of the doctor on the files |
| `doctor` | 950,377 | every line reported, a quiet report exact, an ok report true although it is no snapshot |
| `build` | 311,254 | only verified or compiled content becomes executable, an incomplete file only by a copy; failures keep the old binary, re-runs repair |

The counts are of states up to the symmetries the configurations name, and, in `registry`
and `legacy_safe`, up to `NeededState`: TLC does not tell apart states that differ only in
a variable nothing reads any more. The first state met stands for its class, so the
count of `legacy_safe` varies by a few hundred from one run to the next.

### What the code does not keep

`toggle` loses an overlay, which then stays open with no entry a later toggle would find it
by, in four ways; `OverlayTracked` names them, and the run and the theorem show that there
is no fifth:

* `unasked`: `pane get` fails or times out on the pane (`toggle.go:91`), and the entry is
  deleted. The popup opens over the overlay: `legacy_get_fails`.
* `unrestored`: the close fails, and so does the `SetHidden(false)` after it
  (`toggle.go:101`).
* `carried`: a toggle of another scope reads the registry while the entry is hidden, the
  close fails, the rollback is written, and the other toggle writes its copy over it.
* `abandoned`: the process is killed after it has written the hidden entry and before it
  knows that the pane closed.

A popup opens over a recorded overlay after one of these; while another press of its key
is closing it (`legacy_same_scope`); when such a press found the entry hidden and the close
then failed (`overtaken`); and when there is no state directory to look into (`unlooked`).
`OverOnlyBeingClosed` says that it opens over one in no other case; a `Delete` or a
`SetHidden(true)` that fails, for one, opens nothing.

The comment of `PluginPaneClose` (`client.go:215-217`) expects callers to ignore its error
and clear the entry. Its caller restores the entry and ends with the error, which is what
keeps an overlay that is still there from being forgotten: `legacy_close_fails` is
the contradiction, and the mutant `CloseErrorIgnored` what following the comment would do.

`build.sh` verifies the content of what it installs and takes no lock. Where `mv` copies,
because the work directory is on another file system than `bin/`, a run's `chmod`
(`build.sh:116`) may meet the file that another run's `mv` (`build.sh:115`) is still copying,
and an incomplete binary becomes executable; it stays so if that copy breaks off. `go build`
creates its copy executable. Of two such builds, one that fails removes the file under the
name, which may be the other's: that one succeeds, and there is no binary. `OnlyVerifiedRuns`
and `RerunRepairs` make no promise for exactly these cases (`~rename`, with `beside` or
`Compiled`), and without the exceptions TLC finds the traces above.

Other circumstances of the models break properties too, and no run is kept for
them: `AlwaysClosable` with two spellings of one key (`M-l` and `m-l`: `bind-key` gives
the key to the later one); `SettingsApplied` when a script is hung up after
`new-session` (every later connection takes the reuse branch, which sets neither status
nor mouse); `ImplementsAtomicRegistry` with `Locked = FALSE` (a lost update); `OkReportTrue`
when scripts may be hung up while they configure (a session records a key nobody bound),
and `OkReportTrueWhileOpen` when popups overlap as well; and `CorruptKept` with a third
content in one second.

Three lines of the doctor differ from the code they describe, and the properties say
where: a `list-sessions` that is cut off is reported as an absent server (`meanwhile` is
then `"unread"`); a `close_key` of another type is `config: ok`, while `Load` falls back
to the defaults (`ConfigLineTrue` excepts `MistypedKey`); an entry with a field of another
type is `state: ok`, while the Store moves the file aside (`StateLineTrue` excepts
`Mistyped`). Of every other `popups.json`, the line is ok, missing or error as the Store
uses it, starts empty, or fails to read it or moves it aside.

### Bounds

* `popup_safety`: two popups, two sessions, two keys and one spelling tmux rejects.
  Every interference of the script is between two scripts that share a session or a
  key; the proofs lift the bound. `popup_live` has one session, which both popups share:
  that is where a key is changed under an open popup.
* `registry` has two processes, two keys, two panes and two corrupt contents; `MaxClock`
  allows one tick, so that two recoveries fall within a second or not. Two contents are
  the most that a plain name and one with a pid can keep apart in a second when one
  process recovers both; a third corruption in the same second, recovered by the same
  process, is outside the bound (`NamesLeft` in the theorem) and would overwrite a backup.
  Keys, panes, processes and contents are symmetric: nothing orders them.
* `LegacyToggle` has two processes, two scopes with one overlay each (one in the violation
  runs), one corrupt content and a clock that stands still. `legacy_safe` has two sets of
  circumstances: all of them, which allows every behaviour of the model, and all but
  overlaps, for `AtomicAlone`. Each violation run has the one circumstance it is about.
* `identity`: two sockets, a directory named like a workspace, one that continues like
  another entrypoint, a tab id in Herdr's `workspace:tab` form, and a workspace and an
  entrypoint that spell another pair when nothing separates them; `MaxOpened = 1` popup
  is remembered and compared with the one that would open now, which is every pair.
  The files of `OtherFiles` have each edge of u8, u16, 1% and 100% on both sides for
  either dimension, the other one among four; they are tried in one context only, since
  nothing they differ in enters a key.
* `doctor`: one session, two popups, and two keys of which tmux rejects one: enough for
  two scripts to differ in their key, and for a session to end and be created again
  during a report. The two popups are symmetric. The others rest while the process of a
  complete report exits, when no property speaks of them.
* `build`: three runs and two published binaries, each interchangeable: two runs that
  overlap and a third that repairs. Nothing restricts which runs overlap. A run is made
  once, so the system stops (`CHECK_DEADLOCK FALSE`).

### Fairness

`PopupShell!FairSpec`, of the run `popup_live`, is the only fairness assumed: weak fairness
of each script's next command. `sh` runs on and tmux answers; nothing is assumed of users,
shells or Herdr.

That a toggle ends, and that the lock becomes free, are stated as safety. Each step of a toggle
lowers the measure `Left` (`ToggleAdvances`), and a toggle that has not ended has a step it
can take, whatever others do (`NeverStuck`): the client's timeout (`client.go:62-76`) bounds
every Herdr command, and without the lock a Store operation never waits. So a toggle whose
process goes on ends. `LockReleased` says that only a process inside an operation it has
locked for holds the lock.

## Proofs

No theorem bounds the number of processes, sessions, keys, runs or steps; `CorruptIsKept`
alone bounds the corrupt contents, and `NextConnectionRepairs` and `OkReportIsTrueWhileOpen`
the popups. Each theorem
rests on the named assumptions on constants in the modules it is about (values differ
from the "no value" constants; the default key is one tmux accepts; the fields of a key
that hold a `:` are directories and tab ids), and on the hypotheses given with it.

**PopupShellProofs.**

* `TypeCorrect` - `Spec => []TypeOK`.
* `CloseKeyWorks` - `Spec => []AlwaysClosable`, from two hypotheses: `UninterruptedSetup`
  (Herdr does not cut a script short while it configures its session) and `NoAliases`
  (two spellings tmux accepts name two keys). The run `popup_interrupted` shows
  that the first cannot be dropped, and the alias counterexample above the second.
* `NextConnectionRepairs` - `Spec => []AlwaysClosable` from neither of the two, but from
  `OnePopup`: an interrupted script harms only clients that are attached beside it, and
  the next connection leaves a key that works.
* `SettingsNeverLost` - `Spec => []SettingsApplied` from `UninterruptedCreation`: a script hung
  up between `new-session` and `mouse on` is the counterexample without it.
* `PopupShellImplementsSavedShell` - `Spec => ImplementsSavedShell`, from no hypothesis:
  whatever is torn down, a shell ends only by itself.

`AlwaysClosable` is not inductive: it says nothing of sessions nobody shows, whose key
another popup may bind. `ClosableInv` adds that the recorded key of *every* live session
is bound, or some script is about to bind that very key, or to replace the record, or
the session has no key yet and a script is still before `set-option` (`KeysTracked`);
that a session that ended left no options (`DeadSessions`); that attached clients have
their session (`AttachedAlive`); and that a script in the fallback holds a key tmux
accepts (`FallbackKnown`). `SettingsTracked` strengthens `SettingsApplied` in the same
way, option by option. Popups that do not overlap need less (`RecordsThenBinds`): a script
that binds a key has recorded it, and one past the binding has bound what is recorded.

**DoctorProofs.** `DoctorTypeCorrect`, `EveryLineIsReported`, `QuietReportIsExact`, and
`OkReportIsTrue`, the last from the hypotheses of `CloseKeyWorks`. Every step of
`DoctorNext` is a step of `PopupShell` or leaves its variables alone
(`DoctorIsPopupShell`), so the invariants above hold beside a doctor. A line is printed
exactly when the report is past it (`LinesInOrder`); while nothing came between, the
printed lines are those of the server now (`QuietSoFar`); an unanswered command shows
as a line that is not ok (`UnreadShows`); and the options that were read as ok stay so or
`meanwhile` says who drifted them (`ClipboardLasts`, `WindowSizeLasts`). The close key is
read last: what is true of it at that moment is true of the report's end, and
`KeysTracked` and `SettingsTracked` make a session that was created again in between one that
some script is still configuring.

`OkReportIsTrueWhileOpen` drops those hypotheses for `OnePopup`. A script hung up between
recording and binding leaves a session the doctor finds nothing wrong with, so what is
left of the promise is about the popup the report is made in: its own script has bound the
key (`RecordsThenBinds`) and set the window size of this very session (`SizedLasts`). The
mouse is as read unless something changed meanwhile: a session that ended during the
report may have been created again by a script that was hung up before `mouse on`. Its
property `OkReportTrueWhileOpen` belongs to no run, since the `doctor` run has two popups
beside the doctor; TLC has checked it, with `SizedLasts`, for one popup, two sessions and
hang-ups anywhere, in 17 million states.

**RegistryProofs.** `RegistryTypeCorrect` and `LockIsReleased`, with or without the lock;
`OnlyCorruptIsMoved`, from `Locked` (the
operations run inside `WithLock`); and two results that do not say what keeps operations
apart, only that one at a time is between its first read and its last rename
(`Exclusive`). `ExclusiveStoreIsAtomic` is the refinement of `AtomicRegistry`. Its invariant
`Known` needs nothing of the other processes' past: the copy a process read is the file
(`KnowsFile`), and a temporary file is whole when it is renamed (`TempWhole`).
`RecoveriesKeepCorrupt` is `CorruptKept` for any number of corrupt contents, from `NamesLeft`
besides: a recovery finds one of its two names free, which is so of a process that
recovers once in a second, since no other takes the name with its pid. Its invariant adds
that the name a recovery has chosen is free until it takes it (`NameFree`).

Inside the lock a process between its lock and its release has the lock (`LockHeld`), so
there is one: `StoreIsAtomic` follows, and `CorruptIsKept` from `TwoContents`, by which
each content is in one place (`OnePlace`) and can have taken only one of the two names.
`registry_unlocked_recovery` and the counterexamples above show that neither hypothesis can
be dropped.

**LegacyToggleProofs.** Everything here is about toggles *without* the lock, as in the
code. `ToggleTypeCorrect` and `AloneIsAtomic` need no hypothesis: while toggles do not
overlap they use the registry as a map with one-step operations, whatever Herdr and the
disk do and wherever a toggle dies, by `ExclusiveStoreIsAtomic`'s own invariant; a dead
process leaves nothing that the lock would have protected.

`OverlaysAreTracked`, `CoveredOnlyWhileClosing` and `TogglesAdvance` need none either: any
number of toggles and scopes, overlapping, failing and killed in any way. What excuses the
command is named in the property, by `lapses`, and each lapse is recorded by one
step, at the line where it happens.

Writers of other scopes overlap and do lose updates, which is why the invariant is about
copies (`Guarded`): while an overlay is there and none of the four lapses of `Losing` has
happened to it, the file and every copy that will be
written back or decided by have its entry (`Records`), and in the file and the copies of
other scopes it is hidden only while a process of its scope has hidden it (`Knows`); the
copies of its own scope need not, since that process sets the entry itself. A Store
operation is that of its process's place in `Run` (`Asks`), and toggles are apart as far as
the circumstances keep them so (`Apart`). `OpensBeside` adds that, before any lapse, a process
which has found no visible entry does so beside one that has hidden it and has not closed
the pane yet.

**BuildProofs.** `BuildTypeCorrect`, `OnlyVerifiedBinariesRun`, `FailedRunsKeepTheBinary`,
`SuccessRepairs`, for any number of runs and versions, overlapping in any way, from no
hypothesis. A checksum in a work directory was published, and a run past its check has the
asset of that checksum (`Verified`); runs at the same time know of each other (`Together`);
the file holds what was there, was compiled or was verified (`FromSource`); only the run that
created it, or a run that broke off, leaves it incomplete, and only a run beside that one
makes such a file executable (`Incomplete`); a run that has created the file finds it in
place until a run beside it replaces it (`OwnFile`); and the file is whole and not executable
only between its run's `mv` and `chmod`, or when that run broke off there (`NotReady`).

**IdentityProofs.** `SettingsAlwaysUsable`, `ReplacementsAlwaysReported`, `ConfigLineIsTrue`,
`StateLineIsTrue`, for every content of the files, with any integers and any spellings; that a
file which cannot be read or parsed is none with a version and popups is assumed
(`FileKinds`).

**SessionKeyProofs.** `SessionKeyIsIdentity`, `ToggleAgreesWithPopupShell`,
`DoctorAgreesWithPopupShell`. A key is taken apart from both ends: a first field without a `:`
ends at the first separator (`FirstField`), a last one without any begins after the last
(`LastField`). In every scope all fields but one, the directory or the tab id, are free of
`:`, and that one is reached last. `IdentityAssumption` says which: were a workspace id to
contain a `:`, two tabs could get one shell.

Only model-checked: the liveness properties `EventuallyClosable` and `DriftCorrected`, and
`NeverStuck`, since fairness and `ENABLED` are outside TLAPS. The model
declares no recursive operator and no theorem needs induction over data.

## Abstractions and what is left out

* Hashes are injective; JSON and TOML are the values they carry; messages are left out,
  except for which warnings `Load` gives.
* `fsync`: the Store does not call it; a loss of power, after which the renamed file may
  be empty, is not modelled, a killed process is.
* A Herdr command that was cut off has had its effect by then, or never has; one that
  reaches Herdr after the plugin gave up is not modelled, except the popup of a killed process.
* `go build` and `mv` rename where they can, and replace the file by a copy where they
  cannot; which of the two is one for both, by where temporary directories are.
* Not modelled: the cobra dispatch of `main.go`, `internal/clock` (unused), the client
  methods and the `popup_size` settings (`ParseSizeSteps`) no command uses, the doctor's
  versions, tools, manifest and terminfo probe (each one external command whose output is
  printed and decides nothing else), the SBOM script, the workflows. `docs/legacy-overlay-removal.md` names commands (`gc`, `on-pane-closed`,
  `on-tab-focused`) that `main.go` no longer has; there is nothing to model.

## Plan

Done: `PopupShell`, `Doctor`, `Registry`, `LegacyToggle` with every failure, `Identity` with `Config`
and `DoctorFiles`, `Build`, and the proofs of each. What is left:

1. Two popups beside an interrupted script: how far `NextConnectionRepairs` and
   `OkReportIsTrueWhileOpen` reach when popups overlap on different sessions only.
2. A registry whose lock only some callers take, should `toggle` start to use `WithLock`;
   `Exclusive` is what such a protocol has to provide.
