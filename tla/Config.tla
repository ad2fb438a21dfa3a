-------------------------------- MODULE Config --------------------------------
(***************************************************************************)
(* config.Load (internal/config/config.go): from config.toml as the user    *)
(* wrote it to the settings every command uses, with the warnings it gives.  *)
(* A dimension is what it says, cells or percent and a number; a close key   *)
(* is its spelling.                                                          *)
(***************************************************************************)
EXTENDS Integers

CONSTANTS
  Spellings,   \* the close keys a user writes
  SafeKeys,    \* those closeKeyPattern matches
  DefaultCloseKey,
  Unset,       \* a setting config.toml does not have
  Garbage,     \* a value of another type, or that is no number
  Missing, Unreadable, Malformed, \* a file that gives no settings
  MistypedKey  \* a config.toml whose close_key is no string

\* A dimension as it may be written.
Dimensions == {Unset, Garbage} \cup [unit : {"cells", "percent"}, n : Int]

DefaultDimension == [unit |-> "percent", n |-> 100]

ASSUME ConfigAssumption ==
  /\ SafeKeys \subseteq Spellings
  /\ DefaultCloseKey \in SafeKeys
  /\ Unset \notin Spellings \cup {Garbage}
  /\ Missing \notin {Unreadable, Malformed, MistypedKey}
  /\ MistypedKey \notin {Unreadable, Malformed}
  /\ DefaultDimension \notin {Unset, Garbage}

\* What os.ReadFile and toml.Unmarshal make of the file besides its settings; a
\* wrong type of one setting rejects them all.
Unusable == {Missing, Unreadable, Malformed, MistypedKey}

Defaults ==
  [scope |-> "workspace", width |-> DefaultDimension, height |-> DefaultDimension,
   closeKey |-> DefaultCloseKey, warnings |-> {}]

MaxPopupCells == 65535

\* strconv.ParseUint in base 10: an error for a sign and outside the width.
FitsUint(n, bits) == n >= 0 /\ n < 2^bits

\* Mutant: a percentage is any u8.
AnyByte(d) ==
  /\ d # Garbage
  /\ IF d.unit = "percent" THEN FitsUint(d.n, 8) ELSE FitsUint(d.n, 16)

\* validateDimension: a u8 from 1 to 100 before a %, or a u16.
ValidateDimension(d) ==
  /\ d # Garbage
  /\ IF d.unit = "percent" THEN FitsUint(d.n, 8) /\ d.n >= 1 /\ d.n <= 100
                           ELSE FitsUint(d.n, 16) /\ d.n >= 0 /\ d.n <= MaxPopupCells

\* resolveDimension: the value Herdr gets.
ResolveDimension(d) ==
  IF d # Unset /\ ValidateDimension(d) THEN d ELSE DefaultDimension

\* resolveCloseKey
ResolveCloseKey(k) == IF k \in SafeKeys THEN k ELSE DefaultCloseKey

IsValidScope(s) == s \in {"workspace", "directory", "tab"}

\* Mutant: an unusable height is replaced silently.
SilentHeight(parsed) ==
  {f \in {"width"} : parsed[f] # Unset /\ ~ValidateDimension(parsed[f])}
    \cup {f \in {"closeKey"} : parsed[f] \notin SafeKeys \cup {Unset}}

\* The settings Load warns of: present and replaced.  An empty close key counts
\* as absent, and an unknown scope is passed on as it is.
Replaced(parsed) ==
  {f \in {"width", "height"} : parsed[f] # Unset /\ ~ValidateDimension(parsed[f])}
    \cup {f \in {"closeKey"} : parsed[f] \notin SafeKeys \cup {Unset}}

\* Load: the defaults without a usable file, with a warning unless there is
\* none; else each setting on its own.
Load(file) ==
  IF file \in Unusable
  THEN [Defaults EXCEPT !.warnings = IF file = Missing THEN {} ELSE {"file"}]
  ELSE [scope |-> IF file.scope = Unset THEN "workspace" ELSE file.scope,
        width |-> ResolveDimension(file.width),
        height |-> ResolveDimension(file.height),
        closeKey |-> ResolveCloseKey(file.closeKey),
        warnings |-> Replaced(file)]

\* popupshell.loadConfig adds the scope it will not use.
ShellWarnings(cfg) ==
  cfg.warnings \cup {f \in {"scope"} : ~IsValidScope(cfg.scope)}

-------------------------------------------------------------------------------
(* What makes the settings correct. *)

\* The sizes Herdr resolves, a u16 of cells or 1% to 100%.
CellCounts == 0..MaxPopupCells
Percentages == 1..100
Sizable == [unit : {"cells"}, n : CellCounts] \cup [unit : {"percent"}, n : Percentages]

\* Herdr resolves the size, and the key can be typed into the script.
Usable(cfg) ==
  /\ {cfg.width, cfg.height} \subseteq Sizable
  /\ cfg.closeKey \in SafeKeys

\* The settings the file has and the plugin does not apply as written.
NotApplied(file) ==
  {f \in DOMAIN file : file[f] # Unset /\
     IF f = "scope" THEN ~IsValidScope(file.scope) ELSE Load(file)[f] # file[f]}

\* Those, or the whole file, which popup-shell has to report.
Unapplied(file) ==
  IF file = Missing THEN {} ELSE IF file \in Unusable THEN {"file"} ELSE NotApplied(file)
===============================================================================
