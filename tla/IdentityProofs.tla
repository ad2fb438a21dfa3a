---------------------------- MODULE IdentityProofs ----------------------------
(***************************************************************************)
(* Theorems of Identity about the settings, and about the doctor's lines on  *)
(* the files, for every content of config.toml and popups.json.              *)
(***************************************************************************)
EXTENDS Identity, TLAPS

LEMMA DefaultSizable == DefaultDimension \in Sizable
<1>1. 100 \in Percentages
  BY DEF Percentages
<1> QED
  BY <1>1 DEF DefaultDimension, Sizable

\* The size Herdr gets is one it resolves, and is the written one exactly when
\* that is usable.
LEMMA DimensionResolved ==
  ASSUME NEW d \in Dimensions
  PROVE  /\ ResolveDimension(d) \in Sizable
         /\ d # Unset => (ResolveDimension(d) = d <=> ValidateDimension(d))
<1>1. ValidateDimension(DefaultDimension)
  BY ConfigAssumption DEF ValidateDimension, DefaultDimension, FitsUint
<1>2. DefaultDimension \in Sizable
  BY DefaultSizable
<1>3. ASSUME ValidateDimension(d), d # Unset
      PROVE  d \in Sizable
  <2>1. d \in [unit : {"cells", "percent"}, n : Int]
    BY <1>3 DEF ValidateDimension, Dimensions
  <2>2. CASE d.unit = "percent"
    <3>1. d.n \in Percentages
      BY <1>3, <2>1, <2>2 DEF ValidateDimension, Percentages
    <3> QED
      BY <2>1, <2>2, <3>1 DEF Sizable
  <2>3. CASE d.unit = "cells"
    <3>0. MaxPopupCells \in Int
      BY DEF MaxPopupCells
    <3>1. d.n \in Int /\ d.n >= 0 /\ d.n <= MaxPopupCells
      BY <1>3, <2>1, <2>3 DEF ValidateDimension
    <3>2. d.n \in CellCounts
      BY <3>0, <3>1 DEF CellCounts
    <3> QED
      BY <2>1, <2>3, <3>2 DEF Sizable
  <2> QED
    BY <2>1, <2>2, <2>3
<1>4. CASE d # Unset /\ ValidateDimension(d)
  BY <1>3, <1>4 DEF ResolveDimension
<1>5. CASE ~(d # Unset /\ ValidateDimension(d))
  BY <1>1, <1>2, <1>5 DEF ResolveDimension
<1> QED
  BY <1>4, <1>5

\* A config.toml as FileAssumption has it.
WellFormed(f) ==
  /\ DOMAIN f = {"scope", "width", "height", "closeKey"}
  /\ f.width \in Dimensions /\ f.height \in Dimensions
  /\ f.closeKey \in Spellings \cup {Unset}

LEMMA LoadUsable ==
  ASSUME NEW f, f \in Unusable \/ WellFormed(f)
  PROVE  Usable(Load(f))
<1>1. CASE f \in Unusable
  <2>1. /\ Load(f).width = DefaultDimension /\ Load(f).height = DefaultDimension
        /\ Load(f).closeKey = DefaultCloseKey
    BY <1>1 DEF Load, Defaults
  <2>2. DefaultDimension \in Sizable
    BY DefaultSizable
  <2> QED
    BY <2>1, <2>2, ConfigAssumption DEF Usable
<1>2. CASE f \notin Unusable
  <2>1. /\ Load(f).width = ResolveDimension(f.width)
        /\ Load(f).height = ResolveDimension(f.height)
        /\ Load(f).closeKey = ResolveCloseKey(f.closeKey)
    BY <1>2 DEF Load
  <2>2. Load(f).closeKey \in SafeKeys
    BY <2>1, ConfigAssumption DEF ResolveCloseKey
  <2> QED
    BY <1>2, <2>1, <2>2, DimensionResolved DEF Usable, WellFormed
<1> QED
  BY <1>1, <1>2

LEMMA LoadReports ==
  ASSUME NEW f, f \in Unusable \/ WellFormed(f)
  PROVE  ShellWarnings(Load(f)) = Unapplied(f)
<1>1. CASE f \in Unusable
  <2>1. Load(f).scope = "workspace" /\ Load(f).warnings = IF f = Missing THEN {} ELSE {"file"}
    BY <1>1 DEF Load, Defaults
  <2> QED
    BY <1>1, <2>1 DEF ShellWarnings, Unapplied, IsValidScope, Unusable
<1>2. CASE f \notin Unusable
  <2>1. /\ Load(f).scope = IF f.scope = Unset THEN "workspace" ELSE f.scope
        /\ Load(f).width = ResolveDimension(f.width)
        /\ Load(f).height = ResolveDimension(f.height)
        /\ Load(f).closeKey = ResolveCloseKey(f.closeKey)
        /\ Load(f).warnings = Replaced(f)
    BY <1>2 DEF Load
  <2>2. Unapplied(f) = NotApplied(f)
    BY <1>2 DEF Unapplied, Unusable
  <2>3. "scope" \in ShellWarnings(Load(f)) <=> "scope" \in NotApplied(f)
    BY <1>2, <2>1 DEF ShellWarnings, Replaced, NotApplied, WellFormed, IsValidScope
  <2>4. "width" \in ShellWarnings(Load(f)) <=> "width" \in NotApplied(f)
    BY <1>2, <2>1, DimensionResolved DEF ShellWarnings, Replaced, NotApplied, WellFormed
  <2>5. "height" \in ShellWarnings(Load(f)) <=> "height" \in NotApplied(f)
    BY <1>2, <2>1, DimensionResolved DEF ShellWarnings, Replaced, NotApplied, WellFormed
  <2>6. "closeKey" \in ShellWarnings(Load(f)) <=> "closeKey" \in NotApplied(f)
    BY <1>2, <2>1, ConfigAssumption
       DEF ShellWarnings, Replaced, NotApplied, WellFormed, ResolveCloseKey
  <2>7. /\ ShellWarnings(Load(f)) \subseteq {"scope", "width", "height", "closeKey"}
        /\ NotApplied(f) \subseteq {"scope", "width", "height", "closeKey"}
    BY <1>2, <2>1 DEF ShellWarnings, Replaced, NotApplied, WellFormed
  <2> QED
    BY <2>2, <2>3, <2>4, <2>5, <2>6, <2>7
<1> QED
  BY <1>1, <1>2

LEMMA FileSaved == Spec => [](cfgFile \in Files \cup OtherFiles)
<1>1. Init => cfgFile \in Files \cup OtherFiles
  BY DEF Init
<1>2. cfgFile \in Files \cup OtherFiles /\ [Next]_vars => (cfgFile \in Files \cup OtherFiles)'
  BY DEF Next, Edit, Focus, Open, vars, files
<1> QED
  BY <1>1, <1>2, PTL DEF Spec

\* Whatever config.toml says, Herdr gets a size it resolves and the script a key
\* it can type.
THEOREM SettingsAlwaysUsable == Spec => []SettingsUsable
<1>1. cfgFile \in Files \cup OtherFiles => SettingsUsable
  BY FileAssumption, LoadUsable DEF SettingsUsable, WellFormed
<1> QED
  BY <1>1, FileSaved, PTL

\* Of every file, popup-shell warns of the settings it does not apply as they
\* are written, and of no other.
THEOREM ReplacementsAlwaysReported == Spec => []ReplacementsReported
<1>1. cfgFile \in Files \cup OtherFiles => ReplacementsReported
  BY FileAssumption, LoadReports DEF ReplacementsReported, WellFormed
<1> QED
  BY <1>1, FileSaved, PTL

\* diagnoseConfigFile says error of a file exactly when Load falls back to the
\* defaults for it, but for a close_key of another type.
THEOREM ConfigLineIsTrue == Spec => []ConfigLineTrue
<1>1. ASSUME cfgFile \in Files \cup OtherFiles PROVE ConfigLineTrue
  <2>1. CASE cfgFile \in Unusable
    BY <2>1, ConfigAssumption DEF ConfigLineTrue, ConfigStatus, Load, Defaults, Unusable
  <2>2. CASE cfgFile \notin Unusable
    <3>1. ConfigStatus(cfgFile) = "ok" /\ cfgFile # Missing
      BY <2>2 DEF ConfigStatus, Unusable
    <3>2. "file" \notin Replaced(cfgFile)
      BY DEF Replaced
    <3>3. Load(cfgFile).warnings = Replaced(cfgFile)
      BY <2>2 DEF Load
    <3> QED
      BY <3>1, <3>2, <3>3 DEF ConfigLineTrue
  <2> QED
    BY <2>1, <2>2
<1> QED
  BY <1>1, FileSaved, PTL

\* diagnoseState says missing, ok and error of popups.json exactly when Read takes
\* the empty registry, uses the file, and fails or moves it aside, but for a field
\* of another type in an entry.
THEOREM StateLineIsTrue == Spec => []StateLineTrue
<1>1. Init => stateFile \in Documents
  BY DEF Init, Documents
<1>2. stateFile \in Documents /\ [Next]_vars => (stateFile \in Documents)'
  BY DEF Next, Edit, Focus, Open, vars, files, Documents
<1>3. ASSUME stateFile \in Documents PROVE StateLineTrue
  <2>1. CASE stateFile = Missing
    <3>1. ~Mistyped(stateFile)
      BY <2>1, FileKinds DEF Mistyped, Parsed
    <3>2. StateStatus(stateFile) = "missing"
      BY <2>1, ConfigAssumption DEF StateStatus
    <3>3. Read(stateFile) = "default"
      BY <2>1, ConfigAssumption DEF Read
    <3> QED
      BY <3>1, <3>2, <3>3 DEF StateLineTrue
  <2>2. CASE stateFile # Missing /\ stateFile \in {Unreadable, Malformed}
    <3>1. StateStatus(stateFile) = "error" /\ Read(stateFile) \in {"error", "moved aside"}
      BY <2>2 DEF StateStatus, Read, DecodeRegistry
    <3>2. ~Mistyped(stateFile)
      BY <2>2, FileKinds DEF Mistyped, Parsed
    <3> QED
      BY <3>1, <3>2 DEF StateLineTrue
  <2>3. CASE stateFile \notin {Missing, Unreadable, Malformed}
    <3>1. /\ stateFile.popups \in {"null", "list", "entries", "mistypedField", "notObjects"}
          /\ Mistyped(stateFile) <=> (stateFile.version = 1 /\ stateFile.popups = "mistypedField")
      BY <2>3, <1>3 DEF Documents, Parsed, Mistyped
    <3> QED
      BY <2>3, <3>1 DEF StateLineTrue, StateStatus, Read, DecodeRegistry
  <2> QED
    BY <2>1, <2>2, <2>3
<1> QED
  BY <1>1, <1>2, <1>3, PTL DEF Spec
===============================================================================
