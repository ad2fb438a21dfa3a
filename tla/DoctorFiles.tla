------------------------------ MODULE DoctorFiles ------------------------------
(***************************************************************************)
(* The doctor's lines on config.toml and popups.json (diagnoseConfig and    *)
(* diagnoseState, internal/doctor/doctor.go).  It decodes both files into    *)
(* types of its own, which are not those config.Load and state.Store use.    *)
(***************************************************************************)
EXTENDS Config

\* popups.json: its version, and what the popups member is.  An entry may be an
\* object with a field of another type, or no object.
Parsed ==
  [version : 0..2, popups : {"null", "list", "entries", "mistypedField", "notObjects"}]
Documents == {Missing, Unreadable, Malformed} \cup Parsed

ASSUME FileKinds == {Missing, Unreadable, Malformed} \cap Parsed = {}

\* Mutant: a file that cannot be read is missing.
UnreadableIsMissing(file) ==
  IF file \in {Missing, Unreadable} THEN "missing" ELSE IF file = Malformed THEN "error" ELSE "ok"

\* diagnoseConfigFile: os.Stat, then a decoding of the scope and popup_size only.
ConfigStatus(file) ==
  CASE file = Missing -> "missing"
    [] file \in {Unreadable, Malformed} -> "error"
    [] OTHER -> "ok"

\* diagnoseConfig: the settings the rest of the report uses.
DiagnoseConfig(file) ==
  LET cfg == Load(file) IN [cfg EXCEPT !.scope = IF IsValidScope(@) THEN @ ELSE "workspace"]

\* decodeRegistry, of a file that could be read.
DecodeRegistry(doc) == doc # Malformed /\ doc.version = 1 /\ doc.popups = "entries"

\* Store.Read: what becomes of the document.
Read(doc) ==
  CASE doc = Missing -> "default"
    [] doc = Unreadable -> "error"
    [] OTHER -> IF DecodeRegistry(doc) THEN "used" ELSE "moved aside"

\* An entry the Store cannot decode and the doctor can.
Mistyped(doc) == doc \in [version : {1}, popups : {"mistypedField"}]

\* Mutant: a missing popups member is an empty registry.
NullIsEmpty(doc) ==
  CASE doc = Missing -> "missing"
    [] doc \in {Unreadable, Malformed} -> "error"
    [] OTHER -> IF doc.version = 1 /\ doc.popups \notin {"list", "notObjects"} THEN "ok" ELSE "error"

\* diagnoseState: an entry is any object.
StateStatus(doc) ==
  CASE doc = Missing -> "missing"
    [] doc \in {Unreadable, Malformed} -> "error"
    [] OTHER -> IF doc.version = 1 /\ doc.popups \in {"entries", "mistypedField"} THEN "ok" ELSE "error"
===============================================================================
