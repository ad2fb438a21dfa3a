-------------------------- MODULE LegacyToggleProofs --------------------------
(***************************************************************************)
(* Theorems of LegacyToggle for every number of processes, scopes and panes. *)
(***************************************************************************)
EXTENDS LegacyToggle, RegistryProofs

USE DEF Places, Resetting, Storing, Steps

-------------------------------------------------------------------------------
(* Types. *)

\* A toggle uses the registry through the operations of the Store alone.
LEMMA UsesStore ==
  ASSUME TypeOK, [Next]_vars
  PROVE  [RegistryNext]_registryVars
<1> USE DEF CallStore, Move, TypeOK
<1>1. \A k \in Keys : /\ [op |-> "get", key |-> k] \in Requests
                      /\ [op |-> "delete", key |-> k] \in Requests
                      /\ \A h \in BOOLEAN : [op |-> "setHidden", key |-> k, hidden |-> h] \in Requests
  BY DEF Requests
<1>2. ASSUME NEW p \in Procs, NEW k \in Keys, Toggle(p, k) \/ ToggleStateless(p, k)
      PROVE  [RegistryNext]_registryVars
  BY <1>1, <1>2 DEF Toggle, ToggleStateless, RegistryNext
<1>3. ASSUME NEW p \in Procs, PaneExists(p) \/ PaneMissing(p) \/ PaneCloseFails(p)
      PROVE  [RegistryNext]_registryVars
  <2>1. scope[p] \in Keys
    OBVIOUS
  <2> QED
    BY <1>1, <1>3, <2>1 DEF PaneExists, PaneMissing, PaneCloseFails, RegistryNext
<1>4. ASSUME NEW p \in Procs, Got(p) \/ Forgot(p) \/ Hid(p) \/ Restored(p)
      PROVE  [RegistryNext]_registryVars
  BY <1>4 DEF Got, Forgot, Hid, Restored, RegistryNext
<1>5. ASSUME NEW p \in Procs, PaneClosed(p) \/ PopupOpen(p) \/ StoreStep(p) \/ Killed(p)
      PROVE  [RegistryNext]_registryVars
  BY <1>5 DEF PaneClosed, PopupOpen, StoreStep, Killed, RegistryNext, Operate
<1>6. CASE (\E w \in Panes : CloseOverlay(w)) \/ UNCHANGED vars
  BY <1>6 DEF CloseOverlay, vars
<1> QED
  BY <1>2, <1>3, <1>4, <1>5, <1>6 DEF Next, Work

\* What a process does changes nothing of another one.
Acts(p) == (\E k \in Keys : Toggle(p, k) \/ ToggleStateless(p, k)) \/ Work(p) \/ Killed(p)

LEMMA OthersKeep ==
  ASSUME TypeOK, NEW p \in Procs, Acts(p)
  PROVE  \A q \in Procs : q # p =>
           /\ at'[q] = at[q] /\ scope'[q] = scope[q] /\ step'[q] = step[q]
           /\ request'[q] = request[q] /\ seen'[q] = seen[q] /\ temp'[q] = temp[q]
           /\ failed'[q] = failed[q]
<1> SUFFICES ASSUME NEW q \in Procs, q # p
             PROVE  /\ at'[q] = at[q] /\ scope'[q] = scope[q] /\ step'[q] = step[q]
                    /\ request'[q] = request[q] /\ seen'[q] = seen[q] /\ temp'[q] = temp[q]
                    /\ failed'[q] = failed[q]
  OBVIOUS
<1> USE DEF CallStore, Move, TypeOK, RegistryTypeOK, Begin, Return, Crash, disk, local, registryVars
<1>1. CASE \E k \in Keys : Toggle(p, k) \/ ToggleStateless(p, k)
  BY <1>1 DEF Toggle, ToggleStateless
<1>2. CASE PaneExists(p) \/ PaneMissing(p) \/ PaneCloseFails(p)
  BY <1>2 DEF PaneExists, PaneMissing, PaneCloseFails
<1>3. CASE Got(p) \/ Forgot(p) \/ Hid(p) \/ Restored(p)
  BY <1>3 DEF Got, Forgot, Hid, Restored
<1>4. CASE PaneClosed(p) \/ PopupOpen(p) \/ Killed(p)
  BY <1>4 DEF PaneClosed, PopupOpen, Killed
<1>5. CASE StoreStep(p)
  BY <1>5 DEF StoreStep, SystemCall, Acquire, ReadFile, ReadCorrupt, BackupPath, MoveAside,
     MoveAsideFails, CreateTemp, WriteTemp, RenameTemp, Fail, Goto
<1> QED
  BY <1>1, <1>2, <1>3, <1>4, <1>5 DEF Acts, Work

LEMMA ToggleTypeNext ==
  ASSUME TypeOK, TempWhole, [Next]_vars
  PROVE  TypeOK' /\ TempWhole'
<1>1. RegistryTypeOK' /\ TempWhole'
  BY UsesStore, RegistryTypeNext DEF TypeOK, TypeAndTemp
<1>2. ASSUME NEW p \in Procs, Acts(p)
      PROVE  /\ at' \in [Procs -> Places] /\ scope' \in [Procs -> Keys] /\ happens' = happens
             /\ live' \subseteq Panes /\ lapses' \in [Keys -> SUBSET Lapses]
             /\ step'[p] # "idle" <=> at'[p] \in {"getting", "forgetting", "hiding", "restoring"}
  <2>l. \A k \in Keys, cs \in SUBSET Lapses :
          Lapse(k, cs) => happens' = happens /\ lapses' \in [Keys -> SUBSET Lapses]
    BY DEF Lapse, TypeOK
  <2>c. {"unlooked"} \in SUBSET Lapses /\ {"unasked"} \in SUBSET Lapses
        /\ {"unrestored"} \in SUBSET Lapses /\ {"abandoned"} \in SUBSET Lapses /\ {} \in SUBSET Lapses
        /\ \A k : TooLate(k) \in SUBSET Lapses
    BY DEF Lapses, TooLate
  <2>h. /\ happens' = happens /\ lapses' \in [Keys -> SUBSET Lapses]
    <3>1. \/ \E k \in Keys, cs \in SUBSET Lapses : Lapse(k, cs)
          \/ UNCHANGED mishaps
      <4>1. CASE \E k \in Keys : ToggleStateless(p, k)
        BY <4>1, <2>c DEF ToggleStateless
      <4>2. CASE PaneMissing(p) \/ Restored(p) \/ Killed(p) \/ StoreStep(p)
        <5>1. scope[p] \in Keys
          BY DEF TypeOK
        <5> QED
          BY <4>2, <5>1, <2>c DEF PaneMissing, Restored, Killed, StoreStep
      <4>3. CASE (\E k \in Keys : Toggle(p, k)) \/ Got(p) \/ PaneExists(p) \/ Forgot(p)
                 \/ Hid(p) \/ PaneClosed(p) \/ PaneCloseFails(p) \/ PopupOpen(p)
        BY <4>3 DEF Toggle, Got, PaneExists, Forgot, Hid, PaneClosed, PaneCloseFails, PopupOpen
      <4> QED
        BY <1>2, <4>1, <4>2, <4>3 DEF Acts, Work
    <3> QED
      BY <3>1, <2>l DEF mishaps, TypeOK
  <2> USE DEF CallStore, Move, TypeOK, RegistryTypeOK, Begin, Return, Crash, registryVars
  <2>1. CASE \E k \in Keys : Toggle(p, k) \/ ToggleStateless(p, k)
    BY <1>2, <2>1, <2>h DEF Toggle, ToggleStateless
  <2>2. CASE PaneExists(p) \/ PaneMissing(p) \/ PaneCloseFails(p)
    BY <1>2, <2>2, <2>h DEF PaneExists, PaneMissing, PaneCloseFails
  <2>3. CASE Got(p) \/ Forgot(p) \/ Hid(p) \/ Restored(p)
    BY <1>2, <2>3, <2>h DEF Got, Forgot, Hid, Restored
  <2>4. CASE PaneClosed(p) \/ PopupOpen(p)
    BY <1>2, <2>4, <2>h DEF PaneClosed, PopupOpen
  <2>5. CASE StoreStep(p)
    <3>1. UNCHANGED <<at, scope, live>>
      BY <2>5 DEF StoreStep
    <3>2. step[p] # "idle" /\ step'[p] # "idle"
      BY <2>5 DEF StoreStep, SystemCall, Acquire, ReadFile, ReadCorrupt, BackupPath, MoveAside,
         MoveAsideFails, CreateTemp, WriteTemp, RenameTemp, Fail, Goto, AfterRead
    <3> QED
      BY <2>h, <3>1, <3>2
  <2>6. CASE Killed(p)
    <3>1. at' = [at EXCEPT ![p] = "off"] /\ UNCHANGED <<scope, live>>
      BY <2>6 DEF Killed
    <3>2. step'[p] = "idle"
      <4>1. CASE step[p] = "idle"
        BY <2>6, <4>1 DEF Killed
      <4>2. CASE step[p] # "idle"
        BY <2>6, <4>2 DEF Killed
      <4> QED
        BY <4>1, <4>2
    <3> QED
      BY <2>h, <3>1, <3>2
  <2> QED
    BY <1>2, <2>1, <2>2, <2>3, <2>4, <2>5, <2>6 DEF Acts, Work
<1>3. ASSUME NEW p \in Procs, Acts(p) PROVE TypeOK'
  BY <1>1, <1>2, <1>3, OthersKeep DEF TypeOK
<1>4. CASE (\E w \in Panes : CloseOverlay(w)) \/ UNCHANGED vars
  BY <1>1, <1>4 DEF CloseOverlay, vars, mishaps, TypeOK, registryVars
<1> QED
  BY <1>1, <1>3, <1>4 DEF Next, Acts

LEMMA ToggleTypeInit == Init => TypeOK /\ TempWhole
<1> SUFFICES ASSUME Init PROVE TypeOK /\ TempWhole
  OBVIOUS
<1>1. RegistryTypeOK /\ TempWhole
  BY RegistryTypeInit DEF Init
<1>2. live \subseteq Panes
  BY ToggleAssumption DEF Init
<1> QED
  BY <1>1, <1>2 DEF Init, RegistryInit, TypeOK, Lapses

\* The type invariant of the toggles, whatever their circumstances.
THEOREM ToggleTypeCorrect == Spec => []TypeOK
<1>1. (TypeOK /\ TempWhole) /\ [Next]_vars => (TypeOK /\ TempWhole)'
  BY ToggleTypeNext
<1> QED
  BY <1>1, ToggleTypeInit, PTL DEF Spec

-------------------------------------------------------------------------------
(* Processes and their operations. *)

Typed == TypeOK /\ TempWhole

\* Nothing chooses the circumstances anew.
LEMMA HappensStays ==
  ASSUME [Next]_vars
  PROVE  happens' = happens
BY DEF Next, Work, Toggle, ToggleStateless, Got, PaneExists, PaneMissing, Forgot, Hid,
   PaneClosed, PaneCloseFails, Restored, PopupOpen, StoreStep, Killed, CloseOverlay, vars, mishaps,
   Lapse

LEMMA ApartNext ==
  ASSUME TypeOK, Apart, [Next]_vars
  PROVE  Apart'
<1> USE DEF Apart, MayOverlap
<1>1. ASSUME NEW p \in Procs, NEW k \in Keys, Toggle(p, k) PROVE Apart'
  <2>1. \A q \in Procs : at[q] # "off" => (IF scope[q] = k THEN "sameScope" ELSE "overlap") \in happens
    BY <1>1 DEF Toggle
  <2>2. /\ scope' = [scope EXCEPT ![p] = k] /\ at' = [at EXCEPT ![p] = "getting"]
        /\ happens' = happens /\ at[p] = "off"
    BY <1>1, HappensStays DEF Toggle
  <2> QED
    BY <2>1, <2>2 DEF TypeOK
<1>2. ASSUME NEW p \in Procs, Work(p) \/ Killed(p) PROVE Apart'
  <2>1. /\ scope' = scope /\ happens' = happens /\ (at'[p] # "off" => at[p] # "off")
        /\ at[p] = "open" => at'[p] \in {"off", "open"}
    BY <1>2, HappensStays DEF Work, Killed, Got, PaneExists, PaneMissing, Forgot, Hid,
       PaneClosed, PaneCloseFails, Restored, PopupOpen, StoreStep, CallStore, Move, TypeOK
  <2>2. \A q \in Procs : q # p => at'[q] = at[q]
    BY <1>2, OthersKeep DEF Acts
  <2> QED
    BY <2>1, <2>2
<1>3. ASSUME NEW p \in Procs, NEW k \in Keys, ToggleStateless(p, k) PROVE Apart'
  <2>1. /\ scope' = [scope EXCEPT ![p] = k] /\ at' = [at EXCEPT ![p] = "open"]
        /\ happens' = happens /\ "noStateDir" \in happens
    BY <1>3, HappensStays DEF ToggleStateless
  <2> QED
    BY <2>1 DEF TypeOK
<1>4. CASE (\E w \in Panes : CloseOverlay(w)) \/ UNCHANGED vars
  BY <1>4 DEF CloseOverlay, vars, mishaps
<1> QED
  BY <1>1, <1>2, <1>3, <1>4 DEF Next

LEMMA AsksNext ==
  ASSUME TypeOK, \A p \in Procs : Asks(p), [Next]_vars
  PROVE  \A p \in Procs : Asks(p)'
<1> SUFFICES ASSUME NEW p \in Procs PROVE Asks(p)'
  OBVIOUS
<1> USE DEF Asks
<1>1. ASSUME NEW q \in Procs, q # p, Acts(q) PROVE Asks(p)'
  <2>1. /\ at'[p] = at[p] /\ scope'[p] = scope[p] /\ step'[p] = step[p]
        /\ request'[p] = request[p] /\ seen'[p] = seen[p] /\ temp'[p] = temp[p]
        /\ failed'[p] = failed[p]
    BY <1>1, OthersKeep
  <2> QED
    BY <2>1
<1>2. ASSUME NEW k \in Keys, Toggle(p, k) PROVE Asks(p)'
  BY <1>2 DEF Toggle, Begin, TypeOK, RegistryTypeOK
<1>3. ASSUME NEW k \in Keys, ToggleStateless(p, k) PROVE Asks(p)'
  BY <1>3 DEF ToggleStateless, registryVars, local, TypeOK
<1>4. CASE PaneExists(p) \/ PaneMissing(p) \/ PaneCloseFails(p)
  <2>1. step'[p] \in {"lock", "read"} /\ failed'[p] = FALSE /\ scope' = scope
    BY <1>4 DEF PaneExists, PaneMissing, PaneCloseFails, CallStore, Move, Begin, TypeOK,
       RegistryTypeOK
  <2>2. CASE PaneExists(p)
    BY <2>1, <2>2 DEF PaneExists, CallStore, Move, Begin, TypeOK, RegistryTypeOK
  <2>3. CASE PaneMissing(p)
    BY <2>1, <2>3 DEF PaneMissing, CallStore, Move, Begin, TypeOK, RegistryTypeOK
  <2>4. CASE PaneCloseFails(p)
    BY <2>1, <2>4 DEF PaneCloseFails, CallStore, Move, Begin, TypeOK, RegistryTypeOK
  <2> QED
    BY <1>4, <2>2, <2>3, <2>4
<1>5. CASE Got(p) \/ Forgot(p) \/ Hid(p) \/ Restored(p)
  <2>1. step'[p] = "idle"
    BY <1>5 DEF Got, Forgot, Hid, Restored, Return, TypeOK, RegistryTypeOK
  <2> QED
    BY <2>1
<1>6. CASE PaneClosed(p) \/ PopupOpen(p)
  <2>1. step'[p] = "idle"
    BY <1>6 DEF PaneClosed, PopupOpen, Move, registryVars, TypeOK
  <2> QED
    BY <2>1
<1>7. CASE Killed(p)
  <2>1. step'[p] = "idle"
    BY <1>7 DEF Killed, Crash, registryVars, TypeOK, RegistryTypeOK
  <2> QED
    BY <2>1
<1>8. CASE StoreStep(p)
  <2>1. UNCHANGED <<at, scope, request>>
    BY <1>8 DEF StoreStep, SystemCall, Acquire, ReadFile, ReadCorrupt, BackupPath, MoveAside,
       MoveAsideFails, CreateTemp, WriteTemp, RenameTemp, Fail, Goto
  <2>2. step[p] \notin {"idle", "return"} /\ (failed'[p] => failed[p] \/ step'[p] = "return")
    BY <1>8 DEF StoreStep, SystemCall, Acquire, ReadFile, ReadCorrupt, BackupPath, MoveAside,
       MoveAsideFails, CreateTemp, WriteTemp, RenameTemp, Fail, Goto, TypeOK, RegistryTypeOK,
       local
  <2>3. step'[p] = "rename" => WriteTemp(p)
    BY <1>8 DEF StoreStep, SystemCall, Acquire, ReadFile, ReadCorrupt, BackupPath, MoveAside,
       MoveAsideFails, CreateTemp, WriteTemp, RenameTemp, Fail, AfterRead, Goto, TypeOK,
       RegistryTypeOK
  <2>4. step'[p] = "rename" => temp'[p] = Apply(request[p], seen[p]) /\ seen'[p] = seen[p]
    BY <2>3 DEF WriteTemp, Goto, TypeOK, RegistryTypeOK
  <2>5. step'[p] \in Storing => step[p] \in Storing \/ \E reg : Writes(request[p], reg)
    BY <1>8 DEF StoreStep, SystemCall, Acquire, ReadFile, ReadCorrupt, BackupPath, MoveAside,
       MoveAsideFails, CreateTemp, WriteTemp, RenameTemp, Fail, AfterRead, Goto, TypeOK,
       RegistryTypeOK
  <2>6. ASSUME at'[p] = "getting" PROVE step'[p] \notin Storing
    <3>1. at[p] = "getting" /\ step[p] \notin Storing
      BY <2>1, <2>6
    <3>2. request[p] = [op |-> "get", key |-> scope[p]]
      BY <2>2, <3>1
    <3>3. \A reg : ~Writes(request[p], reg)
      BY <3>2 DEF Writes
    <3> QED
      BY <2>5, <3>1, <3>3
  <2> QED
    BY <2>1, <2>2, <2>4, <2>6
<1>9. CASE (\E w \in Panes : CloseOverlay(w)) \/ UNCHANGED vars
  BY <1>9 DEF CloseOverlay, vars, registryVars, local
<1> QED
  BY <1>1, <1>2, <1>3, <1>4, <1>5, <1>6, <1>7, <1>8, <1>9 DEF Next, Acts, Work

-------------------------------------------------------------------------------
(* The overlay that is there. *)

Inv == Typed /\ GuardInv

\* The overlay of k is there, and nothing has lost it.
Safe(k) == OverlayOf[k] \in live /\ lapses[k] \cap Losing = {}

\* Herdr shows fewer and fewer of the recorded overlays, and no lapse is forgotten.
LEMMA OnlyLapses ==
  ASSUME TypeOK, [Next]_vars
  PROVE  live' \subseteq live /\ \A k \in Keys : lapses[k] \subseteq lapses'[k]
<1>l. \A j, cs : Lapse(j, cs) => \A k \in Keys : lapses[k] \subseteq lapses'[k]
  BY DEF Lapse, TypeOK
<1>1. ASSUME NEW p \in Procs, Acts(p)
      PROVE  live' \subseteq live /\ \A k \in Keys : lapses[k] \subseteq lapses'[k]
  <2>1. CASE (\E k \in Keys : ToggleStateless(p, k)) \/ PaneMissing(p) \/ Restored(p) \/ Killed(p)
             \/ StoreStep(p)
    BY <1>l, <2>1 DEF ToggleStateless, PaneMissing, Restored, Killed, StoreStep
  <2>2. CASE (\E k \in Keys : Toggle(p, k)) \/ Got(p) \/ PaneExists(p) \/ Forgot(p)
             \/ Hid(p) \/ PaneClosed(p) \/ PaneCloseFails(p) \/ PopupOpen(p)
    BY <2>2 DEF Toggle, Got, PaneExists, Forgot, Hid, PaneClosed, PaneCloseFails, PopupOpen, mishaps
  <2> QED
    BY <1>1, <2>1, <2>2 DEF Acts, Work
<1>2. CASE (\E w \in Panes : CloseOverlay(w)) \/ UNCHANGED vars
  BY <1>2 DEF CloseOverlay, vars, mishaps
<1> QED
  BY <1>1, <1>2 DEF Next, Acts

\* What a lapse about the overlay that is there marks.
LEMMA LapseMarks ==
  ASSUME TypeOK, NEW k \in Keys, OverlayOf[k] \in live, NEW cs, Lapse(k, cs)
  PROVE  cs \subseteq lapses'[k]
BY DEF Lapse, TypeOK

\* An entry stays known of a document while its process keeps it hidden.
LEMMA KnowsKept ==
  ASSUME NEW k \in Keys, BeingClosed(k) => BeingClosed(k)'
  PROVE  \A reg : Knows(reg, k) => Knows(reg, k)'
BY DEF Knows, Records

\* What a process holds of the entry of k in the registry it uses.
Copied(p, k) ==
  /\ Decides(p, k) => Records(seen[p], k)
  /\ step[p] \in Storing => IF scope[p] = k THEN Records(seen[p], k) ELSE Knows(seen[p], k)

\* A step of one process that leaves the file alone and hides no more than
\* before.
LEMMA GuardFrame ==
  ASSUME TypeOK, NEW k \in Keys, Guarded(k), NEW p \in Procs, Acts(p),
         file' = file,
         scope[p] = k /\ Closing(p) => scope'[p] = k /\ Closing(p)',
         step'[p] \notin {"backupPath", "moveAside"} \cup Resetting,
         Decides(p, k)' => Records(seen'[p], k),
         step'[p] \in Storing =>
           IF scope'[p] = k THEN Records(seen'[p], k) ELSE Knows(seen'[p], k),
         scope'[p] = k => at'[p] # "forgetting"
  PROVE  Guarded(k)'
<1>1. \A q \in Procs : q # p => Closing(q)' = Closing(q) /\ scope'[q] = scope[q]
  BY OthersKeep DEF Closing
<1>2. BeingClosed(k) => BeingClosed(k)'
  BY <1>1 DEF BeingClosed
<1>3. \A reg : Knows(reg, k) => Knows(reg, k)'
  BY <1>2, KnowsKept
<1>4. \A q \in Procs : q # p =>
        /\ Decides(q, k)' = Decides(q, k) /\ seen'[q] = seen[q] /\ at'[q] = at[q]
        /\ scope'[q] = scope[q] /\ step'[q] = step[q]
  BY OthersKeep DEF Decides
<1>5. file' \in Registries /\ Knows(file, k)'
  BY <1>3 DEF Guarded, Knows, Records
<1>6. \A q \in Procs : Copied(q, k)'
  <2> SUFFICES ASSUME NEW q \in Procs PROVE Copied(q, k)'
    OBVIOUS
  <2>1. /\ Decides(q, k)' => Records(seen'[q], k)
        /\ step'[q] \in Storing => IF scope'[q] = k THEN Records(seen'[q], k) ELSE Knows(seen'[q], k)
    BY <1>4 DEF Guarded
  <2> QED
    BY <1>2, <2>1 DEF Copied, Knows, Records
<1>7. \A q \in Procs : /\ step'[q] \notin {"backupPath", "moveAside"} \cup Resetting
                       /\ scope'[q] = k => at'[q] # "forgetting"
  BY <1>4 DEF Guarded
<1> QED
  BY <1>5, <1>6, <1>7 DEF Guarded, Copied

\* The steps in Run between the Store's operations.
LEMMA GuardedInRun ==
  ASSUME Inv, NEW k \in Keys, OverlayOf[k] \in live, Safe(k)', Guarded(k),
         NEW p \in Procs, Acts(p), ~StoreStep(p)
  PROVE  Guarded(k)'
<1>t. TypeOK /\ RegistryTypeOK /\ Asks(p)
  BY DEF Inv, Typed, GuardInv, TypeOK
<1>g. /\ step[p] \notin {"backupPath", "moveAside"} \cup Resetting
      /\ Copied(p, k)
      /\ scope[p] = k => at[p] # "forgetting"
  BY DEF Guarded, Copied
<1>s. \A cs : Lapse(k, cs) => cs \cap Losing = {}
  BY <1>t, LapseMarks DEF Safe
<1>1. ASSUME NEW j \in Keys, Toggle(p, j) PROVE Guarded(k)'
  <2>1. /\ at[p] = "off" /\ at'[p] = "getting" /\ step'[p] \in {"lock", "read"} /\ file' = file
    BY <1>1, <1>t DEF Toggle, Begin, TypeOK, RegistryTypeOK, disk
  <2> QED
    BY <1>t, <2>1, GuardFrame DEF Closing, Decides
<1>2. ASSUME NEW j \in Keys, ToggleStateless(p, j) PROVE Guarded(k)'
  <2>1. /\ at[p] = "off" /\ at'[p] = "open" /\ step'[p] = "idle" /\ file' = file
    BY <1>2, <1>t DEF ToggleStateless, TypeOK, RegistryTypeOK, registryVars, disk
  <2> QED
    BY <1>t, <2>1, GuardFrame DEF Closing, Decides
<1>3. CASE PaneExists(p)
  <2>1. at[p] = "paneGet" /\ at'[p] = "hiding" /\ step'[p] \in {"lock", "read"} /\ file' = file
    BY <1>3, <1>t DEF PaneExists, CallStore, Move, Begin, TypeOK, RegistryTypeOK, disk
  <2> QED
    BY <1>t, <2>1, GuardFrame DEF Closing, Decides
<1>4. CASE PaneMissing(p)
  <2>1. /\ at[p] = "paneGet" /\ at'[p] = "forgetting" /\ step'[p] \in {"lock", "read"}
        /\ file' = file /\ scope' = scope
    BY <1>4, <1>t DEF PaneMissing, CallStore, Move, Begin, TypeOK, RegistryTypeOK, disk
  <2>2. scope[p] # k
    BY <1>4, <1>s DEF PaneMissing, Losing
  <2> QED
    BY <1>t, <2>1, <2>2, GuardFrame DEF Closing, Decides
<1>5. CASE Got(p)
  <2>1. /\ at[p] = "getting" /\ step[p] = "return" /\ step'[p] = "idle"
        /\ file' = file /\ scope' = scope /\ seen' = seen
        /\ at'[p] = IF failed[p] THEN "off"
                    ELSE IF Visible(seen[p], scope[p]) THEN "paneGet" ELSE "open"
    BY <1>5, <1>t DEF Got, Move, Return, TypeOK, RegistryTypeOK, disk, local
  <2>2. Decides(p, k)' => Records(seen'[p], k)
    BY <1>g, <2>1 DEF Decides, Copied
  <2> QED
    BY <1>t, <2>1, <2>2, GuardFrame DEF Closing
<1>6. CASE Forgot(p)
  <2>1. /\ at[p] = "forgetting" /\ step'[p] = "idle" /\ at'[p] \in {"off", "open"}
        /\ file' = file /\ scope' = scope
    BY <1>6, <1>t DEF Forgot, Move, Return, TypeOK, RegistryTypeOK, disk, local
  <2> QED
    BY <1>t, <2>1, GuardFrame DEF Closing, Decides
<1>7. CASE Restored(p)
  <2>1. /\ at[p] = "restoring" /\ step[p] = "return" /\ step'[p] = "idle" /\ at'[p] = "off"
        /\ file' = file /\ scope' = scope
    BY <1>7, <1>t DEF Restored, Move, Return, TypeOK, RegistryTypeOK, disk, local
  <2>2. scope[p] = k => ~Closing(p)
    BY <1>7, <1>s, <2>1 DEF Restored, Losing, Closing
  <2> QED
    BY <1>t, <2>1, <2>2, GuardFrame DEF Decides
<1>8. CASE Hid(p)
  <2>1. /\ at[p] = "hiding" /\ step[p] = "return" /\ step'[p] = "idle"
        /\ file' = file /\ scope' = scope
        /\ at'[p] = IF failed[p] THEN "off" ELSE "close"
    BY <1>8, <1>t DEF Hid, Move, Return, TypeOK, RegistryTypeOK, disk, local
  <2> QED
    BY <1>t, <2>1, GuardFrame DEF Closing, Decides
<1>9. CASE PaneClosed(p)
  <2>1. /\ at[p] = "close" /\ at'[p] = "off" /\ step'[p] = step[p] /\ step[p] = "idle"
        /\ file' = file /\ scope' = scope
    BY <1>9, <1>t DEF PaneClosed, Move, TypeOK, RegistryTypeOK, registryVars, disk
  <2>2. scope[p] # k
    BY <1>9 DEF PaneClosed, Safe
  <2> QED
    BY <1>t, <2>1, <2>2, GuardFrame DEF Decides
<1>10. CASE PaneCloseFails(p)
  <2>1. /\ at[p] = "close" /\ at'[p] = "restoring" /\ step'[p] \in {"lock", "read"}
        /\ file' = file /\ scope' = scope
    BY <1>10, <1>t DEF PaneCloseFails, CallStore, Move, Begin, TypeOK, RegistryTypeOK, disk
  <2> QED
    BY <1>t, <2>1, GuardFrame DEF Closing, Decides
<1>11. CASE PopupOpen(p)
  <2>1. /\ at[p] = "open" /\ at'[p] = "off" /\ step'[p] = step[p] /\ step[p] = "idle"
        /\ file' = file /\ scope' = scope
    BY <1>11, <1>t DEF PopupOpen, Move, TypeOK, RegistryTypeOK, registryVars, disk
  <2> QED
    BY <1>t, <2>1, GuardFrame DEF Closing, Decides
<1>12. CASE Killed(p)
  <2>1. at'[p] = "off" /\ step'[p] = "idle" /\ file' = file /\ scope' = scope
    <3>1. at' = [at EXCEPT ![p] = "off"] /\ UNCHANGED scope
      BY <1>12 DEF Killed
    <3>2. file' = file /\ step'[p] = "idle"
      BY <1>12, <1>t DEF Killed, Crash, registryVars, disk, RegistryTypeOK
    <3> QED
      BY <1>t, <3>1, <3>2 DEF TypeOK
  <2>2. scope[p] = k => ~Closing(p)
    BY <1>12, <1>s DEF Killed, Losing
  <2> QED
    BY <1>t, <2>1, <2>2, GuardFrame DEF Decides
<1> QED
  BY <1>1, <1>2, <1>3, <1>4, <1>5, <1>6, <1>7, <1>8, <1>9, <1>10, <1>11, <1>12 DEF Acts, Work

\* An operation for another scope keeps the entry of k, and what those of its
\* own make of it.
LEMMA ApplyKeeps ==
  ASSUME NEW j \in Keys, NEW k \in Keys, NEW reg \in Registries, k \in DOMAIN reg,
         NEW r, NEW new, new = Apply(r, reg)
  PROVE  /\ r = [op |-> "get", key |-> j] => new = reg
         /\ r = [op |-> "delete", key |-> j] /\ j # k => k \in DOMAIN new /\ new[k] = reg[k]
         /\ r = [op |-> "setHidden", key |-> j, hidden |-> TRUE] =>
              /\ k \in DOMAIN new
              /\ new[k].pane = reg[k].pane
              /\ new[k].hidden => j = k \/ reg[k].hidden
         /\ r = [op |-> "setHidden", key |-> j, hidden |-> FALSE] =>
              /\ k \in DOMAIN new
              /\ new[k].pane = reg[k].pane
              /\ new[k].hidden => j # k /\ reg[k].hidden
<1>1. PICK ks \in SUBSET Keys : reg \in [ks -> Entry]
  BY DEF Registries
<1>2. reg[k] \in Entry
  BY <1>1
<1>3. r = [op |-> "get", key |-> j] => new = reg
  BY DEF Apply
<1>4. ASSUME r = [op |-> "delete", key |-> j], j # k
      PROVE  k \in DOMAIN new /\ new[k] = reg[k]
  <2>1. new = Without(reg, {j})
    BY <1>4 DEF Apply
  <2> QED
    BY <1>4, <2>1 DEF Without
<1>5. ASSUME r = [op |-> "setHidden", key |-> j, hidden |-> TRUE]
      PROVE  /\ k \in DOMAIN new
             /\ new[k].pane = reg[k].pane
             /\ new[k].hidden => j = k \/ reg[k].hidden
  <2>1. new = IF j \in DOMAIN reg THEN [reg EXCEPT ![j].hidden = TRUE] ELSE reg
    BY <1>5 DEF Apply
  <2> QED
    BY <1>2, <2>1 DEF Entry
<1>6. ASSUME r = [op |-> "setHidden", key |-> j, hidden |-> FALSE]
      PROVE  /\ k \in DOMAIN new
             /\ new[k].pane = reg[k].pane
             /\ new[k].hidden => j # k /\ reg[k].hidden
  <2>1. new = IF j \in DOMAIN reg THEN [reg EXCEPT ![j].hidden = FALSE] ELSE reg
    BY <1>6 DEF Apply
  <2> QED
    BY <1>2, <2>1 DEF Entry
<1> QED
  BY <1>3, <1>4, <1>5, <1>6

\* The rename that makes a write visible.
LEMMA GuardedRename ==
  ASSUME Inv, NEW k \in Keys, OverlayOf[k] \in live, Safe(k)', Guarded(k),
         NEW p \in Procs, StoreStep(p), RenameTemp(p)
  PROVE  Guarded(k)'
<1>t. TypeOK /\ RegistryTypeOK /\ TempWhole /\ Asks(p)
  BY DEF Inv, Typed, GuardInv, TypeOK
<1>g. /\ step[p] \notin {"backupPath", "moveAside"} \cup Resetting
      /\ Copied(p, k)
      /\ scope[p] = k => at[p] # "forgetting"
  BY DEF Guarded, Copied
<1>1. /\ step[p] = "rename" /\ step'[p] = "return"
      /\ file' = Apply(request[p], seen[p]) /\ file' \in Registries
      /\ UNCHANGED <<at, scope, seen, failed>>
  BY <1>g, <1>t DEF RenameTemp, StoreStep, Goto, Asks, TempWhole, RegistryTypeOK
<1>2. /\ ~failed[p] /\ scope[p] \in Keys /\ seen[p] \in Registries
      /\ Records(seen[p], k) /\ (scope[p] # k => Knows(seen[p], k))
      /\ at[p] \in {"forgetting", "hiding", "restoring"}
  BY <1>1, <1>g, <1>t DEF Asks, TypeOK, RegistryTypeOK, Copied, Knows
<1>3. \A q \in Procs : q # p => Closing(q)' = Closing(q) /\ Decides(q, k)' = Decides(q, k)
                                /\ step'[q] = step[q]
  BY <1>1, <1>t, OthersKeep DEF Closing, Decides, Acts, Work
<1>d. ~Decides(p, k)'
  BY <1>1, <1>2 DEF Decides
<1>c. \A q \in Procs : Copied(q, k)
  BY DEF Guarded, Copied
<1>w. /\ \A q \in Procs : step'[q] \notin {"backupPath", "moveAside"} \cup Resetting
      /\ \A q \in Procs : scope'[q] = k => at'[q] # "forgetting"
  BY <1>1, <1>3 DEF Guarded
<1>k. k \in DOMAIN seen[p]
  BY <1>2 DEF Records
<1>a. at[p] = "forgetting" /\ scope[p] # k => k \in DOMAIN file' /\ file'[k] = seen[p][k]
  BY <1>1, <1>2, <1>k, <1>t, ApplyKeeps DEF Asks
<1>b. at[p] = "hiding" => /\ k \in DOMAIN file' /\ file'[k].pane = seen[p][k].pane
                          /\ file'[k].hidden => scope[p] = k \/ seen[p][k].hidden
  BY <1>1, <1>2, <1>k, <1>t, ApplyKeeps DEF Asks
<1>e. at[p] = "restoring" => /\ k \in DOMAIN file' /\ file'[k].pane = seen[p][k].pane
                             /\ file'[k].hidden => scope[p] # k /\ seen[p][k].hidden
  BY <1>1, <1>2, <1>k, <1>t, ApplyKeeps DEF Asks
<1>4. CASE scope[p] = k /\ at[p] = "restoring"
  <2>1. k \in DOMAIN file' /\ file'[k].pane = OverlayOf[k] /\ ~file'[k].hidden
    BY <1>2, <1>4, <1>e DEF Records
  <2>2. \A q \in Procs : ~Carries(q, k)
    <3>1. Lapse(k, TooLate(k))
      BY <1>1, <1>4 DEF StoreStep, RollsBack
    <3>2. "carried" \notin TooLate(k)
      BY <1>t, <3>1, LapseMarks DEF Safe, Losing
    <3> QED
      BY <3>2 DEF TooLate
  <2>3. \A q \in Procs : Copied(q, k)'
    <3> SUFFICES ASSUME NEW q \in Procs PROVE Copied(q, k)'
      OBVIOUS
    <3>1. Decides(q, k)' => Records(seen'[q], k)
      BY <1>1, <1>3, <1>c, <1>d DEF Copied
    <3>2. ASSUME step'[q] \in Storing
          PROVE  Records(seen'[q], k) /\ (scope'[q] # k => ~seen'[q][k].hidden)
      <4>1. q # p /\ step[q] \in Storing /\ seen'[q] = seen[q] /\ scope'[q] = scope[q]
        BY <1>1, <1>3, <3>2
      <4> QED
        BY <1>c, <2>2, <4>1 DEF Copied, Knows, Records, Carries
    <3> QED
      BY <3>1, <3>2 DEF Copied, Knows, Records
  <2>4. Knows(file, k)'
    BY <2>1 DEF Knows, Records
  <2> QED
    BY <1>1, <1>w, <2>3, <2>4 DEF Guarded, Copied
<1>5. CASE ~(scope[p] = k /\ at[p] = "restoring")
  <2>1. scope[p] = k /\ Closing(p) => Closing(p)'
    BY <1>1, <1>2, <1>5 DEF Closing
  <2>2. BeingClosed(k) => BeingClosed(k)'
    BY <1>1, <1>3, <2>1 DEF BeingClosed
  <2>3. k \in DOMAIN file' /\ file'[k].pane = OverlayOf[k] /\ (file'[k].hidden => BeingClosed(k)')
    <3>1. /\ k \in DOMAIN seen[p] /\ seen[p][k].pane = OverlayOf[k]
          /\ scope[p] # k /\ seen[p][k].hidden => BeingClosed(k)'
      BY <1>2, <2>2 DEF Knows, Records
    <3>2. CASE at[p] = "forgetting"
      BY <1>a, <1>g, <3>1, <3>2
    <3>3. CASE at[p] = "restoring"
      BY <1>e, <3>1, <3>3
    <3>4. CASE at[p] = "hiding"
      <4>1. scope[p] = k => BeingClosed(k)'
        BY <1>1, <1>2, <3>4 DEF BeingClosed, Closing
      <4> QED
        BY <1>b, <3>1, <3>4, <4>1
    <3> QED
      BY <1>2, <3>2, <3>3, <3>4
  <2>4. Knows(file, k)'
    BY <2>3 DEF Knows, Records
  <2>5. \A q \in Procs : Copied(q, k)'
    <3> SUFFICES ASSUME NEW q \in Procs PROVE Copied(q, k)'
      OBVIOUS
    <3>1. CASE q = p
      BY <1>1, <1>d, <3>1 DEF Copied
    <3>2. CASE q # p
      <4>1. /\ Decides(q, k)' = Decides(q, k) /\ step'[q] = step[q]
            /\ scope'[q] = scope[q] /\ seen'[q] = seen[q]
        BY <1>1, <1>3, <3>2
      <4> QED
        BY <1>c, <2>2, <4>1 DEF Copied, Knows, Records
    <3> QED
      BY <3>1, <3>2
  <2> QED
    BY <1>1, <1>w, <2>4, <2>5 DEF Guarded, Copied
<1> QED
  BY <1>4, <1>5

\* The other system calls of an operation.
LEMMA GuardedInStore ==
  ASSUME Inv, NEW k \in Keys, OverlayOf[k] \in live, Safe(k)', Guarded(k),
         NEW p \in Procs, StoreStep(p)
  PROVE  Guarded(k)'
<1>t. TypeOK /\ RegistryTypeOK /\ Asks(p) /\ Acts(p)
  BY DEF Inv, Typed, GuardInv, TypeOK, Acts, Work
<1>g. /\ file \in Registries /\ Knows(file, k)
      /\ step[p] \notin {"backupPath", "moveAside"} \cup Resetting
      /\ Copied(p, k)
      /\ scope[p] = k => at[p] # "forgetting"
  BY DEF Guarded, Copied
<1>u. UNCHANGED <<at, scope>>
  BY DEF StoreStep
<1>1. CASE Acquire(p) \/ CreateTemp(p) \/ WriteTemp(p)
  <2>1. /\ file' = file /\ seen' = seen /\ step'[p] \in {"read", "write", "rename"}
        /\ step[p] \in {"lock", "create", "write"} /\ (step[p] = "lock" => step'[p] = "read")
    BY <1>1, <1>g, <1>t DEF Acquire, CreateTemp, WriteTemp, Goto, RegistryTypeOK, disk, local
  <2>2. ~Decides(p, k) /\ ~Decides(p, k)'
    BY <1>t, <1>u, <2>1 DEF Decides, TypeOK
  <2> QED
    BY <1>g, <1>t, <1>u, <2>1, <2>2, GuardFrame DEF Closing, Copied
<1>2. CASE ReadFile(p)
  <2>1. file # Absent
    BY <1>g, RegistryAssumption
  <2>2. /\ file' = file /\ seen'[p] = file /\ step[p] = "read"
        /\ step'[p] = IF Writes(request[p], file) THEN "create" ELSE "return"
    BY <1>2, <1>t, <2>1 DEF ReadFile, AfterRead, Goto, RegistryTypeOK, disk
  <2>3. scope[p] = k /\ at[p] = "restoring" => step'[p] # "return"
    BY <1>g, <1>t, <2>2 DEF Asks, Writes, Knows, Records
  <2> QED
    BY <1>g, <1>t, <1>u, <2>2, <2>3, GuardFrame DEF Closing, Knows
<1>3. CASE ReadCorrupt(p) \/ BackupPath(p) \/ MoveAside(p) \/ MoveAsideFails(p)
  BY <1>3, <1>g, RegistryAssumption DEF ReadCorrupt, BackupPath, MoveAside, MoveAsideFails, Goto
<1>4. CASE RenameTemp(p)
  BY <1>4, GuardedRename
<1>5. CASE "diskFails" \in happens /\ Fail(p)
  <2>1. /\ file' = file /\ failed'[p] = TRUE /\ step'[p] = "return"
        /\ step[p] \in {"lock", "read"} \cup Resetting \cup Storing
    BY <1>5, <1>t DEF Fail, Goto, RegistryTypeOK, disk
  <2>2. Closing(p) => Closing(p)'
    BY <1>u, <2>1 DEF Closing
  <2>3. ~Decides(p, k)'
    BY <1>u, <2>1, <1>t DEF Decides, TypeOK
  <2>4. scope'[p] = scope[p] /\ at'[p] = at[p]
    BY <1>u
  <2> QED
    BY <1>g, <1>t, <2>1, <2>2, <2>3, <2>4, GuardFrame
<1> QED
  BY <1>1, <1>2, <1>3, <1>4, <1>5 DEF StoreStep, SystemCall

-------------------------------------------------------------------------------
(* The theorem of the overlays. *)

LEMMA GuardInit == Init => GuardInv
<1> SUFFICES ASSUME Init PROVE GuardInv
  OBVIOUS
<1>1. Apart /\ \A p \in Procs : Asks(p)
  BY DEF Init, RegistryInit, Apart, Asks
<1>2. ASSUME NEW k \in Keys, OverlayOf[k] \in live PROVE Guarded(k)
  <2>1. PICK j \in Keys : file \in Registries /\ Visible(file, j) /\ OverlayOf[j] = OverlayOf[k]
    BY <1>2 DEF Init
  <2>2. j = k
    BY <2>1, ToggleAssumption
  <2>3. k \in DOMAIN file /\ file[k].pane = OverlayOf[k] /\ ~file[k].hidden
    BY <2>1, <2>2 DEF Init, Visible
  <2>4. Knows(file, k)
    BY <2>3 DEF Knows, Records
  <2> QED
    BY <2>1, <2>4 DEF Init, RegistryInit, Guarded, Decides
<1> QED
  BY <1>1, <1>2 DEF GuardInv

LEMMA GuardNext ==
  ASSUME Inv, [Next]_vars
  PROVE  GuardInv'
<1>t. TypeOK /\ Apart /\ \A p \in Procs : Asks(p)
  BY DEF Inv, Typed, GuardInv
<1>1. ASSUME NEW k \in Keys, Safe(k)' PROVE Guarded(k)'
  <2>1. OverlayOf[k] \in live /\ Guarded(k)
    BY <1>1, <1>t, OnlyLapses DEF Inv, GuardInv, Safe
  <2>2. ASSUME NEW p \in Procs, Acts(p) PROVE Guarded(k)'
    BY <1>1, <2>1, <2>2, GuardedInRun, GuardedInStore
  <2>3. CASE (\E w \in Panes : CloseOverlay(w)) \/ UNCHANGED vars
    <3>1. UNCHANGED <<file, step, seen, failed, at, scope>>
      BY <2>3 DEF CloseOverlay, vars, registryVars, disk, local
    <3> QED
      BY <2>1, <3>1 DEF Guarded, Knows, Records, Decides, BeingClosed, Closing
  <2> QED
    BY <2>2, <2>3 DEF Next, Acts
<1> QED
  BY <1>1, <1>t, ApartNext, AsksNext DEF GuardInv, Safe

LEMMA ToggleInvariant == Spec => []Inv
<1>1. Init => Inv
  BY ToggleTypeInit, GuardInit DEF Inv, Typed
<1>2. Inv /\ [Next]_vars => Inv'
  BY GuardNext, ToggleTypeNext DEF Inv, Typed
<1> QED
  BY <1>1, <1>2, PTL DEF Spec

\* An overlay that is there keeps a visible entry, or a process that closes it, without
\* the lock and whatever overlaps, fails or is killed, for any number of toggles and
\* scopes: the four lapses of Losing are the only ways to lose one.
THEOREM OverlaysAreTracked == Spec => []OverlayTracked
<1>1. Inv => OverlayTracked
  <2> SUFFICES ASSUME Inv, NEW k \in Keys, OverlayOf[k] \in live, lapses[k] \cap Losing = {}
               PROVE  (file \in Registries /\ Visible(file, k)) \/ BeingClosed(k)
    BY DEF OverlayTracked
  <2>1. file \in Registries /\ Knows(file, k)
    BY DEF Inv, GuardInv, Guarded
  <2> QED
    BY <2>1 DEF Knows, Records, Visible
<1> QED
  BY <1>1, ToggleInvariant, PTL

-------------------------------------------------------------------------------
(* The popup that opens beside a close. *)

BesideAll == Inv /\ BesideInv

\* A process that has hidden its entry keeps it hidden until it has closed the overlay
\* or its rollback is renamed; where it stops in between is a lapse.
LEMMA ClosingKept ==
  ASSUME Inv, NEW k \in Keys, OverlayOf[k] \in live, Guarded(k), OverlayOf[k] \in live',
         lapses'[k] = {}, NEW p \in Procs, Acts(p), scope[p] = k, Closing(p)
  PROVE  (scope'[p] = k /\ Closing(p)') \/ (RollsBack(p) /\ StoreStep(p))
<1>t. TypeOK /\ RegistryTypeOK /\ Asks(p)
  BY DEF Inv, Typed, GuardInv, TypeOK
<1>s. \A cs : Lapse(k, cs) => cs = {}
  BY <1>t, LapseMarks
<1>1. at[p] \in {"hiding", "close", "restoring"}
  BY DEF Closing
<1>2. CASE \E j \in Keys : Toggle(p, j) \/ ToggleStateless(p, j)
  BY <1>1, <1>2 DEF Toggle, ToggleStateless
<1>3. CASE Got(p) \/ PaneExists(p) \/ PaneMissing(p) \/ Forgot(p) \/ PopupOpen(p)
  BY <1>1, <1>3 DEF Got, PaneExists, PaneMissing, Forgot, PopupOpen, CallStore, Move
<1>4. CASE Hid(p)
  BY <1>t, <1>4 DEF Hid, Move, Closing, TypeOK
<1>5. CASE PaneClosed(p)
  BY <1>5 DEF PaneClosed
<1>6. CASE PaneCloseFails(p)
  <2>1. at'[p] = "restoring" /\ scope' = scope /\ step'[p] \in {"lock", "read"}
    BY <1>6, <1>t DEF PaneCloseFails, CallStore, Move, Begin, TypeOK, RegistryTypeOK
  <2> QED
    BY <2>1 DEF Closing
<1>7. CASE Restored(p)
  <2>1. failed[p]
    BY <1>7 DEF Restored, Move, Return, Closing
  <2> QED
    BY <1>7, <1>s, <2>1 DEF Restored
<1>8. CASE Killed(p)
  BY <1>8, <1>s DEF Killed
<1>9. CASE StoreStep(p)
  <2>1. UNCHANGED <<at, scope>> /\ step[p] \notin {"idle", "return"}
    BY <1>9 DEF StoreStep, SystemCall, Acquire, ReadFile, ReadCorrupt, BackupPath, MoveAside,
       MoveAsideFails, CreateTemp, WriteTemp, RenameTemp, Fail, Goto
  <2>2. at[p] = "restoring"
    BY <1>t, <2>1 DEF Closing, TypeOK
  <2>3. ASSUME step'[p] = "return", ~failed'[p] PROVE step[p] = "rename"
    <3>1. step[p] \notin {"backupPath", "moveAside"} \cup Resetting /\ file \in Registries
          /\ Knows(file, k)
      BY DEF Guarded
    <3>2. CASE ReadFile(p)
      <4>1. step'[p] = AfterRead(p, file)
        BY <1>t, <3>1, <3>2, RegistryAssumption DEF ReadFile, Goto, RegistryTypeOK
      <4>2. Writes(request[p], file)
        BY <1>t, <2>1, <2>2, <3>1 DEF Asks, Writes, Knows, Records
      <4> QED
        BY <2>3, <4>1, <4>2 DEF AfterRead
    <3>3. CASE ~ReadFile(p)
      BY <1>9, <1>t, <2>3, <3>1, <3>3 DEF StoreStep, SystemCall, Acquire, ReadCorrupt, BackupPath,
         MoveAside, MoveAsideFails, CreateTemp, WriteTemp, RenameTemp, Fail, Goto, RegistryTypeOK
    <3> QED
      BY <3>2, <3>3
  <2> QED
    BY <1>9, <2>1, <2>2, <2>3 DEF Closing, RollsBack
<1> QED
  BY <1>2, <1>3, <1>4, <1>5, <1>6, <1>7, <1>8, <1>9 DEF Acts, Work

\* A process that will open a popup has looked at the entry, before this step or in it,
\* and it was hidden.
LEMMA OpensHidden ==
  ASSUME BesideAll, NEW k \in Keys, OverlayOf[k] \in live, lapses'[k] = {}, lapses[k] = {},
         NEW p \in Procs, Acts(p), Opens(p, k)'
  PROVE  BeingClosed(k)
<1>t. TypeOK /\ RegistryTypeOK /\ Asks(p) /\ Guarded(k) /\ OpensBeside(k)
  BY DEF BesideAll, Inv, Typed, GuardInv, BesideInv, TypeOK
<1>s. \A cs : Lapse(k, cs) => cs = {}
  BY <1>t, LapseMarks
<1>o. Opens(p, k) => BeingClosed(k)
  BY <1>t DEF OpensBeside
<1>1. CASE \E j \in Keys : Toggle(p, j)
  BY <1>t, <1>1 DEF Toggle, Begin, Opens, TypeOK, RegistryTypeOK
<1>2. ASSUME NEW j \in Keys, ToggleStateless(p, j) PROVE FALSE
  <2>1. j = k
    BY <1>2, <1>t DEF ToggleStateless, Opens, TypeOK
  <2> QED
    BY <1>2, <1>s, <2>1 DEF ToggleStateless
<1>3. CASE Got(p)
  BY <1>t, <1>o, <1>3 DEF Got, Move, Return, Opens, TypeOK, RegistryTypeOK
<1>4. CASE Forgot(p)
  <2>1. at[p] = "forgetting" /\ scope'[p] = scope[p]
    BY <1>4 DEF Forgot, Move
  <2> QED
    BY <1>t, <2>1 DEF Guarded, Opens
<1>5. CASE PaneExists(p) \/ PaneMissing(p) \/ Hid(p) \/ PaneClosed(p) \/ PaneCloseFails(p)
           \/ Restored(p) \/ PopupOpen(p) \/ Killed(p)
  BY <1>t, <1>5 DEF PaneExists, PaneMissing, Hid, PaneClosed, PaneCloseFails, Restored,
     PopupOpen, Killed, CallStore, Move, Opens, TypeOK
<1>6. CASE StoreStep(p)
  <2>1. UNCHANGED <<at, scope>> /\ step[p] \notin {"idle", "return"} /\ at[p] # "open"
    BY <1>t, <1>6 DEF StoreStep, SystemCall, Acquire, ReadFile, ReadCorrupt, BackupPath,
       MoveAside, MoveAsideFails, CreateTemp, WriteTemp, RenameTemp, Fail, Goto, TypeOK
  <2>2. /\ scope[p] = k /\ at[p] = "getting"
        /\ step'[p] = "return" /\ ~failed'[p] /\ ~Visible(seen'[p], k)
    BY <2>1 DEF Opens, Visible
  <2>3. step[p] \notin {"backupPath", "moveAside"} \cup Resetting \cup Storing
    BY <1>t, <2>2 DEF Guarded, Asks
  <2>4. ReadFile(p)
    BY <1>t, <1>6, <2>2, <2>3 DEF StoreStep, SystemCall, Acquire, ReadCorrupt, BackupPath,
       MoveAside, MoveAsideFails, CreateTemp, WriteTemp, RenameTemp, Fail, Goto, RegistryTypeOK
  <2>5. seen'[p] = file /\ Knows(file, k)
    BY <1>t, <2>4, RegistryAssumption DEF ReadFile, Guarded, RegistryTypeOK
  <2> QED
    BY <2>2, <2>5 DEF Visible, Knows, Records
<1> QED
  BY <1>1, <1>2, <1>3, <1>4, <1>5, <1>6 DEF Acts, Work

LEMMA BesideNext ==
  ASSUME BesideAll, [Next]_vars
  PROVE  BesideInv'
<1>t. TypeOK
  BY DEF BesideAll, Inv, Typed
<1> SUFFICES ASSUME NEW k \in Keys, OverlayOf[k] \in live', lapses'[k] = {},
                    NEW p \in Procs, Opens(p, k)'
             PROVE  BeingClosed(k)'
  BY DEF BesideInv, OpensBeside
<1>1. OverlayOf[k] \in live /\ lapses[k] = {} /\ Guarded(k) /\ OpensBeside(k)
  BY <1>t, OnlyLapses DEF BesideAll, Inv, GuardInv, BesideInv
<1>p. at'[p] \in {"getting", "open"}
  BY DEF Opens
<1>2. ASSUME NEW q \in Procs, Acts(q) PROVE BeingClosed(k)'
  <2>1. Opens(p, k) \/ (p = q /\ BeingClosed(k))
    <3>1. CASE p = q
      BY <1>1, <1>2, <3>1, OpensHidden
    <3>2. CASE p # q
      BY <1>2, <1>t, <3>2, OthersKeep DEF Opens, Visible
    <3> QED
      BY <3>1, <3>2
  <2>2. PICK r \in Procs : scope[r] = k /\ Closing(r)
    BY <1>1, <2>1 DEF OpensBeside, BeingClosed
  <2>3. CASE r # q
    BY <1>2, <1>t, <2>2, <2>3, OthersKeep DEF BeingClosed, Closing
  <2>4. CASE r = q
    <3>1. (scope'[q] = k /\ Closing(q)') \/ (RollsBack(q) /\ StoreStep(q))
      BY <1>1, <1>2, <2>2, <2>4, ClosingKept DEF BesideAll
    <3>2. ASSUME RollsBack(q), StoreStep(q) PROVE FALSE
      <4>1. Lapse(k, TooLate(k))
        BY <2>2, <2>4, <3>2 DEF StoreStep
      <4>2. TooLate(k) = {}
        BY <1>1, <1>t, <4>1, LapseMarks
      <4>3. ~Opens(p, k)
        BY <4>2 DEF TooLate
      <4>4. at[q] = "restoring" /\ at' = at
        BY <3>2 DEF RollsBack, StoreStep
      <4> QED
        BY <1>p, <2>1, <4>3, <4>4
    <3> QED
      BY <3>1, <3>2 DEF BeingClosed
  <2> QED
    BY <2>3, <2>4
<1>3. ASSUME (\E w \in Panes : CloseOverlay(w)) \/ UNCHANGED vars
      PROVE  BeingClosed(k)'
  <2>1. UNCHANGED <<step, seen, failed, at, scope>>
    BY <1>3 DEF CloseOverlay, vars, registryVars, local
  <2> QED
    BY <1>1, <2>1 DEF Opens, OpensBeside, BeingClosed, Closing, Visible
<1> QED
  BY <1>2, <1>3 DEF Next, Acts

LEMMA BesideInvariant == Spec => []BesideAll
<1>1. Init => BesideInv
  BY DEF Init, BesideInv, OpensBeside, Opens
<1>2. BesideInv /\ Inv /\ [Next]_vars => BesideInv'
  BY BesideNext DEF BesideAll
<1> QED
  BY <1>1, <1>2, ToggleInvariant, PTL DEF Spec, BesideAll

\* A popup covers an overlay only while another press of its key is closing that
\* overlay, or after one of the named lapses about it, whatever overlaps, fails or is
\* killed.
THEOREM CoveredOnlyWhileClosing == Spec => OverOnlyBeingClosed
<1>1. BesideAll /\ [Next]_vars =>
        [\A p \in Procs : Opened(p) =>
           LET k == scope[p] IN OverlayOf[k] \notin live \/ BeingClosed(k) \/ lapses[k] # {}]_vars
  <2> SUFFICES ASSUME BesideAll, NEW p \in Procs, Opened(p), OverlayOf[scope[p]] \in live,
                      lapses[scope[p]] = {}
               PROVE  BeingClosed(scope[p])
    OBVIOUS
  <2>1. scope[p] \in Keys
    BY DEF BesideAll, Inv, Typed, TypeOK
  <2>2. Opens(p, scope[p])
    BY DEF Opened, Opens
  <2> QED
    BY <2>1, <2>2 DEF BesideAll, BesideInv, OpensBeside
<1> QED
  BY <1>1, BesideInvariant, PTL DEF Spec, OverOnlyBeingClosed

-------------------------------------------------------------------------------
(* The end of a toggle. *)

LEMMA StoreAdvances ==
  ASSUME TypeOK, NEW p \in Procs, StoreStep(p)
  PROVE  at'[p] = at[p] /\ CallsLeft(step'[p]) < CallsLeft(step[p])
<1>t. RegistryTypeOK
  BY DEF TypeOK
<1>1. at'[p] = at[p]
  BY DEF StoreStep
<1>2. <<step[p], step'[p]>> \in
        {<<"read", "create">>, <<"read", "return">>, <<"resetRename", "create">>,
         <<"resetRename", "return">>, <<"rename", "return">>, <<"read", "backupPath">>,
         <<"backupPath", "moveAside">>, <<"moveAside", "resetCreate">>, <<"moveAside", "return">>,
         <<"resetCreate", "resetWrite">>, <<"create", "write">>, <<"resetWrite", "resetRename">>,
         <<"write", "rename">>, <<"lock", "read">>, <<"lock", "return">>,
         <<"resetCreate", "return">>, <<"resetWrite", "return">>, <<"create", "return">>,
         <<"write", "return">>}
  <2>1. CASE ReadFile(p) \/ RenameTemp(p)
    BY <2>1, <1>t DEF ReadFile, RenameTemp, Goto, AfterRead, RegistryTypeOK
  <2>2. CASE Fail(p)
    BY <2>2, <1>t DEF Fail, Goto, RegistryTypeOK
  <2>3. CASE Acquire(p) \/ ReadCorrupt(p) \/ BackupPath(p) \/ MoveAside(p) \/ MoveAsideFails(p)
    BY <2>3, <1>t DEF Acquire, ReadCorrupt, BackupPath, MoveAside, MoveAsideFails, Goto,
       RegistryTypeOK
  <2>4. CASE CreateTemp(p) \/ WriteTemp(p)
    BY <2>4, <1>t DEF CreateTemp, WriteTemp, Goto, RegistryTypeOK
  <2> QED
    BY <2>1, <2>2, <2>3, <2>4 DEF StoreStep, SystemCall
<1> QED
  BY <1>1, <1>2 DEF CallsLeft

LEMMA LeftBounds ==
  /\ \A x \in Places : PlacesLeft(x) \in 0..6
  /\ \A s \in Steps : CallsLeft(s) \in 0..11
BY DEF PlacesLeft, CallsLeft

\* A process that moves on in Run has fewer places left.
LEMMA RunAdvances ==
  ASSUME TypeOK, NEW p \in Procs, Acts(p), ~StoreStep(p), at[p] # "off"
  PROVE  PlacesLeft(at'[p]) < PlacesLeft(at[p])
<1>1. <<at[p], at'[p]>> \in
        ({"getting"} \X {"off", "paneGet", "open"}) \cup ({"paneGet"} \X {"hiding", "forgetting"})
          \cup ({"forgetting"} \X {"off", "open"}) \cup ({"hiding"} \X {"off", "close"})
          \cup ({"close"} \X {"off", "restoring"}) \cup ({"restoring", "open"} \X {"off"})
          \cup ((Places \ {"off"}) \X {"off"})
  <2> USE DEF CallStore, Move, TypeOK
  <2>1. CASE (\E k \in Keys : Toggle(p, k) \/ ToggleStateless(p, k))
    BY <2>1 DEF Toggle, ToggleStateless
  <2>2. CASE PaneExists(p) \/ PaneMissing(p) \/ PaneCloseFails(p)
    BY <2>2 DEF PaneExists, PaneMissing, PaneCloseFails
  <2>3. CASE Got(p) \/ Forgot(p) \/ Hid(p) \/ Restored(p)
    BY <2>3 DEF Got, Forgot, Hid, Restored
  <2>4. CASE PaneClosed(p) \/ PopupOpen(p) \/ Killed(p)
    BY <2>4 DEF PaneClosed, PopupOpen, Killed
  <2> QED
    BY <2>1, <2>2, <2>3, <2>4 DEF Acts, Work
<1> QED
  BY <1>1 DEF PlacesLeft

\* Every toggle ends, whatever fails: a step of its own, or its death, brings it
\* nearer its end, and a step of another process leaves it where it is.
THEOREM TogglesAdvance == Spec => ToggleAdvances
<1>1. TypeOK /\ TypeOK' /\ [Next]_vars =>
        [\A p \in Procs :
           at[p] # "off" => Left(p)' < Left(p) \/ UNCHANGED <<at[p], step[p]>>]_vars
  <2> SUFFICES ASSUME TypeOK, TypeOK', Next, NEW p \in Procs, at[p] # "off"
               PROVE  Left(p)' < Left(p) \/ UNCHANGED <<at[p], step[p]>>
    OBVIOUS
  <2>b. /\ PlacesLeft(at[p]) \in 0..6 /\ PlacesLeft(at'[p]) \in 0..6
        /\ CallsLeft(step[p]) \in 0..11 /\ CallsLeft(step'[p]) \in 0..11
    BY LeftBounds DEF TypeOK, RegistryTypeOK
  <2>l. /\ Left(p) = 12 * PlacesLeft(at[p]) + CallsLeft(step[p])
        /\ Left(p)' = 12 * PlacesLeft(at'[p]) + CallsLeft(step'[p])
    BY DEF Left, PlacesLeft, CallsLeft
  <2>1. CASE StoreStep(p)
    <3>1. at'[p] = at[p] /\ CallsLeft(step'[p]) < CallsLeft(step[p])
      BY <2>1, StoreAdvances
    <3> QED
      BY <2>b, <2>l, <3>1
  <2>2. CASE Acts(p) /\ ~StoreStep(p)
    <3>1. PlacesLeft(at'[p]) < PlacesLeft(at[p])
      BY <2>2, RunAdvances
    <3> QED
      BY <2>b, <2>l, <3>1
  <2>3. ASSUME NEW q \in Procs, q # p, Acts(q) PROVE UNCHANGED <<at[p], step[p]>>
    BY <2>3, OthersKeep
  <2>4. CASE \E w \in Panes : CloseOverlay(w)
    BY <2>4 DEF CloseOverlay, registryVars
  <2> QED
    BY <2>1, <2>2, <2>3, <2>4 DEF Next, Acts
<1> QED
  BY <1>1, ToggleTypeCorrect, PTL DEF Spec, ToggleAdvances

-------------------------------------------------------------------------------
(* The Store of toggles that do not overlap. *)

AloneInv == Typed /\ Apart /\ (Overlapping \/ \A p \in Procs : KnowsFile(p))

LEMMA AloneExcludes ==
  ASSUME AloneInv, ~Overlapping
  PROVE  Known /\ Exclusive
<1>1. Known
  BY DEF AloneInv, Typed, TypeOK, Known, TypeAndTemp
<1>2. ASSUME NEW p \in Procs, NEW q \in Procs, step[p] # "idle", step[q] # "idle" PROVE p = q
  <2>1. at[p] \notin {"off", "open"} /\ at[q] \notin {"off", "open"}
    BY <1>2 DEF AloneInv, Typed, TypeOK
  <2> QED
    BY <2>1 DEF AloneInv, Apart, MayOverlap, Overlapping
<1> QED
  BY <1>1, <1>2 DEF Exclusive, Holding

LEMMA AloneNext ==
  ASSUME AloneInv, [Next]_vars
  PROVE  AloneInv'
<1>1. Typed' /\ Apart'
  BY ToggleTypeNext, ApartNext DEF AloneInv, Typed
<1>2. ~Overlapping => \A p \in Procs : KnowsFile(p)'
  BY AloneExcludes, UsesStore, KnownNext DEF AloneInv, Typed, Known
<1>3. Overlapping => Overlapping'
  BY HappensStays DEF Overlapping
<1> QED
  BY <1>1, <1>2, <1>3 DEF AloneInv

\* What the command does without the lock is right as long as toggles do not
\* overlap: its Store is a map with one-step operations, whatever fails and
\* whoever is killed.
THEOREM AloneIsAtomic == Spec => AtomicAlone
<1>1. Init => AloneInv
  <2>1. Init => Apart
    BY DEF Init, Apart
  <2>2. Init => Known
    BY KnownInit DEF Init
  <2> QED
    BY <2>1, <2>2, ToggleTypeInit DEF AloneInv, Typed, Known
<1>2. AloneInv /\ [Next]_vars => AloneInv'
  BY AloneNext
<1>3. AloneInv /\ [Next]_vars => [Overlapping \/ [Atomic!Next]_(Atomic!vars)]_vars
  <2> SUFFICES ASSUME AloneInv, [Next]_vars, ~Overlapping
               PROVE  [Atomic!Next]_(Atomic!vars)
    OBVIOUS
  <2> QED
    BY AloneExcludes, UsesStore, AtomicStep DEF AloneInv, Typed
<1> QED
  BY <1>1, <1>2, <1>3, PTL DEF Spec, AtomicAlone
===============================================================================
