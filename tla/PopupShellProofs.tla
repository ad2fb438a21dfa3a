--------------------------- MODULE PopupShellProofs ---------------------------
(***************************************************************************)
(* Theorems of PopupShell for every set of popups, sessions and keys.       *)
(***************************************************************************)
EXTENDS PopupShell, TLAPS

USE DEF Positions, Script, Configuring, Creating, Keying

-------------------------------------------------------------------------------
(* Type correctness. *)

\* Moving along the script keeps the popups' type.
LEMMA StepType ==
  ASSUME PopupTypeOK, NEW p \in Popups, NEW from, NEW to \in Positions,
         from # "closed", Step(p, from, to)
  PROVE  PopupTypeOK'
BY DEF PopupTypeOK, Step

\* So does closing popups.
LEMMA CloseType ==
  ASSUME PopupTypeOK, NEW ps, Close(ps)
  PROVE  PopupTypeOK'
BY DEF PopupTypeOK, Close

\* set-option keeps the server's type when its new options have their type.
LEMMA SetOptionType ==
  ASSUME TmuxTypeOK, NEW s \in Sessions, NEW opts \in SessionOptions, SetOption(s, opts)
  PROVE  TmuxTypeOK'
BY DEF TmuxTypeOK, SetOption

LEMMA SetClipboardType ==
  ASSUME TmuxTypeOK, NEW v \in {"external", "other"}, SetClipboard(v)
  PROVE  TmuxTypeOK'
BY DEF TmuxTypeOK, SetClipboard

LEMMA BindKeyType ==
  ASSUME TmuxTypeOK, NEW k, BindKey(k)
  PROVE  TmuxTypeOK'
BY KeysAssumption DEF TmuxTypeOK, BindKey, BindSucceeds

LEMMA EndSessionType ==
  ASSUME TmuxTypeOK, NEW s \in Sessions, EndSession(s)
  PROVE  TmuxTypeOK'
BY DEF TmuxTypeOK, EndSession, SessionOptions, DefaultOptions, NoBindings

\* The values the script gives to a session's options have their type.
LEMMA OptionUpdates ==
  ASSUME TmuxTypeOK, NEW s \in Sessions, NEW k \in CloseKeys
  PROVE  /\ [options[s] EXCEPT !.statusOff = TRUE] \in SessionOptions
         /\ [options[s] EXCEPT !.mouse = TRUE] \in SessionOptions
         /\ [options[s] EXCEPT !.smallest = TRUE] \in SessionOptions
         /\ [options[s] EXCEPT !.smallest = FALSE] \in SessionOptions
         /\ [options[s] EXCEPT !.closeKey = k] \in SessionOptions
<1>1. options[s] \in SessionOptions
  BY DEF TmuxTypeOK
<1> QED
  BY <1>1 DEF SessionOptions

LEMMA TypeInit == Init => TypeOK
BY DEF Init, TmuxInit, TypeOK, TmuxTypeOK, PopupTypeOK, SessionOptions, DefaultOptions, NoBindings

LEMMA TypeScriptStep ==
  ASSUME TypeOK, NEW p \in Popups, ScriptStep(p)
  PROVE  TypeOK'
<1> USE DEF TypeOK
<1>t. pc[p] # "closed" => target[p] \in Sessions /\ key[p] \in CloseKeys
  BY DEF PopupTypeOK
<1>u. UNCHANGED tmuxVars => TmuxTypeOK'
  BY DEF tmuxVars, TmuxTypeOK
<1>1. CASE CheckSession(p)
  BY <1>1, <1>u, StepType DEF CheckSession
<1>2. CASE ReuseSession(p)
  BY <1>2, StepType, SetClipboardType DEF ReuseSession
<1>3. CASE CreateSession(p)
  <2>1. PopupTypeOK'
    BY <1>3, StepType DEF CreateSession
  <2>2. TmuxTypeOK'
    BY <1>3, <1>t DEF CreateSession, Step, NewSession, TmuxTypeOK
  <2> QED
    BY <2>1, <2>2
<1>4. CASE ClipboardNew(p)
  BY <1>4, StepType, SetClipboardType DEF ClipboardNew
<1>5. CASE StatusOff(p)
  <2>1. pc[p] = "statusOff"
    BY <1>5 DEF StatusOff, Step
  <2> QED
    BY <1>5, <1>t, <2>1, StepType, SetOptionType, OptionUpdates DEF StatusOff
<1>6. CASE MouseOn(p)
  <2>1. pc[p] = "mouseOn"
    BY <1>6 DEF MouseOn, Step
  <2> QED
    BY <1>6, <1>t, <2>1, StepType, SetOptionType, OptionUpdates DEF MouseOn
<1>7. CASE WindowSize(p)
  <2>1. pc[p] = "windowSize"
    BY <1>7 DEF WindowSize, Step
  <2> QED
    BY <1>7, <1>t, <2>1, StepType, SetOptionType, OptionUpdates DEF WindowSize
<1>8. CASE SetCloseKey(p)
  <2>1. pc[p] = "setCloseKey"
    BY <1>8 DEF SetCloseKey, Step
  <2> QED
    BY <1>8, <1>t, <2>1, StepType, SetOptionType, OptionUpdates DEF SetCloseKey
<1>9. CASE BindCloseKey(p)
  BY <1>9, StepType, BindKeyType DEF BindCloseKey
<1>10. CASE RejectCloseKey(p)
  <2>1. PopupTypeOK'
    BY <1>10, KeysAssumption, PopupAssumption DEF RejectCloseKey, PopupTypeOK
  <2> QED
    BY <1>10, <1>u, <2>1 DEF RejectCloseKey
<1>11. CASE FallbackOption(p)
  <2>1. pc[p] = "fallbackOption"
    BY <1>11 DEF FallbackOption, Step
  <2> QED
    BY <1>11, <1>t, <2>1, StepType, SetOptionType, OptionUpdates DEF FallbackOption
<1>12. CASE FallbackBind(p)
  BY <1>12, StepType, BindKeyType DEF FallbackBind
<1>13. CASE Attach(p)
  BY <1>13, <1>u, StepType DEF Attach
<1>14. CASE AttachFails(p)
  BY <1>14, <1>u, CloseType DEF AttachFails
<1> QED
  BY <1>1, <1>2, <1>3, <1>4, <1>5, <1>6, <1>7, <1>8, <1>9, <1>10, <1>11, <1>12,
     <1>13, <1>14 DEF ScriptStep

LEMMA TypeNext == TypeOK /\ [Next]_vars => TypeOK'
<1> USE DEF TypeOK
<1> SUFFICES ASSUME TypeOK, [Next]_vars PROVE TypeOK'
  OBVIOUS
<1>u. UNCHANGED tmuxVars => TmuxTypeOK'
  BY DEF tmuxVars, TmuxTypeOK
<1>v. UNCHANGED popupVars => PopupTypeOK'
  BY DEF popupVars, PopupTypeOK
<1>1. ASSUME NEW p \in Popups, NEW s \in Sessions, NEW k \in CloseKeys, Run(p, s, k)
      PROVE  TypeOK'
  <2>1. PopupTypeOK'
    BY <1>1 DEF Run, PopupTypeOK
  <2> QED
    BY <1>1, <1>u, <2>1 DEF Run
<1>2. ASSUME NEW p \in Popups, ScriptStep(p) PROVE TypeOK'
  BY <1>2, TypeScriptStep
<1>3. ASSUME NEW p \in Popups, NEW c \in Codes, PressCloseKey(p, c) PROVE TypeOK'
  BY <1>3, <1>u, CloseType DEF PressCloseKey
<1>4. ASSUME NEW p \in Popups, Teardown(p) PROVE TypeOK'
  BY <1>4, <1>u, CloseType DEF Teardown
<1>5. ASSUME NEW s \in Sessions, ShellExit(s) PROVE TypeOK'
  BY <1>5, CloseType, EndSessionType DEF ShellExit
<1>6. CASE DriftClipboard
  BY <1>6, <1>v, SetClipboardType DEF DriftClipboard
<1>7. ASSUME NEW s \in Sessions, DriftWindowSize(s) PROVE TypeOK'
  <2>1. [options[s] EXCEPT !.smallest = FALSE] \in SessionOptions
    BY DEF TmuxTypeOK, SessionOptions
  <2> QED
    BY <1>7, <1>v, <2>1, SetOptionType DEF DriftWindowSize
<1>8. CASE UNCHANGED vars
  BY <1>8, <1>u, <1>v DEF vars
<1> QED
  BY <1>1, <1>2, <1>3, <1>4, <1>5, <1>6, <1>7, <1>8 DEF Next

\* Every variable keeps its type; a popup whose script runs knows its session
\* and a close key that passed the configuration's check.
THEOREM TypeCorrect == Spec => []TypeOK
BY TypeInit, TypeNext, PTL DEF Spec

-------------------------------------------------------------------------------
(* The close key always works. *)

Unrecorded == Creating \cup {"windowSize", "setCloseKey"}

\* A step that touches neither the session's key nor the table, and takes away
\* no script that was going to set or bind the key, keeps the session tracked.
LEMMA KeyTrackedFrame ==
  ASSUME NEW s \in Sessions, KeyTracked(s),
         options'[s].closeKey = options[s].closeKey, rootTable' = rootTable,
         \A q \in Popups :
           /\ target[q] = s /\ pc[q] \in Unrecorded => target'[q] = s /\ pc'[q] \in Unrecorded
           /\ WillBind(q, s, options[s].closeKey) =>
                WillBind(q, s, options[s].closeKey)'
  PROVE  KeyTracked(s)'
<1>1. CASE Closable(s)
  BY <1>1 DEF KeyTracked, Closable
<1>2. CASE options[s].closeKey = NoKey /\ BeingConfigured(s, Unrecorded)
  BY <1>2 DEF KeyTracked, BeingConfigured, Unrecorded
<1>3. CASE \E q \in Popups : WillBind(q, s, options[s].closeKey)
  BY <1>3 DEF KeyTracked, WillBind
<1> QED
  BY <1>1, <1>2, <1>3 DEF KeyTracked, Unrecorded

\* A step of script p that leaves the key and the table alone keeps every
\* session tracked, if p does not leave the region where it still has to set or
\* bind the key.
LEMMA KeyTrackedStep ==
  ASSUME TypeOK, NEW p \in Popups, NEW s \in Sessions, KeyTracked(s), NEW from, NEW to,
         Step(p, from, to),
         from \in Unrecorded => to \in Unrecorded,
         from \notin {"bindKey", "fallbackOption", "fallbackBind"},
         options'[s].closeKey = options[s].closeKey, rootTable' = rootTable
  PROVE  KeyTracked(s)'
<1>1. \A q \in Popups :
        /\ target[q] = s /\ pc[q] \in Unrecorded => target'[q] = s /\ pc'[q] \in Unrecorded
        /\ WillBind(q, s, options[s].closeKey) => WillBind(q, s, options[s].closeKey)'
  BY DEF Step, WillBind, TypeOK, PopupTypeOK
<1> QED
  BY <1>1, KeyTrackedFrame

\* Popups that close outside the configuration of a session leave it tracked.
LEMMA KeyTrackedClose ==
  ASSUME TypeOK, NEW s \in Sessions, KeyTracked(s), NEW ps, Close(ps),
         \A p \in Popups : p \in ps => pc[p] \notin Configuring,
         options'[s].closeKey = options[s].closeKey, rootTable' = rootTable
  PROVE  KeyTracked(s)'
<1>1. \A q \in Popups :
        /\ target[q] = s /\ pc[q] \in Unrecorded => target'[q] = s /\ pc'[q] \in Unrecorded
        /\ WillBind(q, s, options[s].closeKey) => WillBind(q, s, options[s].closeKey)'
  BY DEF Close, WillBind, TypeOK, PopupTypeOK, Unrecorded
<1> QED
  BY <1>1, KeyTrackedFrame

\* Recording script p's key for session s, and the position to bind it from.
LEMMA KeyTrackedRecord ==
  ASSUME TypeOK, NEW p \in Popups, NEW s \in Sessions, KeyTracked(s), NEW from, NEW to,
         from \in {"setCloseKey", "fallbackOption"}, to \in {"bindKey", "fallbackBind"},
         Step(p, from, to),
         SetOption(target[p], [options[target[p]] EXCEPT !.closeKey = key[p]]),
         target[p] \in Sessions, s \in sessions
  PROVE  KeyTracked(s)'
<1>1. CASE target[p] = s
  <2>1. options'[s].closeKey = key[p]
    BY <1>1 DEF SetOption, HasSession, TypeOK, TmuxTypeOK, SessionOptions
  <2>2. WillBind(p, s, options[s].closeKey)'
    BY <1>1, <2>1 DEF WillBind, Step, TypeOK, PopupTypeOK
  <2> QED
    BY <2>2 DEF KeyTracked
<1>2. CASE target[p] # s
  <2>1. options'[s] = options[s] /\ rootTable' = rootTable
    BY <1>2 DEF SetOption, TypeOK, TmuxTypeOK
  <2>2. \A q \in Popups :
          /\ target[q] = s /\ pc[q] \in Unrecorded => target'[q] = s /\ pc'[q] \in Unrecorded
          /\ WillBind(q, s, options[s].closeKey) => WillBind(q, s, options[s].closeKey)'
    BY <1>2, <2>1 DEF Step, WillBind, TypeOK, PopupTypeOK
  <2> QED
    BY <2>1, <2>2, KeyTrackedFrame
<1> QED
  BY <1>1, <1>2

\* Binding script p's key.  The table has a slot for each key and no two
\* spellings share one, so no other session's binding is lost.
LEMMA KeyTrackedBind ==
  ASSUME TypeOK, NoAliases, NEW p \in Popups, NEW s \in Sessions, KeyTracked(s),
         NEW from, from \in {"bindKey", "fallbackBind"},
         Step(p, from, "attachSession"), BindKey(key[p]), BindSucceeds(key[p])
  PROVE  KeyTracked(s)'
<1> DEFINE k == key[p]
           K == options[s].closeKey
<1>1. /\ k \in KnownKeys /\ Code[k] \in Codes
      /\ options' = options
      /\ rootTable' = [rootTable EXCEPT ![Code[k]] = k]
      /\ rootTable'[Code[k]] = k
  BY KeysAssumption DEF BindKey, BindSucceeds, TypeOK, TmuxTypeOK
<1>2. CASE Closable(s)
  <2>1. K \in KnownKeys /\ rootTable[Code[K]] = K /\ Code[K] \in Codes
    BY <1>2, KeysAssumption DEF Closable
  <2>2. rootTable'[Code[K]] = K
    <3>1. CASE Code[K] = Code[k]
      BY <1>1, <2>1, <3>1 DEF NoAliases
    <3>2. CASE Code[K] # Code[k]
      BY <1>1, <2>1, <3>2 DEF TypeOK, TmuxTypeOK
    <3> QED
      BY <3>1, <3>2
  <2> QED
    BY <1>1, <2>1, <2>2 DEF KeyTracked, Closable
<1>3. CASE K = NoKey /\ BeingConfigured(s, Unrecorded)
  <2>1. PICK q \in Popups : target[q] = s /\ pc[q] \in Unrecorded
    BY <1>3 DEF BeingConfigured
  <2>2. target'[q] = s /\ pc'[q] \in Unrecorded
    BY <2>1 DEF Step, TypeOK, PopupTypeOK, Unrecorded
  <2> QED
    BY <1>1, <1>3, <2>2 DEF KeyTracked, BeingConfigured, Unrecorded
<1>4. ASSUME NEW q \in Popups, WillBind(q, s, K) PROVE KeyTracked(s)'
  <2>1. CASE q = p
    <3>1. K = k
      BY <1>4, <2>1 DEF WillBind, Step
    <3> QED
      BY <1>1, <3>1 DEF KeyTracked, Closable
  <2>2. CASE q # p
    <3>1. WillBind(q, s, K)'
      BY <1>1, <1>4, <2>2 DEF WillBind, Step, TypeOK, PopupTypeOK
    <3> QED
      BY <1>1, <3>1 DEF KeyTracked
  <2> QED
    BY <2>1, <2>2
<1> QED
  BY <1>2, <1>3, <1>4 DEF KeyTracked, Unrecorded

\* set-option without a session does nothing, so dead sessions stay clean.
LEMMA DeadSessionsNext ==
  ASSUME TypeOK, DeadSessions, [Next]_vars
  PROVE  DeadSessions'
<1>1. CASE UNCHANGED <<sessions, options>>
  BY <1>1 DEF DeadSessions
<1>2. ASSUME NEW s \in Sessions, NEW opts, SetOption(s, opts) PROVE DeadSessions'
  BY <1>2 DEF DeadSessions, SetOption, HasSession, TypeOK, TmuxTypeOK
<1>3. ASSUME NEW s \in Sessions, NewSession(s) PROVE DeadSessions'
  BY <1>3 DEF DeadSessions, NewSession
<1>4. ASSUME NEW s \in Sessions, EndSession(s) PROVE DeadSessions'
  BY <1>4 DEF DeadSessions, EndSession, TypeOK, TmuxTypeOK
<1>5. ASSUME NEW p \in Popups, ScriptStep(p) PROVE DeadSessions'
  <2>1. UNCHANGED tmuxVars => DeadSessions'
    BY <1>1 DEF tmuxVars
  <2>2. target[p] \in Sessions
    BY <1>5 DEF ScriptStep, CheckSession, ReuseSession, CreateSession, ClipboardNew, StatusOff,
       MouseOn, WindowSize, SetCloseKey, BindCloseKey, RejectCloseKey, FallbackOption,
       FallbackBind, Attach, AttachFails, Step, TypeOK, PopupTypeOK
  <2>3. CASE CheckSession(p) \/ RejectCloseKey(p) \/ Attach(p) \/ AttachFails(p)
    BY <2>1, <2>3 DEF CheckSession, RejectCloseKey, Attach, AttachFails
  <2>4. CASE ReuseSession(p) \/ ClipboardNew(p) \/ BindCloseKey(p) \/ FallbackBind(p)
    BY <1>1, <2>4 DEF ReuseSession, ClipboardNew, BindCloseKey, FallbackBind, SetClipboard, BindKey
  <2>5. CASE StatusOff(p) \/ MouseOn(p) \/ WindowSize(p) \/ SetCloseKey(p) \/ FallbackOption(p)
    BY <1>2, <2>2, <2>5 DEF StatusOff, MouseOn, WindowSize, SetCloseKey, FallbackOption
  <2>6. CASE CreateSession(p)
    BY <1>3, <2>2, <2>6 DEF CreateSession
  <2> QED
    BY <1>5, <2>3, <2>4, <2>5, <2>6 DEF ScriptStep
<1>6. CASE \E s \in Sessions : ShellExit(s) \/ DriftWindowSize(s)
  BY <1>2, <1>4, <1>6 DEF ShellExit, DriftWindowSize
<1>7. CASE \/ \E p \in Popups, s \in Sessions, k \in CloseKeys : Run(p, s, k)
           \/ \E p \in Popups, c \in Codes : PressCloseKey(p, c)
           \/ \E p \in Popups : Teardown(p)
           \/ DriftClipboard
           \/ UNCHANGED vars
  BY <1>1, <1>7 DEF Run, PressCloseKey, Teardown, DriftClipboard, SetClipboard, vars, tmuxVars
<1> QED
  BY <1>5, <1>6, <1>7 DEF Next

\* A client attaches to a live session, and the end of a session takes its
\* clients with it.
LEMMA AttachedAliveNext ==
  ASSUME TypeOK, AttachedAlive, [Next]_vars
  PROVE  AttachedAlive'
<1>1. ASSUME NEW p \in Popups, NEW from, NEW to, to # "attached", Step(p, from, to),
             sessions \subseteq sessions'
      PROVE  AttachedAlive'
  BY <1>1 DEF AttachedAlive, Step, TypeOK, PopupTypeOK
<1>2. ASSUME NEW ps, Close(ps), UNCHANGED tmuxVars PROVE AttachedAlive'
  BY <1>2 DEF AttachedAlive, Close, tmuxVars
<1>3. ASSUME NEW p \in Popups, ScriptStep(p) PROVE AttachedAlive'
  <2>1. CASE Attach(p)
    BY <2>1 DEF Attach, HasSession, AttachedAlive, Step, tmuxVars, TypeOK, PopupTypeOK
  <2>2. CASE AttachFails(p)
    BY <1>2, <2>2 DEF AttachFails
  <2>3. CASE RejectCloseKey(p)
    BY <2>3 DEF RejectCloseKey, AttachedAlive, tmuxVars, TypeOK, PopupTypeOK
  <2>4. CASE CheckSession(p)
    BY <1>1, <2>4 DEF CheckSession, tmuxVars
  <2>5. CASE ReuseSession(p) \/ CreateSession(p) \/ ClipboardNew(p)
    BY <1>1, <2>5 DEF ReuseSession, CreateSession, ClipboardNew, SetClipboard, NewSession
  <2>6. CASE StatusOff(p) \/ MouseOn(p) \/ WindowSize(p) \/ SetCloseKey(p) \/ FallbackOption(p)
    BY <1>1, <2>6 DEF StatusOff, MouseOn, WindowSize, SetCloseKey, FallbackOption, SetOption
  <2>7. CASE BindCloseKey(p) \/ FallbackBind(p)
    BY <1>1, <2>7 DEF BindCloseKey, FallbackBind, BindKey
  <2> QED
    BY <1>3, <2>1, <2>2, <2>3, <2>4, <2>5, <2>6, <2>7 DEF ScriptStep
<1>4. ASSUME NEW s \in Sessions, ShellExit(s) PROVE AttachedAlive'
  BY <1>4 DEF ShellExit, EndSession, Close, Attached, AttachedAlive
<1>5. ASSUME NEW p \in Popups, NEW s \in Sessions, NEW k \in CloseKeys, Run(p, s, k)
      PROVE  AttachedAlive'
  BY <1>5 DEF Run, AttachedAlive, tmuxVars, TypeOK, PopupTypeOK
<1>6. CASE (\E p \in Popups : Teardown(p)) \/ (\E p \in Popups, c \in Codes : PressCloseKey(p, c))
  BY <1>2, <1>6 DEF Teardown, PressCloseKey
<1>7. CASE DriftClipboard \/ (\E s \in Sessions : DriftWindowSize(s)) \/ UNCHANGED vars
  BY <1>7 DEF DriftClipboard, DriftWindowSize, SetClipboard, SetOption, popupVars, vars,
     tmuxVars, AttachedAlive
<1> QED
  BY <1>3, <1>4, <1>5, <1>6, <1>7 DEF Next

\* The fallback binds the default key.
LEMMA FallbackKnownNext ==
  ASSUME TypeOK, FallbackKnown, [Next]_vars
  PROVE  FallbackKnown'
<1>1. ASSUME NEW p \in Popups, NEW from, NEW to, Step(p, from, to),
             to \in {"fallbackOption", "fallbackBind"} => from = "fallbackOption"
      PROVE  FallbackKnown'
  BY <1>1 DEF FallbackKnown, Step, TypeOK, PopupTypeOK
<1>2. ASSUME NEW ps, Close(ps) PROVE FallbackKnown'
  BY <1>2 DEF FallbackKnown, Close
<1>3. ASSUME NEW p \in Popups, ScriptStep(p) PROVE FallbackKnown'
  <2>1. CASE RejectCloseKey(p)
    BY <2>1, PopupAssumption DEF RejectCloseKey, FallbackKnown, TypeOK, PopupTypeOK
  <2>2. CASE AttachFails(p)
    BY <1>2, <2>2 DEF AttachFails
  <2> QED
    BY <1>1, <1>3, <2>1, <2>2 DEF ScriptStep, CheckSession, ReuseSession, CreateSession,
       ClipboardNew, StatusOff, MouseOn, WindowSize, SetCloseKey, BindCloseKey,
       FallbackOption, FallbackBind, Attach
<1>4. ASSUME NEW p \in Popups, NEW s \in Sessions, NEW k \in CloseKeys, Run(p, s, k)
      PROVE  FallbackKnown'
  BY <1>4 DEF Run, FallbackKnown, TypeOK, PopupTypeOK
<1>5. CASE DriftClipboard \/ (\E s \in Sessions : DriftWindowSize(s)) \/ UNCHANGED vars
  BY <1>5 DEF DriftClipboard, DriftWindowSize, popupVars, vars, FallbackKnown
<1> QED
  BY <1>2, <1>3, <1>4, <1>5 DEF Next, ShellExit, Teardown, PressCloseKey

LEMMA KeysTrackedScriptStep ==
  ASSUME TypeOK, ClosableInv, NoAliases, NEW p \in Popups, ScriptStep(p),
         NEW s \in sessions'
  PROVE  KeyTracked(s)'
<1>t. /\ s \in Sessions
      /\ pc[p] # "closed" => target[p] \in Sessions /\ key[p] \in CloseKeys
  BY TypeScriptStep DEF TypeOK, TmuxTypeOK, PopupTypeOK
<1>s. s \in sessions => KeyTracked(s) /\ ServerUp
  BY DEF ClosableInv, KeysTracked, ServerUp
<1>1. CASE CreateSession(p)
  <2>1. CASE s \in sessions
    <3>1. options' = options /\ rootTable' = rootTable
      BY <1>1 DEF CreateSession, NewSession
    <3> QED
      BY <1>1, <1>s, <1>t, <2>1, <3>1, KeyTrackedStep DEF CreateSession, Unrecorded
  <2>2. CASE s \notin sessions
    <3>1. s = target[p] /\ options' = options
      BY <1>1, <2>2 DEF CreateSession, NewSession
    <3>2. options'[s].closeKey = NoKey
      BY <1>t, <2>2, <3>1 DEF ClosableInv, DeadSessions, DefaultOptions
    <3>3. target'[p] = s /\ pc'[p] = "setClipboardNew"
      BY <1>1, <3>1 DEF CreateSession, Step, TypeOK, PopupTypeOK
    <3> QED
      BY <3>2, <3>3 DEF KeyTracked, BeingConfigured
  <2> QED
    BY <2>1, <2>2
<1>a. CASE ~CreateSession(p)
  <2>s. sessions' = sessions
    BY <1>a DEF ScriptStep, CheckSession, ReuseSession, ClipboardNew, StatusOff, MouseOn,
       WindowSize, SetCloseKey, BindCloseKey, RejectCloseKey, FallbackOption, FallbackBind,
       Attach, AttachFails, SetClipboard, SetOption, BindKey, tmuxVars
  <2>k. KeyTracked(s) /\ ServerUp
    BY <1>s, <2>s
  <2>1. CASE CheckSession(p)
    <3>1. options' = options /\ rootTable' = rootTable
      BY <2>1 DEF CheckSession, tmuxVars
    <3> QED
      BY <1>t, <2>1, <2>k, <3>1, KeyTrackedStep DEF CheckSession, Unrecorded
  <2>2. CASE ReuseSession(p)
    <3>1. options' = options /\ rootTable' = rootTable
      BY <2>2 DEF ReuseSession, SetClipboard
    <3> QED
      BY <1>t, <2>2, <2>k, <3>1, KeyTrackedStep DEF ReuseSession, Unrecorded
  <2>3. CASE ClipboardNew(p)
    <3>1. options' = options /\ rootTable' = rootTable
      BY <2>3 DEF ClipboardNew, SetClipboard
    <3> QED
      BY <1>t, <2>3, <2>k, <3>1, KeyTrackedStep DEF ClipboardNew, Unrecorded
  <2>4. CASE StatusOff(p)
    <3>1. options'[s].closeKey = options[s].closeKey /\ rootTable' = rootTable
      BY <1>t, <2>4 DEF StatusOff, Step, SetOption, TypeOK, TmuxTypeOK, SessionOptions
    <3> QED
      BY <1>t, <2>4, <2>k, <3>1, KeyTrackedStep DEF StatusOff, Unrecorded
  <2>5. CASE MouseOn(p)
    <3>1. options'[s].closeKey = options[s].closeKey /\ rootTable' = rootTable
      BY <1>t, <2>5 DEF MouseOn, Step, SetOption, TypeOK, TmuxTypeOK, SessionOptions
    <3> QED
      BY <1>t, <2>5, <2>k, <3>1, KeyTrackedStep DEF MouseOn, Unrecorded
  <2>6. CASE WindowSize(p)
    <3>1. options'[s].closeKey = options[s].closeKey /\ rootTable' = rootTable
      BY <1>t, <2>6 DEF WindowSize, Step, SetOption, TypeOK, TmuxTypeOK, SessionOptions
    <3> QED
      BY <1>t, <2>6, <2>k, <3>1, KeyTrackedStep DEF WindowSize, Unrecorded
  <2>7. CASE SetCloseKey(p)
    <3>1. pc[p] = "setCloseKey"
      BY <2>7 DEF SetCloseKey, Step
    <3> QED
      BY <1>t, <2>7, <2>k, <2>s, <3>1, KeyTrackedRecord DEF SetCloseKey
  <2>8. CASE BindCloseKey(p)
    BY <1>t, <2>8, <2>k, KeyTrackedBind DEF BindCloseKey
  <2>9. CASE RejectCloseKey(p)
    <3>1. options' = options /\ rootTable' = rootTable
      BY <2>9 DEF RejectCloseKey, tmuxVars
    <3>2. \A q \in Popups :
            /\ target[q] = s /\ pc[q] \in Unrecorded => target'[q] = s /\ pc'[q] \in Unrecorded
            /\ WillBind(q, s, options[s].closeKey) => WillBind(q, s, options[s].closeKey)'
      BY <2>9, <3>1 DEF RejectCloseKey, WillBind, TypeOK, PopupTypeOK, Unrecorded
    <3> QED
      BY <1>t, <2>k, <3>1, <3>2, KeyTrackedFrame
  <2>10. CASE FallbackOption(p)
    <3>1. pc[p] = "fallbackOption"
      BY <2>10 DEF FallbackOption, Step
    <3> QED
      BY <1>t, <2>10, <2>k, <2>s, <3>1, KeyTrackedRecord DEF FallbackOption
  <2>11. CASE FallbackBind(p)
    <3>1. BindSucceeds(key[p])
      BY <2>11, <2>k DEF FallbackBind, Step, BindSucceeds, ClosableInv, FallbackKnown
    <3> QED
      BY <1>t, <2>11, <2>k, <3>1, KeyTrackedBind DEF FallbackBind
  <2>12. CASE Attach(p)
    <3>1. options' = options /\ rootTable' = rootTable
      BY <2>12 DEF Attach, tmuxVars
    <3> QED
      BY <1>t, <2>12, <2>k, <3>1, KeyTrackedStep DEF Attach, Unrecorded
  <2>13. CASE AttachFails(p)
    <3>1. options' = options /\ rootTable' = rootTable
      BY <2>13 DEF AttachFails, tmuxVars
    <3> QED
      BY <1>t, <2>13, <2>k, <3>1, KeyTrackedClose DEF AttachFails
  <2> QED
    BY <1>a, <2>1, <2>2, <2>3, <2>4, <2>5, <2>6, <2>7, <2>8, <2>9, <2>10, <2>11, <2>12,
       <2>13 DEF ScriptStep
<1> QED
  BY <1>1, <1>a

LEMMA KeysTrackedNext ==
  ASSUME TypeOK, ClosableInv, UninterruptedSetup, NoAliases, [Next]_vars
  PROVE  KeysTracked'
<1> SUFFICES ASSUME NEW s \in sessions' PROVE KeyTracked(s)'
  BY DEF KeysTracked
<1>s. s \in Sessions
  BY TypeNext DEF TypeOK, TmuxTypeOK
<1>k. s \in sessions => KeyTracked(s)
  BY DEF ClosableInv, KeysTracked
<1>2. ASSUME NEW ps, Close(ps), \A p \in Popups : p \in ps => pc[p] \notin Configuring,
             UNCHANGED tmuxVars
      PROVE  KeyTracked(s)'
  BY <1>2, <1>k, <1>s, KeyTrackedClose DEF tmuxVars
<1>3. ASSUME NEW p \in Popups, NEW t \in Sessions, NEW k \in CloseKeys, Run(p, t, k)
      PROVE  KeyTracked(s)'
  <2>1. \A q \in Popups :
          /\ target[q] = s /\ pc[q] \in Unrecorded => target'[q] = s /\ pc'[q] \in Unrecorded
          /\ WillBind(q, s, options[s].closeKey) => WillBind(q, s, options[s].closeKey)'
    BY <1>3 DEF Run, WillBind, tmuxVars, TypeOK, PopupTypeOK, Unrecorded
  <2> QED
    BY <1>3, <1>k, <1>s, <2>1, KeyTrackedFrame DEF Run, tmuxVars
<1>4. ASSUME NEW p \in Popups, Teardown(p) PROVE KeyTracked(s)'
  <2>1. pc[p] \notin Configuring
    BY <1>4 DEF Teardown, UninterruptedSetup
  <2> QED
    BY <1>2, <1>4, <2>1 DEF Teardown
<1>5. ASSUME NEW p \in Popups, NEW c \in Codes, PressCloseKey(p, c) PROVE KeyTracked(s)'
  BY <1>2, <1>5 DEF PressCloseKey
<1>6. ASSUME NEW t \in Sessions, ShellExit(t) PROVE KeyTracked(s)'
  <2>1. s \in sessions /\ s # t /\ sessions # {t}
    BY <1>6 DEF ShellExit, EndSession
  <2>2. options'[s] = options[s] /\ rootTable' = rootTable
    BY <1>6, <1>s, <2>1 DEF ShellExit, EndSession, TypeOK, TmuxTypeOK
  <2>3. \A p \in Popups : p \in {q \in Popups : Attached(q, t)} => pc[p] \notin Configuring
    BY DEF Attached
  <2> QED
    BY <1>6, <1>k, <1>s, <2>1, <2>2, <2>3, KeyTrackedClose DEF ShellExit
<1>7. ASSUME popupVars' = popupVars, sessions' = sessions, rootTable' = rootTable,
             options'[s].closeKey = options[s].closeKey
      PROVE  KeyTracked(s)'
  BY <1>7, <1>k, <1>s, KeyTrackedFrame DEF popupVars, WillBind
<1>8. CASE DriftClipboard
  BY <1>7, <1>8 DEF DriftClipboard, SetClipboard
<1>9. ASSUME NEW t \in Sessions, DriftWindowSize(t) PROVE KeyTracked(s)'
  <2>1. options'[s].closeKey = options[s].closeKey
    BY <1>9, <1>s DEF DriftWindowSize, SetOption, TypeOK, TmuxTypeOK, SessionOptions
  <2> QED
    BY <1>7, <1>9, <2>1 DEF DriftWindowSize, SetOption
<1>10. CASE UNCHANGED vars
  BY <1>7, <1>10 DEF vars, tmuxVars
<1>11. (\E p \in Popups : ScriptStep(p)) => KeyTracked(s)'
  BY KeysTrackedScriptStep
<1> QED
  BY <1>3, <1>4, <1>5, <1>6, <1>8, <1>9, <1>10, <1>11 DEF Next

LEMMA ClosableInvInit == Init => ClosableInv
BY DEF Init, TmuxInit, ClosableInv, DeadSessions, AttachedAlive, FallbackKnown, KeysTracked

LEMMA ClosableInvNext ==
  ASSUME UninterruptedSetup, NoAliases
  PROVE  TypeOK /\ ClosableInv /\ [Next]_vars => ClosableInv'
BY DeadSessionsNext, AttachedAliveNext, FallbackKnownNext, KeysTrackedNext DEF ClosableInv

LEMMA ClosableInvSuffices == ClosableInv => AlwaysClosable
<1> SUFFICES ASSUME ClosableInv, NEW p \in Popups, NEW s \in Sessions, Attached(p, s)
             PROVE  Closable(s) \/ BeingConfigured(s, Configuring)
  BY DEF AlwaysClosable
<1>1. KeyTracked(s)
  BY DEF ClosableInv, AttachedAlive, KeysTracked, Attached
<1> QED
  BY <1>1 DEF KeyTracked, BeingConfigured, WillBind

\* An open popup closes on the recorded key of its session, or a script is
\* still about to give the session its key: for any number of popups, sessions
\* and keys, when no popup is torn down while its script configures a session
\* and no two configured spellings name one key.
THEOREM CloseKeyWorks ==
  ASSUME UninterruptedSetup, NoAliases
  PROVE  Spec => []AlwaysClosable
<1>1. TypeOK /\ ClosableInv /\ [Next]_vars => TypeOK' /\ ClosableInv'
  BY TypeNext, ClosableInvNext
<1> QED
  BY <1>1, TypeInit, ClosableInvInit, ClosableInvSuffices, PTL DEF Spec

\* The commands of the one script there is.
LEMMA RecordsScriptStep ==
  ASSUME TypeOK, FallbackKnown, RecordsThenBinds, OnePopup, NEW p \in Popups, ScriptStep(p)
  PROVE  RecordsThenBinds'
<1>p. \A q \in Popups : q = p
  BY DEF OnePopup
<1>t. target[p] \in Sessions /\ key[p] \in CloseKeys
  BY DEF ScriptStep, CheckSession, ReuseSession, CreateSession, ClipboardNew, StatusOff,
     MouseOn, WindowSize, SetCloseKey, BindCloseKey, RejectCloseKey, FallbackOption,
     FallbackBind, Attach, AttachFails, Step, TypeOK, PopupTypeOK
<1>1. ASSUME NEW from, NEW to, Step(p, from, to),
             to \notin {"bindKey", "fallbackBind", "attachSession", "attached"}
      PROVE  RecordsThenBinds'
  BY <1>1, <1>p DEF RecordsThenBinds, Step, TypeOK, PopupTypeOK
<1>2. CASE \/ CheckSession(p) \/ ReuseSession(p) \/ CreateSession(p) \/ ClipboardNew(p)
           \/ StatusOff(p) \/ MouseOn(p) \/ WindowSize(p)
  BY <1>1, <1>2 DEF CheckSession, ReuseSession, CreateSession, ClipboardNew, StatusOff, MouseOn,
     WindowSize
<1>3. CASE SetCloseKey(p) \/ FallbackOption(p)
  BY <1>3, <1>p, <1>t DEF SetCloseKey, FallbackOption, SetOption, HasSession, Step,
     RecordsThenBinds, TypeOK, PopupTypeOK, TmuxTypeOK, SessionOptions
<1>4. CASE BindCloseKey(p) \/ FallbackBind(p)
  <2>1. pc[p] \in {"bindKey", "fallbackBind"} /\ Step(p, pc[p], "attachSession") /\ BindKey(key[p])
    BY <1>4 DEF BindCloseKey, FallbackBind, Step
  <2>2. key[p] \in KnownKeys
    BY <1>4 DEF BindCloseKey, FallbackBind, BindSucceeds, FallbackKnown, Step
  <2>3. ASSUME target[p] \in sessions PROVE Closable(target[p])'
    <3>1. options'[target[p]].closeKey = key[p]
      BY <2>1, <2>3 DEF RecordsThenBinds, BindKey
    <3>2. BindSucceeds(key[p])
      BY <2>2, <2>3 DEF BindSucceeds, ServerUp
    <3>3. rootTable'[Code[key[p]]] = key[p]
      BY <2>1, <2>2, <3>2, KeysAssumption DEF BindKey, TypeOK, TmuxTypeOK
    <3>4. target'[p] = target[p]
      BY <2>1 DEF Step
    <3> QED
      BY <2>2, <3>1, <3>3, <3>4 DEF Closable
  <2>4. target' = target /\ sessions' = sessions /\ pc'[p] = "attachSession"
    BY <1>t, <2>1 DEF Step, BindKey, TypeOK, PopupTypeOK
  <2> QED
    BY <1>p, <2>3, <2>4 DEF RecordsThenBinds, Closable
<1>5. CASE RejectCloseKey(p)
  BY <1>5, <1>p DEF RejectCloseKey, RecordsThenBinds, TypeOK, PopupTypeOK
<1>6. CASE Attach(p)
  BY <1>6, <1>p DEF Attach, Step, RecordsThenBinds, Closable, tmuxVars, TypeOK, PopupTypeOK
<1>7. CASE AttachFails(p)
  BY <1>7, <1>p DEF AttachFails, Close, RecordsThenBinds
<1> QED
  BY <1>2, <1>3, <1>4, <1>5, <1>6, <1>7 DEF ScriptStep

LEMMA RecordsNext ==
  ASSUME TypeOK, FallbackKnown, RecordsThenBinds, OnePopup, [Next]_vars
  PROVE  RecordsThenBinds'
<1>1. ASSUME NEW ps, Close(ps), UNCHANGED tmuxVars PROVE RecordsThenBinds'
  <2> SUFFICES ASSUME NEW q \in Popups, target'[q] \in sessions', pc'[q] # "closed"
               PROVE  /\ pc'[q] = pc[q] /\ target'[q] = target[q] /\ key'[q] = key[q]
                      /\ Closable(target[q]) => Closable(target[q])'
    BY <1>1 DEF RecordsThenBinds, tmuxVars, Closable
  <2> QED
    BY <1>1 DEF Close, tmuxVars, Closable
<1>2. ASSUME NEW p \in Popups, NEW s \in Sessions, NEW k \in CloseKeys, Run(p, s, k)
      PROVE  RecordsThenBinds'
  BY <1>2 DEF Run, RecordsThenBinds, Closable, tmuxVars, TypeOK, PopupTypeOK, OnePopup
<1>3. ASSUME NEW s \in Sessions, ShellExit(s) PROVE RecordsThenBinds'
  <2> SUFFICES ASSUME NEW q \in Popups, target'[q] \in sessions', pc'[q] # "closed"
               PROVE  /\ pc[q] \in {"bindKey", "fallbackBind"} => options'[target[q]].closeKey = key[q]
                      /\ pc[q] \in {"attachSession", "attached"} => Closable(target[q])'
                      /\ pc'[q] = pc[q] /\ target'[q] = target[q] /\ key'[q] = key[q]
    BY DEF RecordsThenBinds, Closable
  <2>1. pc'[q] = pc[q] /\ target'[q] = target[q] /\ key'[q] = key[q]
    BY <1>3 DEF ShellExit, Close
  <2>2. target[q] \in Sessions
    BY <2>1 DEF TypeOK, PopupTypeOK
  <2>3. target[q] \in sessions /\ target[q] # s /\ sessions # {s}
    BY <1>3, <2>1 DEF ShellExit, EndSession
  <2>4. options'[target[q]] = options[target[q]] /\ rootTable' = rootTable
    BY <1>3, <2>2, <2>3 DEF ShellExit, EndSession, TypeOK, TmuxTypeOK
  <2> QED
    BY <2>1, <2>3, <2>4 DEF RecordsThenBinds, Closable
<1>4. CASE DriftClipboard
  BY <1>4 DEF DriftClipboard, SetClipboard, popupVars, RecordsThenBinds, Closable
<1>5. ASSUME NEW s \in Sessions, DriftWindowSize(s) PROVE RecordsThenBinds'
  <2>1. \A r \in Sessions : options'[r].closeKey = options[r].closeKey
    BY <1>5 DEF DriftWindowSize, SetOption, TypeOK, TmuxTypeOK, SessionOptions
  <2>2. UNCHANGED <<pc, target, key, sessions, rootTable>>
    BY <1>5 DEF DriftWindowSize, SetOption, popupVars
  <2>3. sessions \subseteq Sessions
    BY DEF TypeOK, TmuxTypeOK
  <2> QED
    BY <2>1, <2>2, <2>3 DEF RecordsThenBinds, Closable
<1>6. CASE UNCHANGED vars
  BY <1>6 DEF vars, popupVars, tmuxVars, RecordsThenBinds, Closable
<1> QED
  BY <1>1, <1>2, <1>3, <1>4, <1>5, <1>6, RecordsScriptStep DEF Next, PressCloseKey, Teardown

\* Wherever Herdr hangs scripts up, and whatever they leave, the next connection
\* makes its popup one that can be closed, while popups do not overlap: an
\* interrupted script harms only clients that are attached beside it.
THEOREM NextConnectionRepairs ==
  ASSUME OnePopup
  PROVE  Spec => []AlwaysClosable
<1>1. Init => TypeOK /\ AttachedAlive /\ FallbackKnown /\ RecordsThenBinds
  BY TypeInit DEF Init, AttachedAlive, FallbackKnown, RecordsThenBinds
<1>2. /\ TypeOK /\ AttachedAlive /\ FallbackKnown /\ RecordsThenBinds /\ [Next]_vars
      => TypeOK' /\ AttachedAlive' /\ FallbackKnown' /\ RecordsThenBinds'
  BY TypeNext, AttachedAliveNext, FallbackKnownNext, RecordsNext
<1>3. AttachedAlive /\ RecordsThenBinds => AlwaysClosable
  BY DEF AttachedAlive, RecordsThenBinds, AlwaysClosable, Attached
<1> QED
  BY <1>1, <1>2, <1>3, PTL DEF Spec

-------------------------------------------------------------------------------
(* The settings of the create branch are never lost. *)

\* A step that clears no option and takes away no creating script.
LEMMA SettingFrame ==
  ASSUME NEW s, SettingTracked(s),
         options[s].statusOff => options'[s].statusOff,
         options[s].mouse => options'[s].mouse,
         \A q \in Popups : target[q] = s /\ pc[q] \in Creating =>
           target'[q] = s /\ pc'[q] = pc[q]
  PROVE  SettingTracked(s)'
BY DEF SettingTracked, BeingConfigured

LEMMA SettingsScriptStep ==
  ASSUME TypeOK, SettingsTracked, NEW p \in Popups, ScriptStep(p), NEW s \in sessions'
  PROVE  SettingTracked(s)'
<1>t. /\ s \in Sessions
      /\ pc[p] # "closed" => target[p] \in Sessions
  BY TypeScriptStep DEF TypeOK, TmuxTypeOK, PopupTypeOK
<1>s. s \in sessions => SettingTracked(s)
  BY DEF SettingsTracked, SettingTracked
<1>1. CASE CreateSession(p)
  <2>1. CASE s \in sessions
    BY <1>1, <1>s, <2>1, SettingFrame DEF CreateSession, NewSession, Step, TypeOK, PopupTypeOK
  <2>2. CASE s \notin sessions
    <3>1. target'[p] = s /\ pc'[p] = "setClipboardNew"
      BY <1>1, <2>2 DEF CreateSession, NewSession, Step, TypeOK, PopupTypeOK
    <3> QED
      BY <3>1 DEF SettingTracked, BeingConfigured
  <2> QED
    BY <2>1, <2>2
<1>2. CASE ClipboardNew(p)
  <2>1. SettingTracked(s) /\ options' = options
    BY <1>2, <1>s DEF ClipboardNew, SetClipboard
  <2>2. \A q \in Popups :
          /\ target'[q] = target[q]
          /\ pc'[q] = IF q = p THEN "statusOff" ELSE pc[q]
    BY <1>2 DEF ClipboardNew, Step, TypeOK, PopupTypeOK
  <2>3. pc[p] = "setClipboardNew"
    BY <1>2 DEF ClipboardNew, Step
  <2> QED
    BY <2>1, <2>2, <2>3 DEF SettingTracked, BeingConfigured
<1>3. CASE StatusOff(p)
  <2>1. SettingTracked(s) /\ pc[p] = "statusOff"
    BY <1>3, <1>s DEF StatusOff, SetOption, Step
  <2>2. \A q \in Popups :
          /\ target'[q] = target[q]
          /\ pc'[q] = IF q = p THEN "mouseOn" ELSE pc[q]
    BY <1>3 DEF StatusOff, Step, TypeOK, PopupTypeOK
  <2>3. /\ options'[s].mouse = options[s].mouse
        /\ options[s].statusOff \/ target[p] = s => options'[s].statusOff
    <3>1. s \in sessions /\ options[s] \in SessionOptions
      BY <1>3, <1>t DEF StatusOff, SetOption, TypeOK, TmuxTypeOK
    <3>2. options' = IF HasSession(target[p])
                     THEN [options EXCEPT ![target[p]] = [options[target[p]] EXCEPT !.statusOff = TRUE]]
                     ELSE options
      BY <1>3 DEF StatusOff, SetOption
    <3>3. CASE target[p] = s
      <4>1. options'[s] = [options[s] EXCEPT !.statusOff = TRUE]
        BY <1>t, <3>1, <3>2, <3>3 DEF HasSession, TypeOK, TmuxTypeOK
      <4> QED
        BY <3>1, <4>1 DEF SessionOptions
    <3>4. CASE target[p] # s
      BY <1>t, <3>2, <3>4 DEF TypeOK, TmuxTypeOK
    <3> QED
      BY <3>3, <3>4
  <2> QED
    BY <2>1, <2>2, <2>3 DEF SettingTracked, BeingConfigured
<1>4. CASE MouseOn(p)
  <2>1. SettingTracked(s) /\ pc[p] = "mouseOn"
    BY <1>4, <1>s DEF MouseOn, SetOption, Step
  <2>2. \A q \in Popups :
          /\ target'[q] = target[q]
          /\ pc'[q] = IF q = p THEN "windowSize" ELSE pc[q]
    BY <1>4 DEF MouseOn, Step, TypeOK, PopupTypeOK
  <2>3. /\ options'[s].statusOff = options[s].statusOff
        /\ options[s].mouse \/ target[p] = s => options'[s].mouse
    <3>1. s \in sessions /\ options[s] \in SessionOptions
      BY <1>4, <1>t DEF MouseOn, SetOption, TypeOK, TmuxTypeOK
    <3>2. options' = IF HasSession(target[p])
                     THEN [options EXCEPT ![target[p]] = [options[target[p]] EXCEPT !.mouse = TRUE]]
                     ELSE options
      BY <1>4 DEF MouseOn, SetOption
    <3>3. CASE target[p] = s
      <4>1. options'[s] = [options[s] EXCEPT !.mouse = TRUE]
        BY <1>t, <3>1, <3>2, <3>3 DEF HasSession, TypeOK, TmuxTypeOK
      <4> QED
        BY <3>1, <4>1 DEF SessionOptions
    <3>4. CASE target[p] # s
      BY <1>t, <3>2, <3>4 DEF TypeOK, TmuxTypeOK
    <3> QED
      BY <3>3, <3>4
  <2> QED
    BY <2>1, <2>2, <2>3 DEF SettingTracked, BeingConfigured
<1>5. CASE \/ WindowSize(p) \/ SetCloseKey(p) \/ FallbackOption(p)
  <2>1. s \in sessions /\ pc[p] \notin Creating
    BY <1>5 DEF WindowSize, SetCloseKey, FallbackOption, SetOption, Step
  <2>2. /\ options[s].statusOff => options'[s].statusOff
        /\ options[s].mouse => options'[s].mouse
    BY <1>t, <1>5 DEF WindowSize, SetCloseKey, FallbackOption, SetOption, TypeOK, TmuxTypeOK,
       SessionOptions
  <2>3. \A q \in Popups : target[q] = s /\ pc[q] \in Creating => target'[q] = s /\ pc'[q] = pc[q]
    BY <1>5, <2>1 DEF WindowSize, SetCloseKey, FallbackOption, Step, TypeOK, PopupTypeOK
  <2> QED
    BY <1>s, <2>1, <2>2, <2>3, SettingFrame
<1>6. CASE CheckSession(p) \/ ReuseSession(p) \/ BindCloseKey(p) \/ RejectCloseKey(p)
           \/ FallbackBind(p) \/ Attach(p) \/ AttachFails(p)
  <2>1. s \in sessions /\ options' = options /\ pc[p] \notin Creating
    BY <1>6 DEF CheckSession, ReuseSession, BindCloseKey, RejectCloseKey, FallbackBind, Attach,
       AttachFails, SetClipboard, BindKey, Step, tmuxVars
  <2>2. \A q \in Popups : q # p => target'[q] = target[q] /\ pc'[q] = pc[q]
    BY <1>6 DEF CheckSession, ReuseSession, BindCloseKey, RejectCloseKey, FallbackBind, Attach,
       AttachFails, Close, Step, TypeOK, PopupTypeOK
  <2> QED
    BY <1>s, <2>1, <2>2, SettingFrame
<1> QED
  BY <1>1, <1>2, <1>3, <1>4, <1>5, <1>6 DEF ScriptStep

LEMMA SettingsNext ==
  ASSUME UninterruptedCreation
  PROVE  TypeOK /\ SettingsTracked /\ [Next]_vars => SettingsTracked'
<1> SUFFICES ASSUME TypeOK, SettingsTracked, [Next]_vars, NEW s \in sessions'
             PROVE  SettingTracked(s)'
  BY DEF SettingsTracked, SettingTracked
<1>s. s \in Sessions /\ (s \in sessions => SettingTracked(s))
  BY TypeNext DEF SettingsTracked, SettingTracked, TypeOK, TmuxTypeOK
<1>1. ASSUME NEW p \in Popups, NEW t \in Sessions, NEW k \in CloseKeys, Run(p, t, k)
      PROVE  SettingTracked(s)'
  BY <1>1, <1>s, SettingFrame DEF Run, tmuxVars, TypeOK, PopupTypeOK
<1>2. ASSUME NEW ps, Close(ps), \A p \in Popups : p \in ps => pc[p] \notin Creating,
             s \in sessions, options'[s] = options[s]
      PROVE  SettingTracked(s)'
  BY <1>2, <1>s, SettingFrame DEF Close
<1>3. ASSUME NEW p \in Popups, Teardown(p) PROVE SettingTracked(s)'
  <2>1. \A q \in Popups : q \in {p} => pc[q] \notin Creating
    BY <1>3 DEF Teardown, UninterruptedCreation
  <2> QED
    BY <1>2, <1>3, <2>1 DEF Teardown, tmuxVars
<1>4. ASSUME NEW p \in Popups, NEW c \in Codes, PressCloseKey(p, c) PROVE SettingTracked(s)'
  BY <1>2, <1>4 DEF PressCloseKey, tmuxVars
<1>5. ASSUME NEW t \in Sessions, ShellExit(t) PROVE SettingTracked(s)'
  <2>1. s \in sessions /\ options'[s] = options[s]
    BY <1>5, <1>s DEF ShellExit, EndSession, TypeOK, TmuxTypeOK
  <2>2. \A p \in Popups : p \in {q \in Popups : Attached(q, t)} => pc[p] \notin Creating
    BY DEF Attached
  <2> QED
    BY <1>2, <1>5, <2>1, <2>2 DEF ShellExit
<1>6. ASSUME NEW t \in Sessions, DriftWindowSize(t) PROVE SettingTracked(s)'
  BY <1>6, <1>s, SettingFrame DEF DriftWindowSize, SetOption, popupVars, TypeOK, TmuxTypeOK,
     SessionOptions
<1>7. CASE DriftClipboard \/ UNCHANGED vars
  BY <1>7, <1>s, SettingFrame DEF DriftClipboard, SetClipboard, popupVars, vars, tmuxVars
<1> QED
  BY <1>1, <1>3, <1>4, <1>5, <1>6, <1>7, SettingsScriptStep DEF Next

\* A live session has its status line off and its mouse on, or the script that
\* creates it has not finished: for any number of popups and sessions, when no
\* popup is torn down while its script is in the create branch.
THEOREM SettingsNeverLost ==
  ASSUME UninterruptedCreation
  PROVE  Spec => []SettingsApplied
<1>1. Init => SettingsTracked
  BY DEF Init, TmuxInit, SettingsTracked
<1>2. SettingsTracked => SettingsApplied
  BY DEF SettingsTracked, SettingTracked, SettingsApplied, BeingConfigured, Creating
<1>3. TypeOK /\ SettingsTracked /\ [Next]_vars => TypeOK' /\ SettingsTracked'
  BY TypeNext, SettingsNext
<1> QED
  BY <1>1, <1>2, <1>3, TypeInit, PTL DEF Spec

-------------------------------------------------------------------------------
(* popup-shell implements SavedShell. *)

ViewOf == [p \in Popups |-> IF pc[p] = "attached" THEN target[p] ELSE NoSession]

LEMMA SavedStep == TypeOK /\ [Next]_vars => [Saved!Next]_Saved!vars
<1> SUFFICES ASSUME TypeOK, [Next]_vars PROVE [Saved!Next]_Saved!vars
  OBVIOUS
<1> USE DEF ViewOf
<1>u. sessions' = sessions /\ ViewOf' = ViewOf => UNCHANGED Saved!vars
  BY DEF Saved!vars
<1>1. ASSUME NEW p \in Popups, NEW from, NEW to, from # "attached", to # "attached",
             Step(p, from, to)
      PROVE  ViewOf' = ViewOf
  <2>1. \A q \in Popups : /\ (pc'[q] = "attached") <=> (pc[q] = "attached")
                         /\ target'[q] = target[q]
    BY <1>1 DEF Step, TypeOK, PopupTypeOK
  <2> QED
    BY <2>1
<1>2. ASSUME NEW p \in Popups, Close({p}), UNCHANGED tmuxVars PROVE Saved!Next
  <2>1. ViewOf' = [ViewOf EXCEPT ![p] = NoSession]
    BY <1>2 DEF Close
  <2>2. Saved!Close(p)
    BY <1>2, <2>1 DEF Saved!Close, tmuxVars
  <2> QED
    BY <2>2 DEF Saved!Next
<1>3. ASSUME NEW p \in Popups, ScriptStep(p) PROVE [Saved!Next]_Saved!vars
  <2>1. CASE CreateSession(p)
    <3>1. ViewOf' = ViewOf /\ target[p] \in Sessions
      BY <1>1, <2>1 DEF CreateSession, Step, TypeOK, PopupTypeOK
    <3>2. Saved!Start(target[p])
      BY <2>1, <3>1 DEF CreateSession, NewSession, Saved!Start
    <3> QED
      BY <3>1, <3>2 DEF Saved!Next
  <2>2. CASE Attach(p)
    <3>1. PICK s \in Sessions : s = target[p]
      BY <2>2 DEF Attach, Step, TypeOK, PopupTypeOK
    <3>2. /\ ViewOf[p] = NoSession
          /\ ViewOf' = [ViewOf EXCEPT ![p] = s]
      BY <2>2, <3>1 DEF Attach, Step, TypeOK, PopupTypeOK
    <3>3. Saved!Open(p, s)
      BY <2>2, <3>1, <3>2 DEF Attach, HasSession, Saved!Open, tmuxVars
    <3> QED
      BY <3>3 DEF Saved!Next
  <2>3. CASE AttachFails(p)
    BY <1>2, <2>3 DEF AttachFails
  <2>4. CASE RejectCloseKey(p)
    <3>1. ViewOf' = ViewOf
      <4>1. \A q \in Popups : /\ (pc'[q] = "attached") <=> (pc[q] = "attached")
                             /\ target'[q] = target[q]
        BY <2>4 DEF RejectCloseKey, TypeOK, PopupTypeOK
      <4> QED
        BY <4>1
    <3> QED
      BY <1>u, <2>4, <3>1 DEF RejectCloseKey, tmuxVars
  <2>5. CASE CheckSession(p)
    BY <1>1, <1>u, <2>5 DEF CheckSession, tmuxVars
  <2>6. CASE ReuseSession(p) \/ ClipboardNew(p)
    BY <1>1, <1>u, <2>6 DEF ReuseSession, ClipboardNew, SetClipboard
  <2>7. CASE StatusOff(p) \/ MouseOn(p) \/ WindowSize(p) \/ SetCloseKey(p) \/ FallbackOption(p)
    BY <1>1, <1>u, <2>7 DEF StatusOff, MouseOn, WindowSize, SetCloseKey, FallbackOption, SetOption
  <2>8. CASE BindCloseKey(p) \/ FallbackBind(p)
    BY <1>1, <1>u, <2>8 DEF BindCloseKey, FallbackBind, BindKey
  <2> QED
    BY <1>3, <2>1, <2>2, <2>3, <2>4, <2>5, <2>6, <2>7, <2>8 DEF ScriptStep
<1>4. ASSUME NEW s \in Sessions, ShellExit(s) PROVE Saved!Next
  <2>1. ViewOf' = [p \in Popups |-> IF ViewOf[p] = s THEN NoSession ELSE ViewOf[p]]
    BY <1>4, PopupAssumption DEF ShellExit, Close, Attached
  <2>2. Saved!Exit(s)
    BY <1>4, <2>1 DEF ShellExit, EndSession, HasSession, Saved!Exit
  <2> QED
    BY <2>2 DEF Saved!Next
<1>5. ASSUME NEW p \in Popups, NEW s \in Sessions, NEW k \in CloseKeys, Run(p, s, k)
      PROVE  UNCHANGED Saved!vars
  <2>1. ViewOf' = ViewOf
    BY <1>5 DEF Run, TypeOK, PopupTypeOK
  <2> QED
    BY <1>u, <1>5, <2>1 DEF Run, tmuxVars
<1>6. CASE (\E p \in Popups : Teardown(p)) \/ (\E p \in Popups, c \in Codes : PressCloseKey(p, c))
  BY <1>2, <1>6 DEF Teardown, PressCloseKey
<1>7. CASE DriftClipboard \/ (\E s \in Sessions : DriftWindowSize(s)) \/ UNCHANGED vars
  BY <1>u, <1>7 DEF DriftClipboard, DriftWindowSize, SetClipboard, SetOption, popupVars, vars,
     tmuxVars
<1> QED
  BY <1>3, <1>4, <1>5, <1>6, <1>7 DEF Next

\* popup-shell implements the saved shells of SavedShell, for any number of
\* popups and sessions and wherever popups are torn down: a shell ends only by
\* itself, a popup shows only a running shell, closing one ends nothing.
THEOREM PopupShellImplementsSavedShell == Spec => ImplementsSavedShell
<1>1. Init => Saved!Init
  BY DEF Init, TmuxInit, Saved!Init
<1> QED
  BY <1>1, SavedStep, TypeCorrect, PTL DEF Spec, ImplementsSavedShell, Saved!Spec
===============================================================================
