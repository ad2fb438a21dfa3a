----------------------------- MODULE DoctorProofs -----------------------------
(***************************************************************************)
(* Theorems of Doctor for every set of popups, sessions and keys, on those  *)
(* of the attach scripts it watches.                                        *)
(***************************************************************************)
EXTENDS Doctor, PopupShellProofs

USE DEF Options, Lines, Reading, Statuses, Disturbances, Configuring, Creating, Keying

-------------------------------------------------------------------------------
(* Reading. *)

DoctorReads ==
  \/ \E s \in Sessions \cup {NoSession}, k \in CloseKeys : Start(s, k) \/ StartWithoutTmux(s, k)
  \/ ListSessions \/ ListSessionsFails \/ ListClients
  \/ \E l \in Options : ReadOption(l)
  \/ Exit

\* The doctor only reads: its steps leave the server and the popups alone, and
\* each step of the others is one of PopupShell.
LEMMA DoctorOnlyReads ==
  /\ DoctorReads => UNCHANGED vars
  /\ [DoctorNext]_doctorVars => [Next]_vars
  /\ [DoctorNext]_doctorVars => DoctorReads \/ Others \/ UNCHANGED doctorVars
BY DEF DoctorReads, DoctorNext, doctorVars, Start, StartWithoutTmux, ListSessions,
   ListSessionsFails, ListClients, ReadOption, Exit, Others

\* So every theorem of the attach scripts holds beside a doctor.
LEMMA DoctorIsPopupShell == DoctorSpec => Spec
<1>1. DoctorInit => Init
  BY DEF DoctorInit
<1> QED
  BY <1>1, DoctorOnlyReads, PTL DEF DoctorSpec, Spec

\* The steps of a doctor that read the server, and where they lead.
LEMMA ReadOptionStep ==
  ASSUME DoctorTypeOK, NEW l \in Options, ReadOption(l)
  PROVE  /\ at = l /\ at' \in {After[l], "done"}
         /\ \E status \in Statuses \ {"unreported"} :
              /\ report' = Printed(l, status)
              /\ \/ status \in Status(l) /\ meanwhile' = meanwhile
                 \/ status = "unknown" /\ meanwhile' = "unread"
         /\ UNCHANGED <<vars, asked, configured>>
<1>1. Status(l) \subseteq Statuses \ {"unreported"}
  BY DEF Status
<1> QED
  BY <1>1 DEF ReadOption, asking

-------------------------------------------------------------------------------
(* Types. *)

LEMMA DoctorTypeInit == DoctorInit => DoctorTypeOK
BY DEF DoctorInit, DoctorTypeOK, Blank

LEMMA DoctorTypeNext ==
  ASSUME TypeOK, DoctorTypeOK, LinesInOrder, [DoctorNext]_doctorVars
  PROVE  DoctorTypeOK'
<1> USE DEF DoctorTypeOK, asking
<1>1. CASE \E s \in Sessions \cup {NoSession}, k \in CloseKeys : Start(s, k) \/ StartWithoutTmux(s, k)
  BY <1>1 DEF Start, StartWithoutTmux, Blank, LinesInOrder, Past
<1>2. CASE ListSessions
  <2>1. /\ SessionStatus(asked) \in {"present", "unknown", "missing"}
        /\ SessionStatus(asked) = "present" => asked \in Sessions
    BY DEF SessionStatus, HasSession, TypeOK, TmuxTypeOK
  <2> QED
    BY <1>2, <2>1 DEF ListSessions
<1>3. CASE ListSessionsFails
  BY <1>3 DEF ListSessionsFails, Blank
<1>4. CASE ListClients
  BY <1>4 DEF ListClients
<1>5. ASSUME NEW l \in Options, ReadOption(l) PROVE DoctorTypeOK'
  <2>1. PICK status \in Statuses \ {"unreported"} : report' = Printed(l, status)
    BY <1>5, ReadOptionStep
  <2>2. report' \in [Lines -> Statuses] /\ report'["session"] = report["session"]
    <3>1. report["session"] # "unreported"
      BY <1>5 DEF ReadOption, LinesInOrder, Past
    <3> QED
      BY <2>1, <3>1 DEF Printed
  <2>3. at = l /\ at' \in {"done"} \cup Reading /\ meanwhile' \in Disturbances
    BY <1>5 DEF ReadOption, After
  <2>4. at' \in Options \ {"setClipboard"} => report["session"] = "present"
    BY <1>5 DEF ReadOption, LastRead
  <2> QED
    BY <1>5, <2>2, <2>3, <2>4 DEF ReadOption
<1>6. CASE Exit
  BY <1>6 DEF Exit, Blank
<1>7. CASE Others
  BY <1>7 DEF Others, Disturbed
<1>8. CASE UNCHANGED doctorVars
  BY <1>8 DEF doctorVars
<1> QED
  BY <1>1, <1>2, <1>3, <1>4, <1>5, <1>6, <1>7, <1>8, DoctorOnlyReads DEF DoctorReads

-------------------------------------------------------------------------------
(* Every line is reported. *)

LEMMA LinesInit == DoctorInit => LinesInOrder
BY DEF DoctorInit, LinesInOrder, Past, Blank

LEMMA LinesNext ==
  ASSUME DoctorTypeOK, LinesInOrder, [DoctorNext]_doctorVars
  PROVE  LinesInOrder'
<1> USE DEF LinesInOrder, Past
<1>1. CASE \E s \in Sessions \cup {NoSession}, k \in CloseKeys : Start(s, k)
  BY <1>1 DEF Start
<1>2. CASE \E s \in Sessions \cup {NoSession}, k \in CloseKeys : StartWithoutTmux(s, k)
  BY <1>2 DEF StartWithoutTmux, Blank
<1>3. CASE ListSessions
  BY <1>3 DEF ListSessions, SessionStatus, DoctorTypeOK
<1>4. CASE ListSessionsFails
  BY <1>4 DEF ListSessionsFails, Blank
<1>5. CASE ListClients
  BY <1>5 DEF ListClients
<1>6. ASSUME NEW l \in Options, ReadOption(l) PROVE LinesInOrder'
  <2>1. PICK status \in Statuses \ {"unreported"} : report' = Printed(l, status)
    BY <1>6, ReadOptionStep
  <2>2. at = l /\ at' = IF LastRead(l) THEN "done" ELSE After[l]
    BY <1>6 DEF ReadOption
  <2>3. CASE LastRead(l)
    BY <2>1, <2>2, <2>3 DEF Printed
  <2>4. CASE ~LastRead(l)
    BY <2>1, <2>2, <2>4 DEF Printed, After
  <2> QED
    BY <2>3, <2>4
<1>7. CASE Exit
  BY <1>7 DEF Exit, Blank
<1>8. CASE Others \/ UNCHANGED doctorVars
  BY <1>8 DEF Others, doctorVars
<1> QED
  BY <1>1, <1>2, <1>3, <1>4, <1>5, <1>6, <1>7, <1>8, DoctorOnlyReads DEF DoctorReads

DoctorLines == TypeOK /\ DoctorTypeOK /\ LinesInOrder

LEMMA DoctorLinesInv == DoctorSpec => []DoctorLines
<1>1. DoctorInit => DoctorLines
  BY DoctorTypeInit, LinesInit, TypeInit DEF DoctorInit, DoctorLines
<1>2. DoctorLines /\ [DoctorNext]_doctorVars => DoctorLines'
  BY DoctorTypeNext, LinesNext, TypeNext, DoctorOnlyReads DEF DoctorLines
<1> QED
  BY <1>1, <1>2, PTL DEF DoctorSpec

\* The doctor's variables keep their types, beside any number of popups.
THEOREM DoctorTypeCorrect == DoctorSpec => []DoctorTypeOK
BY DoctorLinesInv, PTL DEF DoctorLines

\* Every line of the report is printed, whichever command fails and whatever
\* the scripts do to the server meanwhile.
THEOREM EveryLineIsReported == DoctorSpec => []EveryLineReported
<1>1. DoctorLines => EveryLineReported
  BY DEF DoctorLines, LinesInOrder, Past, EveryLineReported
<1> QED
  BY <1>1, DoctorLinesInv, PTL

-------------------------------------------------------------------------------
(* A quiet report is exact. *)

\* While nothing has come between, the others have left the server alone.
LEMMA QuietOthers ==
  ASSUME Others, at \in Reading, meanwhile' = "nothing"
  PROVE  meanwhile = "nothing" /\ UNCHANGED tmuxVars
BY DEF Others, Disturbed

\* One line, as it is printed, is exact.
LEMMA StatusExact ==
  ASSUME DoctorTypeOK, NEW l \in Options, at = l, NEW status \in Status(l)
  PROVE  (status \in {"present", "ok"}) <=> Holds(l)
<1>1. configured # NoKey
  BY KeysAssumption DEF DoctorTypeOK
<1> QED
  BY <1>1 DEF Status, Holds, HasSession

LEMMA QuietNext ==
  ASSUME TypeOK, DoctorTypeOK, LinesInOrder, QuietSoFar, [DoctorNext]_doctorVars
  PROVE  /\ QuietSoFar'
         /\ Reported /\ meanwhile' = "nothing" =>
              \A l \in Lines : (report'[l] \in {"present", "ok"}) <=> Holds(l)
<1> USE DEF Reported
<1>u. \A l \in Lines : UNCHANGED <<sessions, options, clipboard, asked, configured>> => (Holds(l)' <=> Holds(l))
  BY DEF Holds, ServerUp
<1>1. CASE \E s \in Sessions \cup {NoSession}, k \in CloseKeys : Start(s, k)
  BY <1>1 DEF Start, QuietSoFar, LinesInOrder, Past
<1>2. CASE \E s \in Sessions \cup {NoSession}, k \in CloseKeys : StartWithoutTmux(s, k)
  BY <1>2 DEF StartWithoutTmux, QuietSoFar
<1>3. CASE ListSessions
  <2>1. /\ UNCHANGED <<sessions, options, clipboard, asked, configured>>
        /\ at' = "clients"
        /\ report' = [report EXCEPT !["server"] = "present", !["session"] = SessionStatus(asked)]
    BY <1>3 DEF ListSessions, vars, tmuxVars, asking
  <2>2. \A l \in Options : report[l] = "unreported"
    BY <1>3 DEF ListSessions, LinesInOrder, Past
  <2>3. ServerUp /\ ((SessionStatus(asked) \in {"present", "ok"}) <=> asked \in sessions)
    BY <1>3 DEF ListSessions, SessionStatus, HasSession
  <2>4. \A l \in Lines : report'[l] # "unreported" => ((report'[l] \in {"present", "ok"}) <=> Holds(l))
    BY <2>1, <2>2, <2>3 DEF Holds, DoctorTypeOK
  <2> QED
    BY <1>u, <2>1, <2>4 DEF QuietSoFar
<1>4. CASE ListSessionsFails
  <2>1. at' = "done"
    BY <1>4 DEF ListSessionsFails
  <2>2. ASSUME meanwhile' = "nothing", NEW l \in Lines
        PROVE  (report'[l] \in {"present", "ok"}) <=> Holds(l)
    <3>1. sessions = {} /\ report'[l] \notin {"present", "ok"}
      BY <1>4, <2>2 DEF ListSessionsFails, ServerUp, Blank
    <3> QED
      BY <3>1 DEF Holds, ServerUp
  <2> QED
    BY <2>1, <2>2 DEF QuietSoFar
<1>5. CASE ListClients
  <2>1. UNCHANGED <<sessions, options, clipboard, asked, configured, report, meanwhile>>
    BY <1>5 DEF ListClients, vars, tmuxVars, asking
  <2>2. at = "clients" /\ at' = "setClipboard"
    BY <1>5 DEF ListClients
  <2> QED
    BY <1>u, <2>1, <2>2 DEF QuietSoFar
<1>6. ASSUME NEW l \in Options, ReadOption(l), meanwhile' = "nothing", NEW n \in Lines,
             report'[n] # "unreported"
      PROVE  (report'[n] \in {"present", "ok"}) <=> Holds(n)
  <2>1. PICK status \in Status(l) : report' = Printed(l, status) /\ meanwhile = "nothing"
    BY <1>6 DEF ReadOption
  <2>2. \A k \in Lines : report[k] # "unreported" =>
          ((report[k] \in {"present", "ok"}) <=> Holds(k))
    BY <1>6, <2>1 DEF ReadOption, QuietSoFar
  <2>3. CASE n = l
    BY <1>6, <2>1, <2>3, StatusExact DEF Printed, ReadOption
  <2>4. CASE n # l /\ report'[n] = report[n]
    BY <1>6, <2>2, <2>4
  <2>5. CASE n # l /\ LastRead(l) /\ report[n] = "unreported" /\ report'[n] = "unknown"
    <3>1. l = "setClipboard" /\ report["session"] # "present" /\ at = l
      BY <1>6, <2>5 DEF LastRead, ReadOption
    <3>2. report["session"] # "unreported" /\ report["server"] # "unreported"
      BY <3>1 DEF LinesInOrder, Past
    <3>3. asked \notin sessions
      BY <2>2, <3>1, <3>2 DEF Holds, DoctorTypeOK
    <3>4. n \in {"mouse", "windowSize", "closeKey"}
      BY <2>5, <3>1, <3>2
    <3> QED
      BY <2>5, <3>3, <3>4 DEF Holds
  <2> QED
    BY <2>1, <2>3, <2>4, <2>5 DEF Printed
<1>7. ASSUME NEW l \in Options, ReadOption(l)
      PROVE  /\ QuietSoFar'
             /\ Reported /\ meanwhile' = "nothing" =>
                  \A n \in Lines : (report'[n] \in {"present", "ok"}) <=> Holds(n)
  <2>1. UNCHANGED <<sessions, options, clipboard, asked, configured>>
    BY <1>7 DEF ReadOption, vars, tmuxVars, asking
  <2>2. LinesInOrder'
    BY LinesNext
  <2>3. at' = "done" => \A n \in Lines : report'[n] # "unreported"
    BY <2>2 DEF LinesInOrder, Past
  <2>4. ASSUME meanwhile' = "nothing", NEW n \in Lines, report'[n] # "unreported"
        PROVE  (report'[n] \in {"present", "ok"}) <=> Holds(n)
    BY <1>6, <1>7, <2>4
  <2>5. QuietSoFar'
    BY <1>u, <2>1, <2>4 DEF QuietSoFar
  <2> QED
    BY <2>3, <2>4, <2>5
<1>8. CASE Exit
  BY <1>8 DEF Exit, QuietSoFar
<1>9. CASE Others
  <2>1. at' = at /\ UNCHANGED <<asked, configured, report>>
    BY <1>9 DEF Others, asking
  <2>2. CASE at \in Reading /\ meanwhile' = "nothing"
    BY <1>9, <1>u, <2>1, <2>2, QuietOthers DEF QuietSoFar, tmuxVars
  <2>3. CASE ~(at \in Reading /\ meanwhile' = "nothing")
    BY <2>1, <2>3 DEF QuietSoFar
  <2> QED
    BY <2>1, <2>2, <2>3
<1>10. CASE UNCHANGED doctorVars
  BY <1>10, <1>u DEF doctorVars, vars, tmuxVars, asking, QuietSoFar
<1> QED
  BY <1>1, <1>2, <1>3, <1>4, <1>5, <1>7, <1>8, <1>9, <1>10, DoctorOnlyReads DEF DoctorReads

\* A report with every command answered, and no other change to the server in
\* between, is what the server is, for any number of popups and sessions.
THEOREM QuietReportIsExact == DoctorSpec => QuietReportExact
<1>1. DoctorInit => QuietSoFar
  BY DEF DoctorInit, QuietSoFar
<1>2. DoctorLines /\ QuietSoFar /\ [DoctorNext]_doctorVars => QuietSoFar'
  BY QuietNext DEF DoctorLines
<1>3. DoctorLines /\ QuietSoFar /\ [DoctorNext]_doctorVars =>
        [Reported /\ meanwhile' = "nothing" =>
           \A l \in Lines : (report'[l] \in {"present", "ok"}) <=> Holds(l)]_doctorVars
  BY QuietNext DEF DoctorLines
<1> QED
  BY <1>1, <1>2, <1>3, DoctorLinesInv, PTL DEF DoctorSpec, QuietReportExact

-------------------------------------------------------------------------------
(* An ok report is true. *)

LEMMA UnreadNext ==
  ASSUME DoctorTypeOK, LinesInOrder, UnreadShows, [DoctorNext]_doctorVars
  PROVE  UnreadShows'
<1>1. CASE \E s \in Sessions \cup {NoSession}, k \in CloseKeys : Start(s, k) \/ StartWithoutTmux(s, k)
  BY <1>1 DEF Start, StartWithoutTmux, UnreadShows, DoctorTypeOK
<1>2. CASE ListSessions
  BY <1>2 DEF ListSessions, UnreadShows, LinesInOrder, Past
<1>3. CASE ListSessionsFails \/ Exit
  BY <1>3 DEF ListSessionsFails, Exit, UnreadShows
<1>4. CASE ListClients
  BY <1>4 DEF ListClients, UnreadShows
<1>5. ASSUME NEW l \in Options, ReadOption(l) PROVE UnreadShows'
  <2>1. report[l] = "unreported" /\ at \in Reading
    BY <1>5 DEF ReadOption, LinesInOrder, Past
  <2>2. PICK status \in Statuses \ {"unreported"} :
          /\ report' = Printed(l, status)
          /\ meanwhile' = meanwhile \/ (status = "unknown" /\ meanwhile' = "unread")
    BY <1>5, ReadOptionStep
  <2>3. \A n \in Options : n # l /\ report[n] = "unknown" => report'[n] = "unknown"
    BY <2>2 DEF Printed
  <2>4. report'[l] = status
    BY <2>2 DEF Printed
  <2> QED
    BY <2>1, <2>2, <2>3, <2>4 DEF UnreadShows
<1>6. CASE Others
  BY <1>6 DEF Others, Disturbed, UnreadShows
<1>7. CASE UNCHANGED doctorVars
  BY <1>7 DEF doctorVars, UnreadShows
<1> QED
  BY <1>1, <1>2, <1>3, <1>4, <1>5, <1>6, <1>7, DoctorOnlyReads DEF DoctorReads

\* An ok on line l of a report in progress was there, or is being read now.
LEMMA OkRead ==
  ASSUME DoctorTypeOK, LinesInOrder, DoctorReads, at' \in Reading,
         NEW l \in Options, report'[l] = "ok"
  PROVE  /\ at \in Reading
         /\ UNCHANGED <<sessions, options, clipboard, pc, target, asked>>
         /\ \/ report[l] = "ok" /\ meanwhile' \in {meanwhile, "unread"}
            \/ "ok" \in Status(l)
<1>1. \A s, k : ~Start(s, k) /\ ~StartWithoutTmux(s, k)
  BY DEF Start, StartWithoutTmux, LinesInOrder, Past
<1>2. CASE ListSessions
  BY <1>2 DEF ListSessions, LinesInOrder, Past, DoctorTypeOK
<1>3. ~ListSessionsFails /\ ~Exit
  BY DEF ListSessionsFails, Exit
<1>4. CASE ListClients
  BY <1>4 DEF ListClients, vars, tmuxVars, popupVars, asking
<1>5. ASSUME NEW n \in Options, ReadOption(n)
      PROVE  /\ at \in Reading
             /\ UNCHANGED <<sessions, options, clipboard, pc, target, asked>>
             /\ \/ report[l] = "ok" /\ meanwhile' \in {meanwhile, "unread"}
                \/ "ok" \in Status(l)
  <2>1. at = n /\ UNCHANGED <<sessions, options, clipboard, pc, target, asked>>
    BY <1>5 DEF ReadOption, vars, tmuxVars, popupVars, asking
  <2>2. PICK status \in Statuses \ {"unreported"} :
          /\ report' = Printed(n, status)
          /\ \/ status \in Status(n) /\ meanwhile' = meanwhile
             \/ status = "unknown" /\ meanwhile' = "unread"
    BY <1>5, ReadOptionStep
  <2>3. report'[l] = IF l = n THEN status
                     ELSE IF LastRead(n) /\ report[l] = "unreported" THEN "unknown" ELSE report[l]
    BY <2>2 DEF Printed
  <2> QED
    BY <2>1, <2>2, <2>3
<1> QED
  BY <1>1, <1>2, <1>3, <1>4, <1>5 DEF DoctorReads

LEMMA ClipboardNext ==
  ASSUME TypeOK, DoctorTypeOK, LinesInOrder, ClipboardLasts, [DoctorNext]_doctorVars
  PROVE  ClipboardLasts'
<1>1. CASE DoctorReads
  <2> SUFFICES ASSUME at' \in Reading, report'["setClipboard"] = "ok"
               PROVE  clipboard' = "external" \/ meanwhile' \in {"drift", "unread"}
    BY DEF ClipboardLasts
  <2>1. "ok" \in Status("setClipboard") => clipboard = "external"
    BY DEF Status
  <2> QED
    BY <1>1, <2>1, OkRead DEF ClipboardLasts
<1>2. CASE Others
  <2>1. clipboard' \in {"external", "other"}
    BY TypeNext, DoctorOnlyReads DEF TypeOK, TmuxTypeOK
  <2>2. clipboard = "external" /\ clipboard' # "external" => Drift
    BY <2>1 DEF Drift
  <2> QED
    BY <1>2, <2>2 DEF Others, Disturbed, ClipboardLasts, tmuxVars
<1>3. CASE UNCHANGED doctorVars
  BY <1>3 DEF doctorVars, vars, tmuxVars, ClipboardLasts
<1> QED
  BY <1>1, <1>2, <1>3, DoctorOnlyReads

Sizing == Creating \cup {"windowSize"}

\* A script leaves the positions from which it will set the window size only by
\* setting it.
LEMMA SizingStep ==
  ASSUME TypeOK, UninterruptedSetup, [Next]_vars, NEW q \in Popups, pc[q] \in Sizing
  PROVE  target'[q] = target[q] /\ (pc'[q] \in Sizing \/ WindowSize(q))
<1> USE DEF Sizing
<1>1. ASSUME NEW p \in Popups, ScriptStep(p)
      PROVE  target'[q] = target[q] /\ (pc'[q] \in Sizing \/ WindowSize(q))
  <2>1. CASE AttachFails(p)
    BY <2>1 DEF AttachFails, Close, TypeOK, PopupTypeOK
  <2>2. CASE RejectCloseKey(p)
    BY <2>2 DEF RejectCloseKey, TypeOK, PopupTypeOK
  <2>3. CASE WindowSize(p)
    BY <2>3 DEF WindowSize, Step, TypeOK, PopupTypeOK
  <2>4. ASSUME NEW from, NEW to, Step(p, from, to), from \in Sizing => to \in Sizing
        PROVE  target'[q] = target[q] /\ pc'[q] \in Sizing
    BY <2>4 DEF Step, TypeOK, PopupTypeOK
  <2> QED
    BY <1>1, <2>1, <2>2, <2>3, <2>4 DEF ScriptStep, CheckSession, ReuseSession, CreateSession,
       ClipboardNew, StatusOff, MouseOn, SetCloseKey, BindCloseKey, FallbackOption, FallbackBind,
       Attach
<1>2. ASSUME NEW ps, Close(ps), q \notin ps
      PROVE  target'[q] = target[q] /\ pc'[q] \in Sizing
  BY <1>2 DEF Close
<1>3. CASE \E p \in Popups : Teardown(p)
  BY <1>2, <1>3 DEF Teardown, UninterruptedSetup
<1>4. CASE \E p \in Popups, c \in Codes : PressCloseKey(p, c)
  BY <1>2, <1>4 DEF PressCloseKey
<1>5. CASE \E s \in Sessions : ShellExit(s)
  BY <1>2, <1>5 DEF ShellExit, Attached
<1>6. CASE \E p \in Popups, s \in Sessions, k \in CloseKeys : Run(p, s, k)
  BY <1>6 DEF Run, TypeOK, PopupTypeOK
<1>7. CASE DriftClipboard \/ (\E s \in Sessions : DriftWindowSize(s)) \/ UNCHANGED vars
  BY <1>7 DEF DriftClipboard, DriftWindowSize, vars, popupVars
<1> QED
  BY <1>1, <1>3, <1>4, <1>5, <1>6, <1>7 DEF Next

\* A new session has the script that creates it.
LEMMA CreatedSizing ==
  ASSUME TypeOK, [Next]_vars, NEW s \in sessions' \ sessions
  PROVE  BeingConfigured(s, Sizing)'
<1>1. \E p \in Popups : CreateSession(p)
  BY DEF Next, ScriptStep, CheckSession, ReuseSession, ClipboardNew, StatusOff, MouseOn,
     WindowSize, SetCloseKey, BindCloseKey, RejectCloseKey, FallbackOption, FallbackBind, Attach,
     AttachFails, Run, PressCloseKey, Teardown, ShellExit, DriftClipboard, DriftWindowSize,
     SetClipboard, SetOption, BindKey, EndSession, vars, tmuxVars
<1>2. PICK p \in Popups : CreateSession(p)
  BY <1>1
<1>3. target'[p] = s /\ pc'[p] = "setClipboardNew"
  BY <1>2 DEF CreateSession, NewSession, Step, TypeOK, PopupTypeOK
<1> QED
  BY <1>3 DEF BeingConfigured, Sizing

\* So a session's window size is smallest, or is about to be, unless a shell
\* drifts it.
LEMMA SmallestStep ==
  ASSUME TypeOK, UninterruptedSetup, [Next]_vars, NEW s \in sessions',
         s \in sessions => options[s].smallest \/ BeingConfigured(s, Sizing)
  PROVE  \/ options'[s].smallest \/ BeingConfigured(s, Sizing)'
         \/ s \in sessions /\ options[s].smallest /\ ~options'[s].smallest
<1>1. CASE s \notin sessions
  BY <1>1, CreatedSizing
<1>2. CASE s \in sessions /\ BeingConfigured(s, Sizing)
  <2>1. PICK q \in Popups : target[q] = s /\ pc[q] \in Sizing
    BY <1>2 DEF BeingConfigured
  <2>2. CASE pc'[q] \in Sizing
    BY <2>1, <2>2, SizingStep DEF BeingConfigured
  <2>3. CASE WindowSize(q)
    <3>1. options' = [options EXCEPT ![s] = [options[s] EXCEPT !.smallest = TRUE]]
      BY <1>2, <2>1, <2>3 DEF WindowSize, SetOption, HasSession
    <3>2. s \in Sessions /\ options \in [Sessions -> SessionOptions]
      BY <1>2 DEF TypeOK, TmuxTypeOK
    <3>3. options'[s] = [options[s] EXCEPT !.smallest = TRUE] /\ options[s] \in SessionOptions
      BY <3>1, <3>2
    <3> QED
      BY <3>3 DEF SessionOptions
  <2> QED
    BY <2>1, <2>2, <2>3, SizingStep
<1> QED
  BY <1>1, <1>2

LEMMA WindowSizeNext ==
  ASSUME TypeOK, UninterruptedSetup, DoctorTypeOK, LinesInOrder, WindowSizeLasts,
         [DoctorNext]_doctorVars
  PROVE  WindowSizeLasts'
<1> USE DEF Sizing
<1>1. CASE DoctorReads
  <2> SUFFICES ASSUME at' \in Reading, report'["windowSize"] = "ok", asked' \in sessions'
               PROVE  \/ options'[asked'].smallest \/ BeingConfigured(asked, Sizing)'
                      \/ meanwhile' \in {"drift", "unread"}
    BY DEF WindowSizeLasts
  <2>1. "ok" \in Status("windowSize") => options[asked].smallest
    BY DEF Status
  <2>2. /\ at \in Reading
        /\ UNCHANGED <<sessions, options, clipboard, pc, target, asked>>
        /\ \/ report["windowSize"] = "ok" /\ meanwhile' \in {meanwhile, "unread"}
           \/ "ok" \in Status("windowSize")
    BY <1>1, OkRead
  <2>3. BeingConfigured(asked, Sizing) => BeingConfigured(asked, Sizing)'
    BY <2>2 DEF BeingConfigured
  <2> QED
    BY <2>1, <2>2, <2>3 DEF WindowSizeLasts
<1>2. CASE Others
  <2> SUFFICES ASSUME at' \in Reading, report'["windowSize"] = "ok", asked' \in sessions'
               PROVE  \/ options'[asked'].smallest \/ BeingConfigured(asked, Sizing)'
                      \/ meanwhile' \in {"drift", "unread"}
    BY DEF WindowSizeLasts
  <2>1. UNCHANGED <<at, asked, report>> /\ [Next]_vars /\ meanwhile' = Disturbed
    BY <1>2 DEF Others, asking
  <2>2. CASE meanwhile \in {"drift", "unread"}
    BY <2>1, <2>2 DEF Disturbed
  <2>3. CASE meanwhile \notin {"drift", "unread"}
    <3>1. asked \in sessions => options[asked].smallest \/ BeingConfigured(asked, Sizing)
      BY <2>1, <2>3 DEF WindowSizeLasts
    <3>2. CASE asked \in sessions /\ options[asked].smallest /\ ~options'[asked].smallest
      BY <2>1, <3>2 DEF Disturbed, Drift, tmuxVars
    <3> QED
      BY <2>1, <3>1, <3>2, SmallestStep
  <2> QED
    BY <2>2, <2>3
<1>3. CASE UNCHANGED doctorVars
  BY <1>3 DEF doctorVars, vars, tmuxVars, popupVars, asking, WindowSizeLasts, BeingConfigured
<1> QED
  BY <1>1, <1>2, <1>3, DoctorOnlyReads

LEMMA DoctorInvNext ==
  ASSUME UninterruptedSetup, DoctorLines, DoctorInv, [DoctorNext]_doctorVars
  PROVE  DoctorInv'
BY LinesNext, QuietNext, UnreadNext, ClipboardNext, WindowSizeNext DEF DoctorLines, DoctorInv

\* What a complete report of four oks says.
OkTruth ==
  /\ asked \in sessions
  /\ options[asked].closeKey = configured
  /\ Closable(asked) \/ BeingConfigured(asked, Keying)
  /\ options[asked].mouse \/ BeingConfigured(asked, Creating)
  /\ \/ options[asked].smallest
     \/ BeingConfigured(asked, Creating \cup {"windowSize"})
     \/ meanwhile = "drift"
  /\ clipboard = "external" \/ meanwhile = "drift"

\* The close key is read last, so its answer is of the moment the report ends,
\* and the others are as old as their reads.
LEMMA KeyReadLast ==
  ASSUME DoctorLines, UnreadShows, [DoctorNext]_doctorVars, Reported,
         \A l \in Options : report'[l] = "ok"
  PROVE  /\ at = "closeKey" /\ meanwhile # "unread"
         /\ \A l \in Options \ {"closeKey"} : report[l] = "ok"
         /\ asked \in sessions /\ options[asked].closeKey = configured /\ configured # NoKey
<1> USE DEF Reported, DoctorLines
<1>1. PICK l \in Options : ReadOption(l)
  BY DoctorOnlyReads DEF DoctorReads, Start, StartWithoutTmux, ListSessions, ListSessionsFails,
     ListClients, Exit, Others, doctorVars, Blank
<1>2. l = "closeKey"
  <2>1. PICK status \in Statuses : report' = Printed(l, status)
    BY <1>1, ReadOptionStep
  <2>2. ~(l = "setClipboard" /\ LastRead(l))
    BY <1>1, <2>1 DEF ReadOption, Printed, LinesInOrder, Past
  <2> QED
    BY <1>1, <2>2 DEF ReadOption, LastRead, After
<1>3. /\ at = "closeKey"
      /\ "ok" \in Status("closeKey") /\ meanwhile' = meanwhile
      /\ report["setClipboard"] = "ok" /\ report["mouse"] = "ok" /\ report["windowSize"] = "ok"
  <2>1. PICK status \in Statuses :
          /\ report' = Printed(l, status)
          /\ \/ status \in Status(l) /\ meanwhile' = meanwhile
             \/ status = "unknown" /\ meanwhile' = "unread"
    BY <1>1, ReadOptionStep
  <2>2. \A n \in Options : report'[n] = IF n = l THEN status ELSE report[n]
    BY <1>2, <2>1 DEF Printed, LastRead
  <2> QED
    BY <1>1, <1>2, <2>1, <2>2 DEF ReadOption
<1>4. meanwhile # "unread"
  <2>1. report["closeKey"] = "unreported"
    BY <1>3 DEF LinesInOrder, Past
  <2> QED
    BY <1>3, <2>1 DEF UnreadShows
<1>5. asked \in sessions /\ options[asked].closeKey = configured /\ configured # NoKey
  BY <1>3 DEF Status, HasSession
<1> QED
  BY <1>3, <1>4, <1>5

LEMMA OkReported ==
  ASSUME DoctorLines, DoctorInv, ClosableInv, SettingsTracked, [DoctorNext]_doctorVars,
         Reported, \A l \in Options : report'[l] = "ok"
  PROVE  OkTruth
<1>1. /\ at = "closeKey" /\ meanwhile # "unread"
      /\ report["setClipboard"] = "ok" /\ report["windowSize"] = "ok"
      /\ asked \in sessions /\ options[asked].closeKey = configured /\ configured # NoKey
  BY KeyReadLast DEF DoctorInv
<1>2. Closable(asked) \/ BeingConfigured(asked, Keying)
  <2>1. KeyTracked(asked)
    BY <1>1 DEF ClosableInv, KeysTracked
  <2> QED
    BY <1>1, <2>1 DEF KeyTracked, WillBind, BeingConfigured
<1>3. options[asked].mouse \/ BeingConfigured(asked, Creating)
  BY <1>1 DEF SettingsTracked, SettingTracked
<1> QED
  BY <1>1, <1>2, <1>3 DEF OkTruth, DoctorInv, WindowSizeLasts, ClipboardLasts

\* Four oks can be relied on, although they were read at different moments: at
\* the end of the report its session has the options and closes with the
\* configured key, a script is about to make it so, or a shell drifted one
\* meanwhile.  For any number of popups, sessions and keys, under the hypotheses
\* of CloseKeyWorks.
THEOREM OkReportIsTrue ==
  ASSUME UninterruptedSetup, NoAliases
  PROVE  DoctorSpec => OkReportTrue
<1> DEFINE Inv == DoctorLines /\ DoctorInv /\ ClosableInv /\ SettingsTracked
<1>1. DoctorInit => Inv
  <2>1. DoctorInit => DoctorInv
    BY LinesInit DEF DoctorInit, DoctorInv, QuietSoFar, UnreadShows, ClipboardLasts, WindowSizeLasts
  <2>2. DoctorInit => SettingsTracked
    BY DEF DoctorInit, Init, TmuxInit, SettingsTracked
  <2> QED
    BY <2>1, <2>2, TypeInit, DoctorTypeInit, LinesInit, ClosableInvInit DEF DoctorInit, DoctorLines
<1>2. Inv /\ [DoctorNext]_doctorVars => Inv'
  <2> SUFFICES ASSUME Inv, [DoctorNext]_doctorVars PROVE Inv'
    OBVIOUS
  <2>1. [Next]_vars /\ TypeOK
    BY DoctorOnlyReads DEF DoctorLines
  <2>2. UninterruptedCreation
    BY DEF UninterruptedSetup, UninterruptedCreation
  <2>3. DoctorLines'
    BY <2>1, TypeNext, DoctorTypeNext, LinesNext DEF DoctorLines
  <2> QED
    BY <2>1, <2>2, <2>3, DoctorInvNext, ClosableInvNext, SettingsNext
<1>3. Inv /\ [DoctorNext]_doctorVars =>
        [Reported /\ (\A l \in Options : report'[l] = "ok") => OkTruth]_doctorVars
  BY OkReported
<1> QED
  BY <1>1, <1>2, <1>3, PTL DEF DoctorSpec, OkReportTrue, OkTruth
-------------------------------------------------------------------------------
(* Scripts hung up anywhere, and popups that do not overlap. *)

Sized == Keying \cup {"attachSession", "attached"}

\* The one script there is gets past the window size by setting it, and keeps the
\* session it has set it on.
LEMMA SizedStep ==
  ASSUME TypeOK, OnePopup, [Next]_vars, NEW s \in sessions', BeingConfigured(s, Sized)'
  PROVE  options'[s].smallest \/ (s \in sessions /\ BeingConfigured(s, Sized))
<1> USE DEF Sized
<1>1. PICK q \in Popups : target'[q] = s /\ pc'[q] \in Sized
  BY DEF BeingConfigured
<1>2. ASSUME sessions' \subseteq sessions, target[q] = target'[q], pc[q] \in Sized
      PROVE  s \in sessions /\ BeingConfigured(s, Sized)
  BY <1>1, <1>2 DEF BeingConfigured
<1>3. ASSUME NEW p \in Popups, ScriptStep(p)
      PROVE  options'[s].smallest \/ (s \in sessions /\ BeingConfigured(s, Sized))
  <2>1. p = q
    BY DEF OnePopup
  <2>2. CASE WindowSize(q)
    <3>1. s \in sessions /\ s \in Sessions /\ options \in [Sessions -> SessionOptions]
      BY <1>1, <2>2 DEF WindowSize, SetOption, Step, TypeOK, TmuxTypeOK
    <3>2. options' = [options EXCEPT ![s] = [options[s] EXCEPT !.smallest = TRUE]]
      BY <1>1, <2>2, <3>1 DEF WindowSize, SetOption, Step, HasSession
    <3>3. options'[s] = [options[s] EXCEPT !.smallest = TRUE] /\ options[s] \in SessionOptions
      BY <3>1, <3>2
    <3> QED
      BY <3>3 DEF SessionOptions
  <2>3. ASSUME NEW from, NEW to, Step(q, from, to), to \notin Sized PROVE FALSE
    BY <1>1, <2>3 DEF Step, TypeOK, PopupTypeOK
  <2>4. ASSUME NEW from, NEW to, Step(q, from, to), from \in Sized, sessions' = sessions
        PROVE  s \in sessions /\ BeingConfigured(s, Sized)
    BY <1>2, <2>4 DEF Step
  <2>5. CASE AttachFails(q)
    BY <1>1, <2>5 DEF AttachFails, Close
  <2>6. CASE RejectCloseKey(q)
    BY <1>2, <2>6 DEF RejectCloseKey, tmuxVars
  <2> QED
    BY <1>3, <2>1, <2>2, <2>3, <2>4, <2>5, <2>6 DEF ScriptStep, CheckSession, ReuseSession,
       CreateSession, ClipboardNew, StatusOff, MouseOn, SetCloseKey, BindCloseKey, FallbackOption,
       FallbackBind, Attach, SetOption, BindKey, tmuxVars
<1>4. ASSUME NEW ps, Close(ps), sessions' \subseteq sessions
      PROVE  s \in sessions /\ BeingConfigured(s, Sized)
  BY <1>1, <1>2, <1>4 DEF Close
<1>5. CASE \E p \in Popups, r \in Sessions, k \in CloseKeys : Run(p, r, k)
  BY <1>1, <1>5 DEF Run, TypeOK, PopupTypeOK, OnePopup
<1>6. CASE (\E p \in Popups, c \in Codes : PressCloseKey(p, c)) \/ (\E p \in Popups : Teardown(p))
  BY <1>4, <1>6 DEF PressCloseKey, Teardown, tmuxVars
<1>7. CASE \E r \in Sessions : ShellExit(r)
  BY <1>4, <1>7 DEF ShellExit, EndSession
<1>8. CASE DriftClipboard \/ (\E r \in Sessions : DriftWindowSize(r)) \/ UNCHANGED vars
  BY <1>1, <1>2, <1>8 DEF DriftClipboard, DriftWindowSize, SetClipboard, SetOption, vars, tmuxVars,
     popupVars
<1> QED
  BY <1>3, <1>5, <1>6, <1>7, <1>8 DEF Next

LEMMA SizedNext ==
  ASSUME TypeOK, OnePopup, DoctorTypeOK, LinesInOrder, SizedLasts, [DoctorNext]_doctorVars
  PROVE  SizedLasts'
<1> USE DEF Sized
<1> SUFFICES ASSUME at' \in Reading, report'["windowSize"] = "ok", asked' \in sessions',
                    BeingConfigured(asked, Sized)'
             PROVE  options'[asked'].smallest \/ meanwhile' \in {"drift", "unread"}
  BY DEF SizedLasts
<1>1. CASE DoctorReads
  <2>1. "ok" \in Status("windowSize") => options[asked].smallest
    BY DEF Status
  <2>2. /\ at \in Reading
        /\ UNCHANGED <<sessions, options, clipboard, pc, target, asked>>
        /\ \/ report["windowSize"] = "ok" /\ meanwhile' \in {meanwhile, "unread"}
           \/ "ok" \in Status("windowSize")
    BY <1>1, OkRead
  <2>3. BeingConfigured(asked, Sized)
    BY <2>2 DEF BeingConfigured
  <2> QED
    BY <2>1, <2>2, <2>3 DEF SizedLasts
<1>2. CASE Others
  <2>1. UNCHANGED <<at, asked, report>> /\ [Next]_vars /\ meanwhile' = Disturbed
    BY <1>2 DEF Others, asking
  <2>2. CASE meanwhile \in {"drift", "unread"}
    BY <2>1, <2>2 DEF Disturbed
  <2>3. CASE meanwhile \notin {"drift", "unread"} /\ ~options'[asked].smallest
    <3>1. asked \in sessions /\ BeingConfigured(asked, Sized)
      BY <2>1, <2>3, SizedStep
    <3>2. options[asked].smallest
      BY <2>1, <2>3, <3>1 DEF SizedLasts
    <3> QED
      BY <2>1, <2>3, <3>1, <3>2 DEF Disturbed, Drift, tmuxVars
  <2> QED
    BY <2>1, <2>2, <2>3
<1>3. CASE UNCHANGED doctorVars
  BY <1>3 DEF doctorVars, vars, tmuxVars, popupVars, asking, SizedLasts, BeingConfigured
<1> QED
  BY <1>1, <1>2, <1>3, DoctorOnlyReads

\* What a complete report of four oks says in an open popup.
OpenTruth ==
  /\ options[asked].closeKey = configured
  /\ Closable(asked)
  /\ options[asked].mouse \/ meanwhile # "nothing"
  /\ options[asked].smallest \/ meanwhile = "drift"
  /\ clipboard = "external" \/ meanwhile = "drift"

LEMMA OpenReported ==
  ASSUME DoctorLines, QuietSoFar, UnreadShows, ClipboardLasts, SizedLasts, RecordsThenBinds,
         [DoctorNext]_doctorVars, Reported, \A l \in Options : report'[l] = "ok",
         NEW p \in Popups, Attached(p, asked)
  PROVE  OpenTruth
<1>1. /\ at = "closeKey" /\ meanwhile # "unread"
      /\ report["setClipboard"] = "ok" /\ report["mouse"] = "ok" /\ report["windowSize"] = "ok"
      /\ asked \in sessions /\ options[asked].closeKey = configured
  BY KeyReadLast
<1>2. Closable(asked)
  BY <1>1 DEF RecordsThenBinds, Attached
<1>3. BeingConfigured(asked, Keying \cup {"attachSession", "attached"})
  BY DEF BeingConfigured, Attached
<1>4. meanwhile = "nothing" => options[asked].mouse
  BY <1>1 DEF QuietSoFar, Holds
<1> QED
  BY <1>1, <1>2, <1>3, <1>4 DEF OpenTruth, SizedLasts, ClipboardLasts, DoctorLines, DoctorTypeOK

\* Wherever Herdr hangs scripts up, and whatever sessions they leave, four oks can
\* be relied on in an open popup, while popups do not overlap: its session closes
\* with the configured key and has its options, unless a shell drifted one, or
\* the server changed, after its line was read.
THEOREM OkReportIsTrueWhileOpen ==
  ASSUME OnePopup
  PROVE  DoctorSpec => OkReportTrueWhileOpen
<1> DEFINE Inv == /\ DoctorLines /\ QuietSoFar /\ UnreadShows /\ ClipboardLasts /\ SizedLasts
                  /\ FallbackKnown /\ RecordsThenBinds
<1>1. DoctorInit => Inv
  <2>1. DoctorInit => QuietSoFar /\ UnreadShows /\ ClipboardLasts /\ SizedLasts
    BY DEF DoctorInit, QuietSoFar, UnreadShows, ClipboardLasts, SizedLasts
  <2>2. DoctorInit => FallbackKnown /\ RecordsThenBinds
    BY DEF DoctorInit, Init, TmuxInit, FallbackKnown, RecordsThenBinds
  <2> QED
    BY <2>1, <2>2, TypeInit, DoctorTypeInit, LinesInit DEF DoctorInit, DoctorLines
<1>2. Inv /\ [DoctorNext]_doctorVars => Inv'
  <2> SUFFICES ASSUME Inv, [DoctorNext]_doctorVars PROVE Inv'
    OBVIOUS
  <2>1. [Next]_vars /\ TypeOK /\ DoctorTypeOK /\ LinesInOrder
    BY DoctorOnlyReads DEF DoctorLines
  <2>2. DoctorLines'
    BY <2>1, TypeNext, DoctorTypeNext, LinesNext DEF DoctorLines
  <2>3. QuietSoFar' /\ UnreadShows' /\ ClipboardLasts' /\ SizedLasts'
    BY <2>1, QuietNext, UnreadNext, ClipboardNext, SizedNext
  <2>4. FallbackKnown' /\ RecordsThenBinds'
    BY <2>1, FallbackKnownNext, RecordsNext
  <2> QED
    BY <2>2, <2>3, <2>4
<1>3. Inv /\ [DoctorNext]_doctorVars =>
        [Reported /\ (\A l \in Options : report'[l] = "ok") /\ (\E p \in Popups : Attached(p, asked))
           => OpenTruth]_doctorVars
  BY OpenReported
<1> QED
  BY <1>1, <1>2, <1>3, PTL DEF DoctorSpec, OkReportTrueWhileOpen, OpenTruth
===============================================================================
