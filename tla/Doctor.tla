-------------------------------- MODULE Doctor --------------------------------
(***************************************************************************)
(* The doctor command's report on the tmux server (diagnoseTmux,            *)
(* internal/doctor/doctor.go), composed with the attach scripts.  Every     *)
(* line is read by a tmux command of its own, and the scripts, the shells   *)
(* and Herdr go on in between.                                              *)
(***************************************************************************)
EXTENDS PopupShell

VARIABLES
  at,          \* the line whose command the doctor runs next
  asked,       \* the session diagnoseConnection named; NoSession if it could not
  configured,  \* cfg.CloseKey
  report,      \* the status printed on each line
  meanwhile    \* history: what has come between the report and its truth

asking == <<asked, configured>>
doctorVars == <<vars, at, asking, report, meanwhile>>

Options == {"setClipboard", "mouse", "windowSize", "closeKey"}
Lines == {"server", "session"} \cup Options
Reading == {"sessions", "clients"} \cup Options

Statuses ==
  {"unreported", "present", "absent", "missing", "ok", "warning", "unknown"}

\* From the least to the most: nothing, another state of the server, a shell
\* that drifted an option, a command that was cut off.
Disturbances == {"nothing", "change", "drift", "unread"}

\* The order of the commands after list-clients.
After == [setClipboard |-> "mouse", mouse |-> "windowSize",
          windowSize |-> "closeKey", closeKey |-> "done"]

Blank(status) == [l \in Lines |-> status]

DoctorTypeOK ==
  /\ at \in {"off", "done"} \cup Reading
  /\ asked \in Sessions \cup {NoSession}
  /\ configured \in CloseKeys \cup {NoKey}
  /\ report \in [Lines -> Statuses]
  /\ meanwhile \in Disturbances
  /\ IF at = "off" THEN meanwhile = "nothing" ELSE configured \in CloseKeys
  /\ report["session"] \notin {"ok", "warning", "absent"}
  /\ report["session"] = "present" => asked \in Sessions
  /\ at \in Options \ {"setClipboard"} => report["session"] = "present"

DoctorInit ==
  /\ Init
  /\ at = "off"
  /\ asked = NoSession
  /\ configured = NoKey
  /\ report = Blank("unreported")
  /\ meanwhile = "nothing"

-------------------------------------------------------------------------------
\* Run, up to diagnoseTmux: the configuration, and the session it names, are
\* resolved once.
Start(s, k) ==
  /\ at = "off"
  /\ at' = "sessions"
  /\ asked' = s
  /\ configured' = k
  /\ UNCHANGED <<vars, report, meanwhile>>

\* tmuxPath == "": every line is unknown.
StartWithoutTmux(s, k) ==
  /\ at = "off"
  /\ at' = "done"
  /\ asked' = s
  /\ configured' = k
  /\ report' = Blank("unknown")
  /\ meanwhile' = "unread"
  /\ UNCHANGED vars

\* Mutant: the server's sessions are taken for the one asked for.
AnySession(s) == IF ServerUp THEN "present" ELSE "missing"

\* The session line: slices.Contains(sessions, session).
SessionStatus(s) ==
  IF HasSession(s) THEN "present" ELSE IF s = NoSession THEN "unknown" ELSE "missing"

\* sessionList: the server is present, with its sessions ...
ListSessions ==
  /\ at = "sessions"
  /\ ServerUp
  /\ at' = "clients"
  /\ report' = [report EXCEPT !["server"] = "present", !["session"] = SessionStatus(asked)]
  /\ UNCHANGED <<vars, asking, meanwhile>>

\* Mutant: the early return leaves out the lines of the session's options.
AbsentForgets ==
  /\ at = "sessions"
  /\ at' = "done"
  /\ report' = [l \in Lines |-> CASE l = "server" -> "absent"
                                  [] l \in {"session", "setClipboard"} -> "unknown"
                                  [] OTHER -> "unreported"]
  /\ meanwhile' = IF ServerUp THEN "unread" ELSE meanwhile
  /\ UNCHANGED <<vars, asking>>

\* ... or the command fails, without a server or cut off, and no other runs.
ListSessionsFails ==
  /\ at = "sessions"
  /\ at' = "done"
  /\ report' = [Blank("unknown") EXCEPT !["server"] = "absent"]
  /\ meanwhile' = IF ServerUp THEN "unread" ELSE meanwhile
  /\ UNCHANGED <<vars, asking>>

\* clientList: who is attached is printed, or that it is unknown, and decides
\* nothing.
ListClients ==
  /\ at = "clients"
  /\ at' = "setClipboard"
  /\ UNCHANGED <<vars, asking, report, meanwhile>>

\* Mutant: an option that has a value is ok.
SetIsOk(l) ==
  CASE l = "setClipboard" -> {IF ServerUp THEN "ok" ELSE "unknown"}
    [] OTHER -> {IF HasSession(asked) /\ options[asked] # DefaultOptions THEN "ok" ELSE "unknown"}

\* diagnoseTmuxOption and diagnoseCloseKey, the status of one line as the server
\* is now: ok when the value is the wanted one, unknown when there is no such
\* session or show-options prints nothing, the option not being set on it.  A
\* window-size that is not smallest may be another policy or none.
Status(l) ==
  CASE l = "setClipboard" ->
         IF ~ServerUp THEN {"unknown"} ELSE IF clipboard = "external" THEN {"ok"} ELSE {"warning"}
    [] l = "mouse" ->
         IF HasSession(asked) /\ options[asked].mouse THEN {"ok"} ELSE {"unknown"}
    [] l = "windowSize" ->
         IF ~HasSession(asked) THEN {"unknown"}
         ELSE IF options[asked].smallest THEN {"ok"} ELSE {"warning", "unknown"}
    [] l = "closeKey" ->
         IF ~HasSession(asked) \/ options[asked].closeKey = NoKey THEN {"unknown"}
         ELSE IF options[asked].closeKey = configured THEN {"ok"} ELSE {"warning"}

\* Without the session, reportMissingSessionSettings ends the report.
LastRead(l) == l = "setClipboard" /\ report["session"] # "present"

Printed(l, status) ==
  [n \in Lines |-> IF n = l THEN status
                   ELSE IF LastRead(l) /\ report[n] = "unreported" THEN "unknown"
                   ELSE report[n]]

\* Mutant: the close key is read before the other options of the session.
ReadKeyFirst(l) ==
  /\ at = l
  /\ at' = IF LastRead(l) THEN "done"
           ELSE [setClipboard |-> "closeKey", closeKey |-> "mouse",
                 mouse |-> "windowSize", windowSize |-> "done"][l]
  /\ \E status \in Status(l) : report' = Printed(l, status)
  /\ UNCHANGED <<vars, asking, meanwhile>>

\* One show-options, answered or cut off.
ReadOption(l) ==
  /\ at = l
  /\ at' = IF LastRead(l) THEN "done" ELSE After[l]
  /\ \/ /\ \E status \in Status(l) : report' = Printed(l, status)
        /\ UNCHANGED meanwhile
     \/ /\ report' = Printed(l, "unknown")
        /\ meanwhile' = "unread"
  /\ UNCHANGED <<vars, asking>>

\* The process has printed its report and exits.
Exit ==
  /\ at = "done"
  /\ at' = "off"
  /\ asked' = NoSession
  /\ configured' = NoKey
  /\ report' = Blank("unreported")
  /\ meanwhile' = "nothing"
  /\ UNCHANGED vars

\* What a step of the others is to a report in progress.
Drift ==
  \/ clipboard = "external" /\ clipboard' = "other"
  \/ \E s \in sessions \cap sessions' : options[s].smallest /\ ~options'[s].smallest

Disturbed ==
  IF meanwhile = "unread" \/ UNCHANGED tmuxVars THEN meanwhile
  ELSE IF Drift \/ meanwhile = "drift" THEN "drift"
  ELSE "change"

\* Bound: the others rest while the process of a complete report exits.
Others ==
  /\ at # "done"
  /\ Next
  /\ meanwhile' = IF at \in Reading THEN Disturbed ELSE meanwhile
  /\ UNCHANGED <<at, asking, report>>

DoctorNext ==
  \/ \E s \in Sessions \cup {NoSession}, k \in CloseKeys : Start(s, k) \/ StartWithoutTmux(s, k)
  \/ ListSessions \/ ListSessionsFails \/ ListClients
  \/ \E l \in Options : ReadOption(l)
  \/ Exit
  \/ Others

DoctorSpec == DoctorInit /\ [][DoctorNext]_doctorVars

-------------------------------------------------------------------------------
(* What makes a report worth pasting into an issue. *)

\* The report is complete after this step.
Reported == at # "done" /\ at' = "done"

\* "A missing server, session, tool, or context is reported on its own line and
\* the remaining checks still run": whichever early return is taken, whatever
\* command fails and whatever changes, every line is in the report.
EveryLineReported == at = "done" => \A l \in Lines : report[l] # "unreported"

\* What ok, or present, on line l says of the server.
Holds(l) ==
  CASE l = "server" -> ServerUp
    [] l = "session" -> asked \in sessions
    [] l = "setClipboard" -> ServerUp /\ clipboard = "external"
    [] l = "mouse" -> asked \in sessions /\ options[asked].mouse
    [] l = "windowSize" -> asked \in sessions /\ options[asked].smallest
    [] l = "closeKey" -> asked \in sessions /\ options[asked].closeKey = configured

\* "mouse, set-clipboard, and window-size as tmux actually has them": a report
\* all of whose commands were answered, while nothing changed, says what one
\* look at the server would.
QuietReportExact ==
  [][Reported /\ meanwhile' = "nothing" =>
       \A l \in Lines : (report'[l] \in {"present", "ok"}) <=> Holds(l)]_doctorVars

\* A report that finds nothing wrong can be relied on, although its lines were
\* read at different moments and from a session that may have ended and been
\* created again in between: at its end the session closes with the configured
\* key and has its options, or a script is still about to set them, or a shell
\* drifted one meanwhile.  It rests on the order of the reads, which is the
\* order in which the script sets what they read.
OkReportTrue ==
  [][Reported /\ (\A l \in Options : report'[l] = "ok") =>
       /\ asked \in sessions
       /\ options[asked].closeKey = configured
       /\ Closable(asked) \/ BeingConfigured(asked, Keying)
       /\ options[asked].mouse \/ BeingConfigured(asked, Creating)
       /\ \/ options[asked].smallest
          \/ BeingConfigured(asked, Creating \cup {"windowSize"})
          \/ meanwhile = "drift"
       /\ clipboard = "external" \/ meanwhile = "drift"]_doctorVars

\* Herdr may have hung up the script of an earlier popup anywhere, and left a
\* session that records a key nobody bound: a report is ok of it all the same.  But
\* while popups do not overlap, one that is ok is true of the popup it is made in,
\* whose own script went through all of it: only the mouse, which no later script
\* sets, may be that of a session that has ended meanwhile.
OkReportTrueWhileOpen ==
  [][Reported /\ (\A l \in Options : report'[l] = "ok") /\ (\E p \in Popups : Attached(p, asked)) =>
       /\ options[asked].closeKey = configured
       /\ Closable(asked)
       /\ options[asked].mouse \/ meanwhile # "nothing"
       /\ options[asked].smallest \/ meanwhile = "drift"
       /\ clipboard = "external" \/ meanwhile = "drift"]_doctorVars

(* What these rest on. *)

\* The places past the reading of each line.
Past ==
  [l \in Lines |-> CASE l \in {"server", "session"} -> {"clients", "done"} \cup Options
                     [] l = "setClipboard" -> {"mouse", "windowSize", "closeKey", "done"}
                     [] l = "mouse" -> {"windowSize", "closeKey", "done"}
                     [] l = "windowSize" -> {"closeKey", "done"}
                     [] l = "closeKey" -> {"done"}]

LinesInOrder == \A l \in Lines : (report[l] # "unreported") <=> (at \in Past[l])

\* While nothing has changed, the lines printed are those of the server now.
QuietSoFar ==
  at \in Reading /\ meanwhile = "nothing" =>
    \A l \in Lines : report[l] # "unreported" => ((report[l] \in {"present", "ok"}) <=> Holds(l))

\* A command that was cut off shows in the report.
UnreadShows ==
  at \in Reading /\ meanwhile = "unread" => \E l \in Options : report[l] = "unknown"

\* An ok of the clipboard, or of the window size, outlasts whatever the others
\* do but a drift: a session without the option is one whose script is about to
\* set it.
ClipboardLasts ==
  at \in Reading /\ report["setClipboard"] = "ok" =>
    clipboard = "external" \/ meanwhile \in {"drift", "unread"}

WindowSizeLasts ==
  at \in Reading /\ report["windowSize"] = "ok" /\ asked \in sessions =>
    \/ options[asked].smallest
    \/ BeingConfigured(asked, Creating \cup {"windowSize"})
    \/ meanwhile \in {"drift", "unread"}

\* The same of a popup whose script is past that option, when it is the only one.
SizedLasts ==
  at \in Reading /\ report["windowSize"] = "ok" /\ asked \in sessions
    /\ BeingConfigured(asked, Keying \cup {"attachSession", "attached"})
  => options[asked].smallest \/ meanwhile \in {"drift", "unread"}

DoctorInv == LinesInOrder /\ QuietSoFar /\ UnreadShows /\ ClipboardLasts /\ WindowSizeLasts
===============================================================================
