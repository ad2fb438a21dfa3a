---------------------------- MODULE MCPopupShell ----------------------------
(* Instances of PopupShell: the close keys are two keys of the keyboard and a
   spelling tmux rejects. *)
EXTENDS PopupShell

\* The spellings, and the keyboard codes they name.
MCKeys == {"M-l", "M-p", "M-bogus"}
MCKnown == {"M-l", "M-p"}
MCCodes == {"alt_l", "alt_p"}
MCCode == [k \in MCKnown |-> IF k = "M-l" THEN "alt_l" ELSE "alt_p"]

\* Herdr closes a popup before its script touches the session, or after it is
\* configured; the interrupted instance lets it do so anywhere.
MCSafeTeardown == {"hasSession", "setClipboard", "newSession", "attachSession"}
MCAnyTeardown == Script
=============================================================================
