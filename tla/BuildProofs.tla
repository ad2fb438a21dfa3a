------------------------------ MODULE BuildProofs ------------------------------
(***************************************************************************)
(* Theorems of Build for every set of runs and of published binaries.        *)
(***************************************************************************)
EXTENDS Build, TLAPS

USE DEF Installing, Running, Outcomes, outside

\* A step of one run.
Loads(b) == DownloadAsset(b) \/ DownloadChecksums(b) \/ Verify(b)
Acts(b) ==
  Begin(b) \/ Compile(b) \/ CompileCopied(b) \/ Loads(b) \/ Move(b) \/ Copied(b)
    \/ MakeExecutable(b) \/ Stop(b) \/ StopRemoved(b)

LEMMA ActsGoto ==
  ASSUME NEW b \in Builds, Acts(b)
  PROVE  \E from \in {"new"} \cup Running, to \in Running \cup Outcomes : Goto(b, from, to)
<1>1. CASE Begin(b)
  BY <1>1 DEF Begin
<1>2. CASE Compile(b)
  BY <1>2 DEF Compile
<1>3. CASE CompileCopied(b)
  BY <1>3 DEF CompileCopied
<1>4. CASE Loads(b)
  BY <1>4 DEF Loads, DownloadAsset, DownloadChecksums, Verify
<1>5. CASE Move(b)
  BY <1>5 DEF Move
<1>6. CASE Copied(b)
  BY <1>6 DEF Copied
<1>7. CASE MakeExecutable(b)
  BY <1>7 DEF MakeExecutable
<1>8. CASE Stop(b)
  BY <1>8 DEF Stop
<1>9. CASE StopRemoved(b)
  BY <1>9 DEF StopRemoved
<1> QED
  BY <1>1, <1>2, <1>3, <1>4, <1>5, <1>6, <1>7, <1>8, <1>9 DEF Acts

LEMMA TypeNext == TypeOK /\ [Next]_vars => TypeOK'
<1> SUFFICES ASSUME TypeOK, [Next]_vars PROVE TypeOK'
  OBVIOUS
<1>1. ASSUME NEW b \in Builds, Acts(b) PROVE TypeOK'
  <2>1. /\ step' \in [Builds -> {"new"} \cup Running \cup Outcomes]
        /\ last' \in [run : Builds \cup {Nobody}, how : Outcomes]
    <3>1. PICK from \in {"new"} \cup Running, to \in Running \cup Outcomes : Goto(b, from, to)
      BY <1>1, ActsGoto
    <3>2. step' \in [Builds -> {"new"} \cup Running \cup Outcomes]
      BY <3>1 DEF Goto, TypeOK
    <3>3. [run |-> b, how |-> to] \in [run : Builds \cup {Nobody}, how : Outcomes]
          \/ to \notin Outcomes
      OBVIOUS
    <3>4. last' \in [run : Builds \cup {Nobody}, how : Outcomes]
      BY <3>1, <3>3 DEF Goto, TypeOK
    <3> QED
      BY <3>2, <3>4
  <2>2. rename' = rename /\ release' = release /\ published' = published /\ beside' \subseteq Builds
    BY <1>1 DEF Acts, Loads, Begin, Compile, CompileCopied, DownloadAsset, DownloadChecksums, Verify,
       Move, Copied, MakeExecutable, Stop, StopRemoved, TypeOK
  <2>3. work' \in [Builds -> [asset : Contents, entry : Uploads \cup {NoEntry}]]
    <3>1. CASE DownloadAsset(b)
      <4>1. PICK got \in {release.asset, Garbled} : work' = [work EXCEPT ![b].asset = got]
        BY <3>1 DEF DownloadAsset
      <4>2. got \in Contents
        BY DEF TypeOK, Contents
      <4> QED
        BY <4>1, <4>2 DEF TypeOK
    <3>2. CASE DownloadChecksums(b)
      <4>1. PICK got \in {release.entry, NoEntry} : work' = [work EXCEPT ![b].entry = got]
        BY <3>2 DEF DownloadChecksums
      <4>2. got \in Uploads \cup {NoEntry}
        BY DEF TypeOK
      <4> QED
        BY <4>1, <4>2 DEF TypeOK
    <3>3. CASE ~DownloadAsset(b) /\ ~DownloadChecksums(b)
      BY <1>1, <3>3 DEF Acts, Loads, Begin, Compile, CompileCopied, Verify, Move, Copied,
         MakeExecutable, Stop, StopRemoved, TypeOK
    <3> QED
      BY <3>1, <3>2, <3>3
  <2>4. bin' \in Files
    <3>1. Compiled \in Contents /\ work[b].asset \in Contents /\ rename \in BOOLEAN
      BY DEF Contents, TypeOK
    <3>2. CASE Compile(b)
      BY <3>1, <3>2 DEF Compile, Create, Files
    <3>3. CASE Move(b)
      BY <3>1, <3>3 DEF Move, Create, Files
    <3>4. CASE StopRemoved(b)
      BY <3>4 DEF StopRemoved, NoFile, Files, Contents
    <3>5. CASE CompileCopied(b) \/ Copied(b) \/ MakeExecutable(b)
      BY <3>5 DEF CompileCopied, Copied, MakeExecutable, TypeOK, Files
    <3>6. CASE Begin(b) \/ Loads(b) \/ Stop(b)
      BY <3>6 DEF Begin, Loads, DownloadAsset, DownloadChecksums, Verify, Stop, TypeOK
    <3> QED
      BY <1>1, <3>2, <3>3, <3>4, <3>5, <3>6 DEF Acts
  <2> QED
    BY <2>1, <2>2, <2>3, <2>4 DEF TypeOK
<1>2. ASSUME NEW u \in Uploads, Upload(u) PROVE TypeOK'
  BY <1>2 DEF Upload, TypeOK
<1>3. CASE UNCHANGED vars
  BY <1>3 DEF vars, TypeOK
<1> QED
  BY <1>1, <1>2, <1>3 DEF Next, Acts, Loads

\* What a step of one run leaves alone.
LEMMA Frame ==
  ASSUME TypeOK, NEW b \in Builds, Acts(b)
  PROVE  /\ \A c \in Builds : c # b => step'[c] = step[c]
         /\ rename' = rename /\ published' = published
         /\ beside \subseteq beside'
         /\ step[b] \in {"new"} \cup Running
         /\ step[b] = "new" => Begin(b) \/ Stop(b)
         /\ step'[b] \in Running => step[b] \in Running \/ Begin(b)
BY DEF Acts, Loads, Begin, Compile, CompileCopied, DownloadAsset, DownloadChecksums, Verify, Move,
   Copied, MakeExecutable, Stop, StopRemoved, Goto, TypeOK

\* The steps of no run.
LEMMA OthersFrame ==
  ASSUME (\E u \in Uploads : Upload(u)) \/ UNCHANGED vars
  PROVE  UNCHANGED <<rename, bin, step, work, last, beside>> /\ published \subseteq published'
BY DEF Upload, vars

-------------------------------------------------------------------------------
(* The parts of the invariant. *)

LEMMA VerifiedNext == TypeOK /\ Verified /\ [Next]_vars => Verified'
<1> SUFFICES ASSUME TypeOK, Verified, [Next]_vars PROVE Verified'
  OBVIOUS
<1> USE BuildAssumption DEF Verified
<1>1. ASSUME NEW b \in Builds, DownloadAsset(b) PROVE Verified'
  BY <1>1 DEF DownloadAsset, Goto, TypeOK
<1>2. ASSUME NEW b \in Builds, DownloadChecksums(b) PROVE Verified'
  BY <1>2 DEF DownloadChecksums, Goto, TypeOK
<1>3. ASSUME NEW b \in Builds,
             \/ Begin(b) \/ Compile(b) \/ CompileCopied(b) \/ Verify(b) \/ Move(b) \/ Copied(b)
             \/ MakeExecutable(b) \/ Stop(b) \/ StopRemoved(b)
      PROVE  Verified'
  BY <1>3 DEF Begin, Compile, CompileCopied, Verify, Move, Copied, MakeExecutable, Stop,
     StopRemoved, Goto, TypeOK
<1>4. ASSUME NEW u \in Uploads, Upload(u) PROVE Verified'
  BY <1>4 DEF Upload, TypeOK
<1>5. CASE UNCHANGED vars
  BY <1>5 DEF vars
<1> QED
  BY <1>1, <1>2, <1>3, <1>4, <1>5 DEF Next

LEMMA TogetherNext == TypeOK /\ Together /\ [Next]_vars => Together'
<1> SUFFICES ASSUME TypeOK, Together, [Next]_vars PROVE Together'
  OBVIOUS
<1>1. ASSUME NEW b \in Builds, Begin(b) PROVE Together'
  <2>1. /\ \A c \in Builds : c # b => step'[c] = step[c]
        /\ step[b] = "new"
    BY <1>1, Frame DEF Acts, Begin, Goto
  <2>2. beside' = beside \cup IF {c \in Builds : step[c] \in Running} = {} THEN {}
                              ELSE {c \in Builds : step[c] \in Running} \cup {b}
    BY <1>1 DEF Begin
  <2> QED
    BY <2>1, <2>2 DEF Together
<1>2. ASSUME NEW b \in Builds, Acts(b), ~Begin(b) PROVE Together'
  BY <1>2, Frame DEF Together
<1>3. CASE (\E u \in Uploads : Upload(u)) \/ UNCHANGED vars
  BY <1>3, OthersFrame DEF Together
<1> QED
  BY <1>1, <1>2, <1>3 DEF Next, Acts, Loads

LEMMA FromSourceNext == TypeOK /\ Verified /\ FromSource /\ [Next]_vars => FromSource'
<1> SUFFICES ASSUME TypeOK, Verified, FromSource, [Next]_vars PROVE FromSource'
  OBVIOUS
<1> USE DEF FromSource
<1>1. ASSUME NEW b \in Builds, Compile(b) PROVE FromSource'
  BY <1>1, BuildAssumption DEF Compile, Create
<1>2. ASSUME NEW b \in Builds, Move(b) PROVE FromSource'
  <2>1. work[b].asset \in published
    BY <1>2 DEF Move, Goto, Verified
  <2> QED
    BY <1>2, <2>1, BuildAssumption DEF Move, Create
<1>3. ASSUME NEW b \in Builds, CompileCopied(b) \/ Copied(b) PROVE FromSource'
  <2>1. published' = published /\ (bin' = bin \/ (bin.by = b /\ bin'.by = b /\ bin'.content = bin.content))
    BY <1>3 DEF CompileCopied, Copied, TypeOK, Files
  <2>2. bin # NoFile \/ bin.by # b
    BY BuildAssumption DEF NoFile
  <2> QED
    BY <2>1, <2>2, BuildAssumption
<1>4. ASSUME NEW b \in Builds, MakeExecutable(b) PROVE FromSource'
  <2>1. bin # NoFile
    BY <1>4 DEF MakeExecutable, NoFile
  <2> QED
    BY <1>4, <2>1 DEF MakeExecutable, TypeOK, Files
<1>5. ASSUME NEW b \in Builds, StopRemoved(b) PROVE FromSource'
  BY <1>5 DEF StopRemoved
<1>6. ASSUME NEW b \in Builds, Begin(b) \/ Loads(b) \/ Stop(b) PROVE FromSource'
  BY <1>6 DEF Begin, Loads, DownloadAsset, DownloadChecksums, Verify, Stop
<1>7. CASE (\E u \in Uploads : Upload(u)) \/ UNCHANGED vars
  BY <1>7, OthersFrame
<1> QED
  BY <1>1, <1>2, <1>3, <1>4, <1>5, <1>6, <1>7 DEF Next, Loads

LEMMA IncompleteNext ==
  TypeOK /\ Incomplete /\ OwnFile /\ [Next]_vars => Incomplete'
<1> SUFFICES ASSUME TypeOK, Incomplete, OwnFile, [Next]_vars PROVE Incomplete'
  OBVIOUS
<1> USE DEF Incomplete
<1>1. ASSUME NEW b \in Builds, Compile(b) \/ Move(b) PROVE Incomplete'
  BY <1>1 DEF Compile, Move, Create, Goto, TypeOK
<1>2. ASSUME NEW b \in Builds, CompileCopied(b) \/ Copied(b) PROVE Incomplete'
  <2>1. \A c \in Builds : c # b => step'[c] = step[c]
    BY <1>2, Frame DEF Acts
  <2>2. (bin' = bin /\ bin.by # b) \/ bin'.whole
    BY <1>2 DEF CompileCopied, Copied, TypeOK, Files
  <2>3. rename' = rename /\ beside' = beside
    BY <1>2 DEF CompileCopied, Copied
  <2> QED
    BY <2>1, <2>2, <2>3
<1>3. ASSUME NEW b \in Builds, MakeExecutable(b) PROVE Incomplete'
  <2>1. step[b] = "chmod" /\ \A c \in Builds : c # b => step'[c] = step[c]
    BY <1>3, Frame DEF Acts, MakeExecutable, Goto
  <2>2. /\ bin'.whole = bin.whole /\ bin'.content = bin.content /\ bin'.by = bin.by
        /\ rename' = rename /\ beside' = beside
    BY <1>3 DEF MakeExecutable, TypeOK, Files
  <2>3. bin # NoFile
    BY <1>3 DEF MakeExecutable, NoFile
  <2>4. bin.by \in Builds /\ bin.by # b => bin.by \in beside
    BY <2>1, BuildAssumption DEF OwnFile
  <2> QED
    BY <2>1, <2>2, <2>3, <2>4
<1>4. ASSUME NEW b \in Builds, Begin(b) \/ Loads(b) \/ Stop(b) PROVE Incomplete'
  <2>1. /\ \A c \in Builds : c # b => step'[c] = step[c]
        /\ rename' = rename /\ beside \subseteq beside' /\ bin' = bin
    BY <1>4, Frame DEF Acts, Begin, Loads, DownloadAsset, DownloadChecksums, Verify, Stop
  <2>2. step[b] \in {"compiling", "copying"} => step'[b] = "broken"
    BY <1>4 DEF Begin, Loads, DownloadAsset, DownloadChecksums, Verify, Stop, Goto, TypeOK
  <2>3. step[b] # "broken"
    BY <1>4, Frame DEF Acts
  <2> QED
    BY <2>1, <2>2, <2>3
<1>5. ASSUME NEW b \in Builds, StopRemoved(b) PROVE Incomplete'
  BY <1>5 DEF StopRemoved
<1>6. CASE (\E u \in Uploads : Upload(u)) \/ UNCHANGED vars
  BY <1>6, OthersFrame
<1> QED
  BY <1>1, <1>2, <1>3, <1>4, <1>5, <1>6 DEF Next, Loads

LEMMA OwnFileNext == TypeOK /\ Together /\ OwnFile /\ [Next]_vars => OwnFile'
<1> SUFFICES ASSUME TypeOK, Together, OwnFile, [Next]_vars PROVE OwnFile'
  OBVIOUS
<1> USE DEF OwnFile
<1>1. ASSUME NEW b \in Builds, Compile(b) \/ Move(b) PROVE OwnFile'
  <2>1. /\ \A c \in Builds : c # b => step'[c] = step[c]
        /\ rename' = rename /\ beside' = beside /\ step[b] \in Running
    BY <1>1, Frame DEF Acts, Compile, Move, Goto
  <2>2. bin'.by = b /\ (step'[b] = "compiling" => bin'.exec) /\ (rename => step'[b] \notin {"compiling", "copying"})
    BY <1>1 DEF Compile, Move, Create, Goto, TypeOK
  <2>3. \A c \in Builds : c # b /\ step[c] \in Running => b \in beside /\ c \in beside
    BY <2>1 DEF Together
  <2> QED
    BY <2>1, <2>2, <2>3
<1>2. ASSUME NEW b \in Builds, StopRemoved(b) PROVE OwnFile'
  <2>1. /\ \A c \in Builds : c # b => step'[c] = step[c]
        /\ rename' = rename /\ beside' = beside /\ step[b] \in Running
        /\ step'[b] = "broken" /\ bin'.by = Nobody
    BY <1>2, Frame DEF Acts, StopRemoved, Goto, NoFile, TypeOK
  <2>2. \A c \in Builds : c # b /\ step[c] \in Running => c \in beside
    BY <2>1 DEF Together
  <2> QED
    BY <2>1, <2>2, BuildAssumption
<1>3. ASSUME NEW b \in Builds,
             \/ CompileCopied(b) \/ Copied(b) \/ MakeExecutable(b) \/ Begin(b) \/ Loads(b) \/ Stop(b)
      PROVE  OwnFile'
  <2>1. /\ \A c \in Builds : c # b => step'[c] = step[c]
        /\ rename' = rename /\ beside \subseteq beside'
    BY <1>3, Frame DEF Acts
  <2>2. /\ bin'.by = bin.by
        /\ bin'.exec = bin.exec \/ bin'.exec \/ bin.by = b
    BY <1>3 DEF CompileCopied, Copied, MakeExecutable, Begin, Loads, DownloadAsset,
       DownloadChecksums, Verify, Stop, TypeOK, Files
  <2>3. /\ step'[b] # "compiling"
        /\ step'[b] \in {"copying", "chmod"} => step'[b] = "chmod" /\ step[b] = "copying"
    BY <1>3 DEF CompileCopied, Copied, MakeExecutable, Begin, Loads, DownloadAsset,
       DownloadChecksums, Verify, Stop, Goto, TypeOK
  <2> QED
    BY <2>1, <2>2, <2>3
<1>4. CASE (\E u \in Uploads : Upload(u)) \/ UNCHANGED vars
  BY <1>4, OthersFrame
<1> QED
  BY <1>1, <1>2, <1>3, <1>4 DEF Next, Loads

LEMMA NotReadyNext ==
  TypeOK /\ FromSource /\ OwnFile /\ NotReady /\ [Next]_vars => NotReady'
<1> SUFFICES ASSUME TypeOK, FromSource, OwnFile, NotReady, [Next]_vars PROVE NotReady'
  OBVIOUS
<1> USE DEF NotReady
<1>b. ASSUME NEW b \in Builds, Acts(b), step[b] = "broken" PROVE FALSE
  BY <1>b, Frame
<1>1. ASSUME NEW b \in Builds, Compile(b) \/ Move(b) PROVE NotReady'
  <2>1. bin'.by = b /\ bin' # NoFile
    BY <1>1, BuildAssumption DEF Compile, Move, Create, NoFile
  <2>2. bin'.whole /\ ~bin'.exec => step'[b] = "chmod"
    BY <1>1 DEF Compile, Move, Create, Goto, TypeOK
  <2> QED
    BY <2>1, <2>2
<1>2. ASSUME NEW b \in Builds, StopRemoved(b) PROVE NotReady'
  BY <1>2 DEF StopRemoved, Goto, NoFile, TypeOK
<1>3. ASSUME NEW b \in Builds, CompileCopied(b) \/ Copied(b) PROVE NotReady'
  <2>1. \A c \in Builds : c # b => step'[c] = step[c]
    BY <1>3, Frame DEF Acts
  <2>2. rename' = rename /\ step[b] \in {"compiling", "copying"} /\ (step[b] = "copying" => step'[b] = "chmod")
    BY <1>3 DEF CompileCopied, Copied, Goto, TypeOK
  <2>3. CASE bin.by = b
    <3>1. bin'.by = b /\ (step[b] = "compiling" => bin'.exec)
      BY <1>3, <2>3 DEF CompileCopied, Copied, Goto, OwnFile, TypeOK, Files
    <3>2. bin' # NoFile
      BY <3>1, BuildAssumption DEF NoFile
    <3> QED
      BY <2>2, <3>1, <3>2
  <2>4. CASE bin.by # b
    <3>1. bin' = bin
      BY <1>3, <2>4 DEF CompileCopied, Copied
    <3> QED
      BY <2>1, <2>2, <2>4, <3>1
  <2> QED
    BY <2>3, <2>4
<1>4. ASSUME NEW b \in Builds, MakeExecutable(b) PROVE NotReady'
  BY <1>4 DEF MakeExecutable, NoFile, TypeOK, Files
<1>5. ASSUME NEW b \in Builds, Begin(b) \/ Loads(b) \/ Stop(b) PROVE NotReady'
  <2>1. /\ \A c \in Builds : c # b => step'[c] = step[c]
        /\ rename' = rename /\ bin' = bin /\ step[b] # "broken"
    BY <1>5, <1>b, Frame DEF Acts, Begin, Loads, DownloadAsset, DownloadChecksums, Verify, Stop
  <2>2. step[b] = "chmod" => step'[b] = "broken"
    BY <1>5 DEF Begin, Loads, DownloadAsset, DownloadChecksums, Verify, Stop, Goto, TypeOK
  <2> QED
    BY <2>1, <2>2
<1>6. CASE (\E u \in Uploads : Upload(u)) \/ UNCHANGED vars
  BY <1>6, OthersFrame
<1> QED
  BY <1>1, <1>2, <1>3, <1>4, <1>5, <1>6 DEF Next, Loads

\* The file is ready when it is whole and executable.
LEMMA Ready ==
  ASSUME TypeOK, FromSource, bin.whole, bin.exec
  PROVE  Usable
<1>1. bin # NoFile
  BY DEF NoFile
<1> QED
  BY <1>1 DEF FromSource, TypeOK, Usable

LEMMA RepairNext ==
  ASSUME BuildInv, [Next]_vars, (TypeOK /\ FromSource /\ Incomplete /\ OwnFile)'
  PROVE  RerunRepairs'
<1>t. TypeOK /\ FromSource /\ Incomplete /\ OwnFile /\ RerunRepairs
  BY DEF BuildInv
<1> SUFFICES ASSUME last'.how = "installed", rename' \/ last'.run \notin beside',
                    \A c \in Builds : step'[c] \notin Running
             PROVE  Usable'
  BY DEF RerunRepairs
<1>1. ASSUME NEW b \in Builds, Acts(b) PROVE Usable'
  <2>1. step'[b] \notin Running
    OBVIOUS
  <2>2. last' = [run |-> b, how |-> step'[b]] /\ step'[b] = "installed"
    <3>1. PICK from \in {"new"} \cup Running, to \in Running \cup Outcomes : Goto(b, from, to)
      BY <1>1, ActsGoto
    <3>2. step'[b] = to /\ to \in Outcomes
      BY <2>1, <3>1, <1>t DEF Goto, TypeOK
    <3>3. last' = [run |-> b, how |-> to]
      BY <3>1, <3>2 DEF Goto
    <3> QED
      BY <3>2, <3>3
  <2>3. Compile(b) \/ CompileCopied(b) \/ MakeExecutable(b)
    BY <1>1, <2>2, <1>t DEF Acts, Loads, Begin, DownloadAsset, DownloadChecksums, Verify, Move,
       Copied, Stop, StopRemoved, Goto, TypeOK
  <2>4. bin'.whole /\ bin'.exec
    <3>1. CASE Compile(b)
      <4>1. rename
        BY <2>2, <3>1, <1>t DEF Compile, Goto, TypeOK
      <4> QED
        BY <3>1, <4>1 DEF Compile, Create
    <3>2. CASE CompileCopied(b)
      <4>1. step[b] = "compiling" /\ ~rename
        BY <3>2, <1>t DEF CompileCopied, Goto, OwnFile
      <4>2. b \notin beside
        BY <2>2, <3>2, <4>1 DEF CompileCopied
      <4>3. bin.by = b /\ bin.exec
        BY <1>t, <4>1, <4>2 DEF OwnFile
      <4> QED
        BY <3>2, <4>3, <1>t DEF CompileCopied, TypeOK, Files
    <3>3. CASE MakeExecutable(b)
      <4>1. step[b] = "chmod" /\ bin # NoFile /\ bin'.whole = bin.whole /\ bin'.exec
        BY <3>3, <1>t DEF MakeExecutable, Goto, NoFile, TypeOK, Files
      <4>2. rename \/ bin.by = b
        BY <1>t, <2>2, <3>3, <4>1 DEF MakeExecutable, OwnFile
      <4>3. bin.whole
        BY <1>t, <4>1, <4>2 DEF Incomplete
      <4> QED
        BY <4>1, <4>3
    <3> QED
      BY <2>3, <3>1, <3>2, <3>3
  <2> QED
    <3>1. bin' # NoFile
      BY <2>4 DEF NoFile
    <3>2. bin'.content \in Uploads \cup {Compiled, Previous}
      BY <3>1 DEF FromSource, TypeOK
    <3> QED
      BY <2>4, <3>2 DEF Usable
<1>2. CASE (\E u \in Uploads : Upload(u)) \/ UNCHANGED vars
  <2>1. UNCHANGED <<rename, bin, step, last, beside>>
    BY <1>2, OthersFrame
  <2>2. Usable
    BY <1>t, <2>1 DEF RerunRepairs
  <2> QED
    BY <2>1, <2>2 DEF Usable
<1> QED
  BY <1>1, <1>2 DEF Next, Acts, Loads

-------------------------------------------------------------------------------
(* The theorems. *)

LEMMA BuildInvariant == Spec => []BuildInv
<1>1. Init => BuildInv
  <2> SUFFICES ASSUME Init PROVE BuildInv
    OBVIOUS
  <2>1. TypeOK
    BY DEF Init, TypeOK, Files, Contents
  <2>2. bin.whole /\ bin.exec /\ bin.content = Previous /\ bin # NoFile
    BY DEF Init, NoFile
  <2>3. Verified /\ Together /\ OwnFile
    BY DEF Init, Verified, Together, OwnFile
  <2> QED
    BY <2>1, <2>2, <2>3 DEF BuildInv, FromSource, Incomplete, NotReady, RerunRepairs, Usable
<1>2. BuildInv /\ [Next]_vars => BuildInv'
  <2> SUFFICES ASSUME BuildInv, [Next]_vars PROVE BuildInv'
    OBVIOUS
  <2>1. (TypeOK /\ Verified /\ Together /\ FromSource /\ Incomplete /\ OwnFile /\ NotReady)'
    BY TypeNext, VerifiedNext, TogetherNext, FromSourceNext, IncompleteNext, OwnFileNext,
       NotReadyNext DEF BuildInv
  <2> QED
    BY <2>1, RepairNext DEF BuildInv
<1> QED
  BY <1>1, <1>2, PTL DEF Spec

\* The type invariant of scripts/build.sh, for any number of runs.
THEOREM BuildTypeCorrect == Spec => []TypeOK
BY BuildInvariant, PTL DEF BuildInv

\* Whatever the network delivers, however the release changes, and however runs
\* stop or overlap, only content that was compiled, that was there or whose checksum
\* was published becomes executable; an incomplete file does only where files are
\* copied, by go build or beside another run.
THEOREM OnlyVerifiedBinariesRun == Spec => []OnlyVerifiedRuns
<1>1. BuildInv => OnlyVerifiedRuns
  <2> SUFFICES ASSUME BuildInv, bin.exec PROVE OnlyVerifiedRuns
    BY DEF OnlyVerifiedRuns
  <2>1. bin # NoFile
    BY DEF NoFile
  <2> QED
    BY <2>1 DEF BuildInv, FromSource, Incomplete, OnlyVerifiedRuns
<1> QED
  BY <1>1, BuildInvariant, PTL

\* Runs that fail before they install leave a binary Herdr can run, however many
\* they are and whatever runs beside them, until one installs.
THEOREM FailedRunsKeepTheBinary == Spec => []FailuresKeepBinary
<1>1. BuildInv => FailuresKeepBinary
  <2> SUFFICES ASSUME BuildInv, \A b \in Builds : step[b] \notin Installing \cup {"broken"}
               PROVE  Usable
    BY DEF FailuresKeepBinary
  <2>1. bin # NoFile
    BY DEF BuildInv, NotReady
  <2>2. bin.whole
    BY <2>1 DEF BuildInv, Incomplete
  <2>3. bin.exec
    BY <2>2 DEF BuildInv, NotReady
  <2> QED
    BY <2>2, <2>3, Ready DEF BuildInv
<1> QED
  BY <1>1, BuildInvariant, PTL

\* A run that succeeds repairs what earlier ones broke off, in any number and
\* order; where files are copied, one that no other run was beside.
THEOREM SuccessRepairs == Spec => []RerunRepairs
BY BuildInvariant, PTL DEF BuildInv
===============================================================================
