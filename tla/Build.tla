-------------------------------- MODULE Build --------------------------------
(***************************************************************************)
(* scripts/build.sh, the step that leaves the plugin's binary in            *)
(* bin/toggle-popup, run by several processes, killed and run again.  A     *)
(* checksum is its content: the hash is taken as injective.  An earlier run *)
(* installed the plugin.                                                    *)
(***************************************************************************)
CONSTANTS
  Builds,          \* runs of the script
  Uploads,         \* binaries the release workflow publishes for this version
  Garbled,         \* a download curl reports as complete and is not
  NoEntry,         \* checksums.txt without a line for the asset
  Compiled,        \* the output of go build
  Previous,        \* what an earlier run installed
  Absent,          \* no file
  Nobody           \* no run

VARIABLES
  rename,    \* a file moves from a work directory to bin/ by a rename; otherwise
             \* it is copied, to another file system
  release,   \* the published asset, and the entry for it in checksums.txt
  published, \* every entry checksums.txt has had
  bin,       \* the file bin/toggle-popup: which binary it holds, all of it or a
             \* part, whether it is executable, and the run that created it
  step,      \* the command each run executes next
  work,      \* its work_dir: the asset and the entry of checksums.txt
  last,      \* the run that ended last, and how
  beside     \* history: the runs that another one has run beside

outside == <<rename, release, published>>
vars == <<outside, bin, step, work, last, beside>>

Contents == Uploads \cup {Garbled, Compiled, Previous, Absent}
Files == [content : Contents, whole : BOOLEAN, exec : BOOLEAN, by : Builds \cup {Nobody}]
NoFile == [content |-> Absent, whole |-> FALSE, exec |-> FALSE, by |-> Nobody]

Installing == {"compiling", "mv", "copying", "chmod"}
Running == {"compile", "asset", "checksums", "verify"} \cup Installing
\* A run fails before it installs, or leaves the installation broken off.
Outcomes == {"installed", "failed", "broken"}

ASSUME BuildAssumption ==
  /\ {Garbled, Absent} \cap (Uploads \cup {Compiled, Previous}) = {}
  /\ NoEntry \notin Uploads \cup {Garbled}
  /\ Nobody \notin Builds

TypeOK ==
  /\ rename \in BOOLEAN
  /\ release \in [asset : Uploads, entry : Uploads \cup {NoEntry}]
  /\ published \subseteq Uploads
  /\ bin \in Files
  /\ step \in [Builds -> {"new"} \cup Running \cup Outcomes]
  /\ work \in [Builds -> [asset : Contents, entry : Uploads \cup {NoEntry}]]
  /\ last \in [run : Builds \cup {Nobody}, how : Outcomes]
  /\ beside \subseteq Builds

Init ==
  /\ rename \in BOOLEAN
  /\ \E u \in Uploads :
       /\ release = [asset |-> u, entry |-> u]
       /\ published = {u}
  /\ bin = [content |-> Previous, whole |-> TRUE, exec |-> TRUE, by |-> Nobody]
  /\ step = [b \in Builds |-> "new"]
  /\ work = [b \in Builds |-> [asset |-> Absent, entry |-> NoEntry]]
  /\ last = [run |-> Nobody, how |-> "installed"]
  /\ beside = {}

-------------------------------------------------------------------------------
Goto(b, from, to) ==
  /\ step[b] = from
  /\ step' = [step EXCEPT ![b] = to]
  /\ last' = IF to \in Outcomes THEN [run |-> b, how |-> to] ELSE last

\* A new file replaces bin/toggle-popup under its name.
Create(b, content, whole, exec) ==
  bin' = [content |-> content, whole |-> whole, exec |-> exec, by |-> b]

\* tmux and a version were found: from source when there is a Go toolchain, else
\* for a platform that has an asset.
Begin(b) ==
  /\ \E path \in {"compile", "asset"} : Goto(b, "new", path)
  /\ LET others == {c \in Builds : step[c] \in Running} IN
       beside' = beside \cup IF others = {} THEN {} ELSE others \cup {b}
  /\ UNCHANGED <<outside, bin, work>>

\* go build renames its output to bin/toggle-popup, or removes what is there,
\* creates an executable file and copies.
Compile(b) ==
  /\ Goto(b, "compile", IF rename THEN "installed" ELSE "compiling")
  /\ Create(b, Compiled, rename, TRUE)
  /\ UNCHANGED <<outside, work, beside>>

\* The copy is complete.  Another run may have replaced the file meanwhile, and it
\* went to one that has no name any more.
CompileCopied(b) ==
  /\ Goto(b, "compiling", "installed")
  /\ bin' = IF bin.by = b THEN [bin EXCEPT !.whole = TRUE] ELSE bin
  /\ UNCHANGED <<outside, work, beside>>

\* Mutant: curl writes the binary's own path.
DownloadInPlace(b) ==
  /\ Goto(b, "asset", "checksums")
  /\ \E got \in {release.asset, Garbled} :
       /\ work' = [work EXCEPT ![b].asset = got]
       /\ Create(b, got, TRUE, FALSE)
  /\ UNCHANGED <<outside, beside>>

\* Mutant: curl without -f takes an error page for the file.
ChecksumsErrorPage(b) ==
  /\ Goto(b, "checksums", "verify")
  /\ \E got \in {release.entry, NoEntry, Garbled} : work' = [work EXCEPT ![b].entry = got]
  /\ UNCHANGED <<outside, bin, beside>>

\* The two downloads: each takes what the release has at that time.
DownloadAsset(b) ==
  /\ Goto(b, "asset", "checksums")
  /\ \E got \in {release.asset, Garbled} : work' = [work EXCEPT ![b].asset = got]
  /\ UNCHANGED <<outside, bin, beside>>

DownloadChecksums(b) ==
  /\ Goto(b, "checksums", "verify")
  /\ \E got \in {release.entry, NoEntry} : work' = [work EXCEPT ![b].entry = got]
  /\ UNCHANGED <<outside, bin, beside>>

\* Mutant: an entry is enough.
VerifyEntry(b) ==
  /\ work[b].entry # NoEntry
  /\ Goto(b, "verify", "mv")
  /\ UNCHANGED <<outside, bin, work, beside>>

\* The asset has the checksum of its entry.
Verify(b) ==
  /\ work[b].entry # NoEntry
  /\ work[b].asset = work[b].entry
  /\ Goto(b, "verify", "mv")
  /\ UNCHANGED <<outside, bin, work, beside>>

\* mv, of a file curl created and so not executable.  It renames, or removes what
\* is there and copies.
Move(b) ==
  /\ Goto(b, "mv", IF rename THEN "chmod" ELSE "copying")
  /\ Create(b, work[b].asset, rename, FALSE)
  /\ UNCHANGED <<outside, work, beside>>

\* At its end mv gives the file it created the mode of its source.
Copied(b) ==
  /\ Goto(b, "copying", "chmod")
  /\ bin' = IF bin.by = b THEN [bin EXCEPT !.whole = TRUE, !.exec = FALSE] ELSE bin
  /\ UNCHANGED <<outside, work, beside>>

\* Mutant: the mode is left as mv made it.
LeaveMode(b) ==
  /\ Goto(b, "chmod", "installed")
  /\ UNCHANGED <<outside, bin, work, beside>>

\* chmod +x, of the file that has the name by now.
MakeExecutable(b) ==
  /\ bin.content # Absent
  /\ Goto(b, "chmod", "installed")
  /\ bin' = [bin EXCEPT !.exec = TRUE]
  /\ UNCHANGED <<outside, work, beside>>

\* A requirement is missing, a command fails (set -e), or the run is killed.
Stop(b) ==
  /\ step[b] \in {"new"} \cup Running
  /\ Goto(b, step[b], IF step[b] \in Installing THEN "broken" ELSE "failed")
  /\ UNCHANGED <<outside, bin, work, beside>>

\* It stops when the old file is removed and the new one not created, or go build
\* removes the copy it could not finish.
StopRemoved(b) ==
  /\ ~rename
  /\ step[b] \in {"compile", "compiling", "mv"}
  /\ Goto(b, step[b], "broken")
  /\ bin' = NoFile
  /\ UNCHANGED <<outside, work, beside>>

\* The release of the version is published again, one file after the other.
Upload(u) ==
  /\ \/ release' = [release EXCEPT !.asset = u] /\ UNCHANGED published
     \/ release' = [release EXCEPT !.entry = u] /\ published' = published \cup {u}
  /\ UNCHANGED <<rename, bin, step, work, last, beside>>

Next ==
  \/ \E b \in Builds :
       \/ Begin(b) \/ Compile(b) \/ CompileCopied(b)
       \/ DownloadAsset(b) \/ DownloadChecksums(b) \/ Verify(b)
       \/ Move(b) \/ Copied(b) \/ MakeExecutable(b)
       \/ Stop(b) \/ StopRemoved(b)
  \/ \E u \in Uploads : Upload(u)

Spec == Init /\ [][Next]_vars

-------------------------------------------------------------------------------
(* What makes the install step correct. *)

\* Herdr can run the binary.
Usable == bin.whole /\ bin.exec /\ bin.content \in Uploads \cup {Compiled, Previous}

\* "Builds from source when a Go toolchain is available, otherwise downloads a
\* checksum-verified prebuilt binary": no other content becomes executable, whatever
\* the network delivers, however the release changes between the downloads, and
\* however runs overlap.  An incomplete one does in two ways, both by a copy to
\* another file system: go build creates its copy executable, and where two runs
\* overlap the chmod of one (build.sh:116) meets the copy of the other's mv
\* (build.sh:115).
OnlyVerifiedRuns ==
  bin.exec =>
    /\ bin.content \in published \cup {Compiled, Previous}
    /\ bin.whole \/ (~rename /\ (bin.content = Compiled \/ bin.by \in beside))

\* A run that does not get past its checks leaves the plugin working, also beside
\* other runs: the binary is unusable only while a run installs, or after one broke
\* off doing so.
FailuresKeepBinary ==
  (\A b \in Builds : step[b] \notin Installing \cup {"broken"}) => Usable

\* Running the script again repairs what a broken-off run left: once no run is
\* going on and the one that ended last succeeded, the plugin works; where files are
\* copied, only if no other ran beside that one.
RerunRepairs ==
  /\ last.how = "installed"
  /\ rename \/ last.run \notin beside
  /\ \A b \in Builds : step[b] \notin Running
  => Usable

(* What these rest on. *)

\* A checksum in a work_dir was published once, and a run past its check has
\* the asset of that checksum.
Verified ==
  /\ release.entry \in published \cup {NoEntry}
  /\ \A b \in Builds :
       /\ work[b].entry \in published \cup {NoEntry}
       /\ step[b] \in {"mv", "copying", "chmod"} =>
            work[b].asset = work[b].entry /\ work[b].entry # NoEntry

\* Runs that run at the same time know of each other.
Together ==
  \A b, c \in Builds : step[b] \in Running /\ step[c] \in Running /\ b # c => b \in beside

\* The file, whole or not, is what was there, was compiled or was verified.
FromSource ==
  /\ bin = NoFile \/ bin.content \in published \cup {Compiled, Previous}
  /\ bin.by = Nobody => bin = NoFile \/ (bin.whole /\ bin.exec)

\* Only its own run, or one that broke off, leaves it incomplete, and only a run
\* beside it makes such a file executable, unless go build created it.
Incomplete ==
  ~bin.whole /\ bin # NoFile =>
    /\ ~rename /\ bin.by \in Builds
    /\ \/ bin.content = Compiled /\ step[bin.by] \in {"compiling", "broken"}
       \/ step[bin.by] \in {"copying", "broken"} /\ (bin.exec => bin.by \in beside)

\* A run that has created the file finds it in place until another one beside it
\* replaces it.
OwnFile ==
  \A b \in Builds :
    /\ step[b] \in {"compiling", "copying", "chmod"} =>
         bin.by = b \/ (b \in beside /\ bin.by \in beside \cup {Nobody})
    /\ step[b] = "compiling" /\ bin.by = b => bin.exec
    /\ step[b] \in {"compiling", "copying"} => ~rename

\* The file is not executable only between its run's mv and chmod, or when that
\* run broke off there; it is missing only after a run broke off.
NotReady ==
  /\ bin.whole /\ ~bin.exec => bin.by \in Builds /\ step[bin.by] \in {"chmod", "broken"}
  /\ bin = NoFile => ~rename /\ \E b \in Builds : step[b] = "broken"

BuildInv ==
  /\ TypeOK /\ Verified /\ Together /\ FromSource /\ Incomplete /\ OwnFile /\ NotReady
  /\ RerunRepairs
===============================================================================
