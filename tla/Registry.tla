------------------------------- MODULE Registry -------------------------------
(***************************************************************************)
(* state.Store (internal/state/state.go) at the level of the file system:   *)
(* popups.json, its backups, the temporary file each writer renames, and    *)
(* the lock, shared by the plugin's processes.  A system call is a step.    *)
(***************************************************************************)
EXTENDS PopupEntries, Naturals

CONSTANTS
  Procs,       \* processes of the plugin, by pid
  Idle,        \* the request of a process that asks for nothing
  Junk,        \* contents of popups.json that decodeRegistry refuses
  Absent,      \* no such file
  Partial,     \* a file created and not completely written
  Nobody,      \* the holder of a free lock, the pid of a name without one
  MaxClock,    \* bound: the clock stops at this Unix second
  Locked       \* TRUE: every operation runs inside WithLock; FALSE: none does

VARIABLES
  file,        \* popups.json
  backups,     \* popups.json.bak.<second> and popups.json.bak.<second>.<pid>
  lock,        \* the process that holds the flock on popups.lock
  clock,       \* time.Now().Unix()
  step,        \* the system call each process makes next
  request,     \* the Store operation it executes
  seen,        \* the registry its Read returned, then the one it writes
  temp,        \* its .popups.json.tmp.*
  backup,      \* the name its backupPath returned
  failed       \* its operation ended with an error

disk == <<file, backups>>
local == <<seen, temp, backup, failed>>
registryVars == <<disk, lock, clock, step, request, local>>

Resetting == {"resetCreate", "resetWrite", "resetRename"}
Storing == {"create", "write", "rename"}
Steps == {"idle", "lock", "read", "backupPath", "moveAside", "return"}
           \cup Resetting \cup Storing

\* A backup's name: the second, and the pid when the plain name was taken.
Names == (0..MaxClock) \X (Procs \cup {Nobody})

ASSUME RegistryAssumption ==
  /\ MaxClock \in Nat
  /\ Locked \in BOOLEAN
  /\ Nobody \notin Procs
  /\ Absent \notin Junk /\ Partial \notin Junk /\ Absent # Partial
  /\ ({Absent, Partial} \cup Junk) \cap Registries = {}
  /\ Idle \notin Requests

\* popups.json is a whole document or an old corrupt one: no step of the
\* plugin, and no crash, leaves it half written.
RegistryTypeOK ==
  /\ file \in Registries \cup Junk \cup {Absent}
  /\ backups \in [Names -> Registries \cup Junk \cup {Absent}]
  /\ lock \in Procs \cup {Nobody}
  /\ clock \in 0..MaxClock
  /\ step \in [Procs -> Steps]
  /\ request \in [Procs -> Requests \cup {Idle}]
  /\ \A p \in Procs : (step[p] = "idle") <=> (request[p] = Idle)
  /\ seen \in [Procs -> Registries]
  /\ temp \in [Procs -> Registries \cup {Absent, Partial}]
  /\ backup \in [Procs -> Names]
  /\ failed \in [Procs -> BOOLEAN]
  /\ \A p \in Procs : failed[p] => step[p] \in {"idle", "return"}

\* The registry an earlier release left, or none, or a corrupt file.
RegistryInit ==
  /\ file \in Registries \cup Junk \cup {Absent}
  /\ backups = [n \in Names |-> Absent]
  /\ lock = Nobody
  /\ clock = 0
  /\ step = [p \in Procs |-> "idle"]
  /\ request = [p \in Procs |-> Idle]
  /\ seen = [p \in Procs |-> Empty]
  /\ temp = [p \in Procs |-> Absent]
  /\ backup = [p \in Procs |-> <<0, Nobody>>]
  /\ failed = [p \in Procs |-> FALSE]

-------------------------------------------------------------------------------
Goto(p, from, to) ==
  /\ step[p] = from
  /\ step' = [step EXCEPT ![p] = to]
  /\ UNCHANGED <<request, clock>>

\* Where a process goes with the registry Read returned.
AfterRead(p, reg) == IF Writes(request[p], reg) THEN "create" ELSE "return"

\* An operation is called, inside WithLock or not.
Begin(p, r) ==
  /\ step[p] = "idle"
  /\ step' = [step EXCEPT ![p] = IF Locked THEN "lock" ELSE "read"]
  /\ request' = [request EXCEPT ![p] = r]
  /\ seen' = [seen EXCEPT ![p] = Empty]
  /\ failed' = [failed EXCEPT ![p] = FALSE]
  /\ UNCHANGED <<disk, lock, clock, temp, backup>>

\* Mutant: a shared lock, LOCK_SH, which keeps nobody out.
AcquireShared(p) ==
  /\ Goto(p, "lock", "read")
  /\ lock' = p
  /\ UNCHANGED <<disk, local>>

\* syscall.Flock(LOCK_EX) blocks until the lock is free.
Acquire(p) ==
  /\ Goto(p, "lock", "read")
  /\ lock = Nobody
  /\ lock' = p
  /\ UNCHANGED <<disk, local>>

\* Read: a missing file is the default registry, a valid one is returned, and a
\* corrupt one sends the process to its recovery.
ReadFile(p) ==
  LET reg == IF file = Absent THEN Empty ELSE file IN
  /\ file \notin Junk
  /\ Goto(p, "read", AfterRead(p, reg))
  /\ seen' = [seen EXCEPT ![p] = reg]
  /\ UNCHANGED <<disk, lock, temp, backup, failed>>

ReadCorrupt(p) ==
  /\ file \in Junk
  /\ Goto(p, "read", "backupPath")
  /\ UNCHANGED <<disk, lock, local>>

\* Mutant: the name of the second only.
BackupPathWithoutPid(p) ==
  /\ Goto(p, "backupPath", "moveAside")
  /\ backup' = [backup EXCEPT ![p] = <<clock, Nobody>>]
  /\ UNCHANGED <<disk, lock, seen, temp, failed>>

\* backupPath: the pid is appended when the second's name exists.
BackupPath(p) ==
  LET plain == <<clock, Nobody>> IN
  /\ Goto(p, "backupPath", "moveAside")
  /\ backup' = [backup EXCEPT ![p] = IF backups[plain] = Absent THEN plain ELSE <<clock, p>>]
  /\ UNCHANGED <<disk, lock, seen, temp, failed>>

\* rename(file, backup) takes whatever popups.json is by now, and replaces
\* whatever the backup's name holds.
MoveAside(p) ==
  /\ file # Absent
  /\ Goto(p, "moveAside", "resetCreate")
  /\ backups' = [backups EXCEPT ![backup[p]] = file]
  /\ file' = Absent
  /\ seen' = [seen EXCEPT ![p] = Empty]
  /\ UNCHANGED <<lock, temp, backup, failed>>

\* The file is gone, or the rename fails: Read aborts without a reset.
MoveAsideFails(p) ==
  /\ Goto(p, "moveAside", "return")
  /\ failed' = [failed EXCEPT ![p] = TRUE]
  /\ UNCHANGED <<disk, lock, seen, temp, backup>>

-------------------------------------------------------------------------------
\* Mutant: popups.json is opened and written in place.
CreateInPlace(p) ==
  /\ \/ Goto(p, "resetCreate", "resetWrite")
     \/ Goto(p, "create", "write")
  /\ temp' = [temp EXCEPT ![p] = Partial]
  /\ file' = Partial
  /\ UNCHANGED <<backups, lock, seen, backup, failed>>

\* WriteRegistry, for the reset of Read and for the operation itself: create a
\* temporary file, write it, rename it over popups.json.
CreateTemp(p) ==
  /\ \/ Goto(p, "resetCreate", "resetWrite")
     \/ Goto(p, "create", "write")
  /\ temp' = [temp EXCEPT ![p] = Partial]
  /\ UNCHANGED <<disk, lock, seen, backup, failed>>

WriteTemp(p) ==
  /\ \/ /\ Goto(p, "resetWrite", "resetRename")
        /\ temp' = [temp EXCEPT ![p] = Empty]
     \/ /\ Goto(p, "write", "rename")
        /\ temp' = [temp EXCEPT ![p] = Apply(request[p], seen[p])]
  /\ UNCHANGED <<disk, lock, seen, backup, failed>>

RenameTemp(p) ==
  /\ \/ Goto(p, "resetRename", AfterRead(p, Empty))
     \/ Goto(p, "rename", "return")
  /\ file' = temp[p]
  /\ temp' = [temp EXCEPT ![p] = Absent]
  /\ UNCHANGED <<backups, lock, seen, backup, failed>>

\* An error of the file system: WithLock cannot open or lock its file, ReadFile
\* fails with another error than ErrNotExist, or a step of WriteRegistry fails
\* and the temporary file is removed.
Fail(p) ==
  /\ step[p] \in {"lock", "read"} \cup Resetting \cup Storing
  /\ Goto(p, step[p], "return")
  /\ temp' = [temp EXCEPT ![p] = Absent]
  /\ failed' = [failed EXCEPT ![p] = TRUE]
  /\ UNCHANGED <<disk, lock, seen, backup>>

\* Mutant: the early returns on an error leave the lock held.
ReleaseOnSuccess(p) == lock' = IF lock = p /\ ~failed[p] THEN Nobody ELSE lock

\* The operation returns; the deferred calls of WithLock free the lock.
Release(p) == lock' = IF lock = p THEN Nobody ELSE lock

Return(p) ==
  /\ step[p] = "return"
  /\ step' = [step EXCEPT ![p] = "idle"]
  /\ request' = [request EXCEPT ![p] = Idle]
  /\ Release(p)
  /\ UNCHANGED <<disk, clock, local>>

\* The process dies: the kernel drops its lock; its temporary file stays on
\* disk under a name nothing reads.
Crash(p) ==
  /\ step[p] # "idle"
  /\ step' = [step EXCEPT ![p] = "idle"]
  /\ request' = [request EXCEPT ![p] = Idle]
  /\ temp' = [temp EXCEPT ![p] = Absent]
  /\ Release(p)
  /\ UNCHANGED <<disk, clock, seen, backup, failed>>

Tick ==
  /\ clock < MaxClock
  /\ clock' = clock + 1
  /\ UNCHANGED <<disk, lock, step, request, local>>

\* What a process does between an operation's call and its return.
SystemCall(p) ==
  \/ Acquire(p) \/ ReadFile(p) \/ ReadCorrupt(p) \/ BackupPath(p)
  \/ MoveAside(p) \/ MoveAsideFails(p)
  \/ CreateTemp(p) \/ WriteTemp(p) \/ RenameTemp(p)

Operate(p) == SystemCall(p) \/ Fail(p)

RegistryNext ==
  \/ \E p \in Procs, r \in Requests : Begin(p, r)
  \/ \E p \in Procs : Operate(p) \/ Return(p) \/ Crash(p)
  \/ Tick

\* The content j is on disk, in popups.json or in a backup.
Kept(j) == file = j \/ \E n \in Names : backups[n] = j

\* Something that is not a Store, an editor say, leaves a corrupt popups.json
\* between two operations.  Bound: each content appears once.
Spoil(j) ==
  /\ \A p \in Procs : step[p] = "idle"
  /\ file \notin Junk
  /\ ~Kept(j)
  /\ file' = j
  /\ UNCHANGED <<backups, lock, clock, step, request, local>>

RegistrySpec ==
  RegistryInit /\ [][RegistryNext \/ \E j \in Junk : Spoil(j)]_registryVars

-------------------------------------------------------------------------------
(* What makes the registry correct. *)

\* The Store implements a map with one-step operations: the document of
\* popups.json, empty while it is missing or corrupt.  An operation that returns
\* has taken effect once, on the map as it was at one moment of the call, or has
\* reported an error and changed nothing.  A read-modify-write on a stale read, and a
\* recovery that drops another process's entry, are what "callers use [WithLock] to
\* cover" the operations against.
Document == IF file \in Junk \cup {Absent} THEN Empty ELSE file

Result ==
  [p \in Procs |->
     [is |-> IF step[p] # "return" THEN "pending" ELSE IF failed[p] THEN "failed" ELSE "done",
      got |-> IF step[p] = "return" /\ ~failed[p] /\ request[p].op = "get" THEN seen[p] ELSE Empty]]

Atomic == INSTANCE AtomicRegistry WITH registry <- Document, result <- Result

ImplementsAtomicRegistry == Atomic!Spec

\* "A corrupt or malformed file is backed up": a content that decodeRegistry
\* refuses stays on disk, in the file or in a backup, through recoveries of
\* several processes within a second, failures and crashes.
CorruptKept == [][\A j \in Junk : Kept(j) => Kept(j)']_registryVars

\* The recovery moves only a corrupt document aside, never the registry another
\* process has just restored.
OnlyCorruptMovedAside ==
  \A n \in Names : backups[n] \in Junk \cup {Absent}

\* "The lock is always released before WithLock returns", on every error path and
\* when the process dies: only a process inside an operation holds it, and the one
\* that waits for it does not hold it already.
LockReleased == \A p \in Procs : lock = p => step[p] \notin {"idle", "lock"}

(* What these rest on. *)

\* A temporary file is renamed when it is whole.
TempWhole ==
  \A p \in Procs : step[p] \in {"resetRename", "rename"} => temp[p] \in Registries

\* Inside WithLock an operation holds the lock from its first read to its last
\* rename.
Holding == {"read", "backupPath", "moveAside"} \cup Resetting \cup Storing
LockHeld == \A p \in Procs : step[p] \in Holding => lock = p

\* So one operation at a time does, which is all the Store needs, whatever keeps
\* operations apart.
Exclusive == \A p, q \in Procs : step[p] \in Holding /\ step[q] \in Holding => p = q

\* So what a process knows of the file is so: that it is corrupt until it has
\* moved it aside, that it is gone until the reset, and what it has read of it.
KnowsFile(p) ==
  /\ step[p] \in {"backupPath", "moveAside"} => file \in Junk
  /\ step[p] \in Resetting => file = Absent /\ seen[p] = Empty
  /\ step[p] = "resetRename" => temp[p] = Empty
  /\ step[p] \in Storing => file \notin Junk /\ seen[p] = IF file = Absent THEN Empty ELSE file
  /\ step[p] = "rename" => temp[p] = Apply(request[p], seen[p])

LockedInv == LockHeld /\ \A p \in Procs : KnowsFile(p)

\* A process that recovers has a name left in its second: the plain one, or that
\* with its pid, which only it takes.
NamesLeft ==
  \A p \in Procs : step[p] = "backupPath" =>
    backups[<<clock, Nobody>>] = Absent \/ backups[<<clock, p>>] = Absent

\* As it has when there are no more corrupt contents than these two names.
TwoContents == \A i, j, k \in Junk : i = j \/ j = k \/ i = k

\* Each content is in one place, and the name of a backup is free until it is
\* taken.
OnePlace ==
  \A j \in Junk, n \in Names : backups[n] = j =>
    /\ file # j
    /\ \A m \in Names : backups[m] = j => m = n

NameFree(p) == step[p] = "moveAside" => backups[backup[p]] = Absent

===============================================================================
