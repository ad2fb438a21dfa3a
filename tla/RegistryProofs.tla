---------------------------- MODULE RegistryProofs ----------------------------
(***************************************************************************)
(* Theorems of Registry for every set of processes, keys, panes and corrupt *)
(* contents.                                                                *)
(***************************************************************************)
EXTENDS Registry, TLAPS

USE DEF Resetting, Storing, Steps

-------------------------------------------------------------------------------
(* The documents. *)

\* Every operation makes a registry of a registry.
LEMMA ApplyType ==
  ASSUME NEW r \in Requests, NEW reg \in Registries
  PROVE  Apply(r, reg) \in Registries
<1>1. PICK ks \in SUBSET Keys : reg \in [ks -> Entry]
  BY DEF Registries
<1>2. \A js \in SUBSET Keys : \A f \in [js -> Entry] : f \in Registries
  <2> TAKE js \in SUBSET Keys
  <2> TAKE f \in [js -> Entry]
  <2>1. [js -> Entry] \in {[hs -> Entry] : hs \in SUBSET Keys}
    OBVIOUS
  <2> QED
    BY <2>1 DEF Registries
<1>3. \A drop : Without(reg, drop) \in Registries
  <2> TAKE drop
  <2>1. ks \ drop \in SUBSET Keys /\ Without(reg, drop) \in [ks \ drop -> Entry]
    BY <1>1 DEF Without
  <2> QED
    BY <1>2, <2>1
<1>4. CASE r.op = "get"
  BY <1>4 DEF Apply
<1>5. CASE r.op = "set"
  <2>1. r.key \in Keys /\ r.pane \in Panes
    BY <1>5 DEF Requests
  <2>2. [pane |-> r.pane, hidden |-> FALSE] \in Entry
    BY <2>1 DEF Entry
  <2>3. /\ ks \cup {r.key} \in SUBSET Keys
        /\ With(reg, r.key, [pane |-> r.pane, hidden |-> FALSE]) \in [ks \cup {r.key} -> Entry]
    BY <1>1, <2>1, <2>2 DEF With
  <2> QED
    BY <1>2, <1>5, <2>3 DEF Apply
<1>6. CASE r.op = "setHidden"
  <2>1. r.hidden \in BOOLEAN
    BY <1>6 DEF Requests
  <2>2. CASE r.key \in DOMAIN reg
    <3>1. [reg[r.key] EXCEPT !.hidden = r.hidden] \in Entry
      BY <1>1, <2>1, <2>2 DEF Entry
    <3>2. [reg EXCEPT ![r.key].hidden = r.hidden] \in [ks -> Entry]
      BY <1>1, <3>1
    <3> QED
      BY <1>2, <1>6, <2>2, <3>2 DEF Apply
  <2> QED
    BY <1>6, <2>2 DEF Apply
<1>7. CASE r.op \in {"delete", "deleteByPane", "deleteVisibleByPane"}
  BY <1>3, <1>7 DEF Apply
<1> QED
  BY <1>4, <1>5, <1>6, <1>7 DEF Requests

LEMMA EmptyType == Empty \in Registries
<1>1. Empty \in [{} -> Entry]
  BY DEF Empty
<1> QED
  BY <1>1 DEF Registries

-------------------------------------------------------------------------------
(* Types. *)

LEMMA RegistryTypeInit == RegistryInit => RegistryTypeOK /\ TempWhole
BY EmptyType, RegistryAssumption DEF RegistryInit, RegistryTypeOK, TempWhole, Names

TypeAndTemp == RegistryTypeOK /\ TempWhole

LEMMA SystemCallType ==
  ASSUME TypeAndTemp, NEW p \in Procs, Operate(p)
  PROVE  TypeAndTemp'
<1> USE DEF TypeAndTemp, RegistryTypeOK, TempWhole, Goto, disk, local
<1>1. CASE Acquire(p)
  BY <1>1 DEF Acquire
<1>2. CASE ReadFile(p)
  BY <1>2, EmptyType DEF ReadFile, AfterRead
<1>3. CASE ReadCorrupt(p)
  BY <1>3 DEF ReadCorrupt
<1>4. CASE BackupPath(p)
  BY <1>4 DEF BackupPath, Names
<1>5. CASE MoveAside(p)
  BY <1>5, EmptyType DEF MoveAside
<1>6. CASE MoveAsideFails(p)
  BY <1>6 DEF MoveAsideFails
<1>7. CASE CreateTemp(p)
  BY <1>7 DEF CreateTemp
<1>8. CASE WriteTemp(p)
  <2>1. step[p] = "write" => Apply(request[p], seen[p]) \in Registries
    BY ApplyType
  <2> QED
    BY <1>8, <2>1, EmptyType DEF WriteTemp
<1>9. CASE RenameTemp(p)
  BY <1>9 DEF RenameTemp, AfterRead
<1>10. CASE Fail(p)
  BY <1>10 DEF Fail
<1> QED
  BY <1>1, <1>2, <1>3, <1>4, <1>5, <1>6, <1>7, <1>8, <1>9, <1>10 DEF Operate, SystemCall

LEMMA RegistryTypeNext ==
  ASSUME TypeAndTemp, [RegistryNext]_registryVars
  PROVE  TypeAndTemp'
<1> USE DEF TypeAndTemp, RegistryTypeOK, TempWhole, disk, local
<1>1. ASSUME NEW p \in Procs, NEW r \in Requests, Begin(p, r) PROVE TypeAndTemp'
  BY <1>1, EmptyType, RegistryAssumption DEF Begin
<1>2. ASSUME NEW p \in Procs, Return(p) PROVE TypeAndTemp'
  BY <1>2 DEF Return, Release
<1>3. ASSUME NEW p \in Procs, Crash(p) PROVE TypeAndTemp'
  BY <1>3 DEF Crash, Release
<1>4. CASE Tick
  BY <1>4, RegistryAssumption DEF Tick
<1>5. CASE UNCHANGED registryVars
  BY <1>5 DEF registryVars
<1> QED
  BY <1>1, <1>2, <1>3, <1>4, <1>5, SystemCallType DEF RegistryNext

\* The steps of the plugin and of another program that corrupts the file.
Spoiled == RegistryNext \/ \E j \in Junk : Spoil(j)

LEMMA SpoiledType ==
  ASSUME TypeAndTemp, [Spoiled]_registryVars
  PROVE  TypeAndTemp'
<1>1. ASSUME NEW j \in Junk, Spoil(j) PROVE TypeAndTemp'
  BY <1>1 DEF Spoil, TypeAndTemp, RegistryTypeOK, TempWhole, local
<1> QED
  BY <1>1, RegistryTypeNext DEF Spoiled

\* popups.json is a whole document, a corrupt one or none, with or without the
\* lock, whatever fails and whoever dies.
THEOREM RegistryTypeCorrect == RegistrySpec => []RegistryTypeOK
<1>1. RegistryInit => TypeAndTemp
  BY RegistryTypeInit DEF TypeAndTemp
<1>2. TypeAndTemp /\ [Spoiled]_registryVars => TypeAndTemp'
  BY SpoiledType
<1> QED
  BY <1>1, <1>2, PTL DEF RegistrySpec, Spoiled, TypeAndTemp

-------------------------------------------------------------------------------
(* The lock. *)

\* An operation that has returned, or whose process has died, holds no lock: it is
\* taken in one place, and every way out of the operation frees it.
THEOREM LockIsReleased == RegistrySpec => []LockReleased
<1>1. RegistryInit => LockReleased
  BY RegistryAssumption DEF RegistryInit, LockReleased
<1>2. RegistryTypeOK /\ LockReleased /\ [Spoiled]_registryVars => LockReleased'
  <2> SUFFICES ASSUME RegistryTypeOK, LockReleased, [Spoiled]_registryVars PROVE LockReleased'
    OBVIOUS
  <2> USE DEF LockReleased, RegistryTypeOK
  <2>1. ASSUME NEW p \in Procs, NEW r \in Requests, Begin(p, r) PROVE LockReleased'
    BY <2>1 DEF Begin
  <2>2. ASSUME NEW p \in Procs, Acquire(p) PROVE LockReleased'
    BY <2>2 DEF Acquire, Goto
  <2>3. ASSUME NEW p \in Procs, Operate(p), ~Acquire(p) PROVE LockReleased'
    <3>1. lock' = lock /\ step'[p] \notin {"idle", "lock"} /\ \A q \in Procs : q # p => step'[q] = step[q]
      BY <2>3 DEF Operate, SystemCall, ReadFile, ReadCorrupt, BackupPath, MoveAside,
         MoveAsideFails, CreateTemp, WriteTemp, RenameTemp, Fail, Goto, AfterRead
    <3> QED
      BY <3>1
  <2>4. ASSUME NEW p \in Procs, Return(p) \/ Crash(p) PROVE LockReleased'
    BY <2>4, RegistryAssumption DEF Return, Crash, Release
  <2>5. CASE Tick \/ UNCHANGED registryVars \/ \E j \in Junk : Spoil(j)
    BY <2>5 DEF Tick, Spoil, registryVars
  <2> QED
    BY <2>1, <2>2, <2>3, <2>4, <2>5 DEF Spoiled, RegistryNext
<1> QED
  BY <1>1, <1>2, RegistryTypeCorrect, PTL DEF RegistrySpec, Spoiled

-------------------------------------------------------------------------------
(* One operation at a time. *)

Known == TypeAndTemp /\ \A p \in Procs : KnowsFile(p)

\* A step of one process that leaves the file and another's variables alone
\* leaves what the other knows.
LEMMA KnowsFrame ==
  ASSUME NEW q \in Procs, KnowsFile(q), file' = file, step'[q] = step[q],
         request'[q] = request[q], seen'[q] = seen[q], temp'[q] = temp[q]
  PROVE  KnowsFile(q)'
BY DEF KnowsFile

LEMMA KnowsSystemCall ==
  ASSUME Known, Exclusive, NEW p \in Procs, Operate(p)
  PROVE  \A q \in Procs : KnowsFile(q)'
<1> USE DEF Goto
<1>t. RegistryTypeOK /\ TempWhole /\ (\A q \in Procs : KnowsFile(q))
  BY DEF Known, TypeAndTemp
<1>1. \A q \in Procs : q # p =>
        /\ step'[q] = step[q] /\ request'[q] = request[q]
        /\ seen'[q] = seen[q] /\ temp'[q] = temp[q]
  BY <1>t DEF Operate, SystemCall, Acquire, ReadFile, ReadCorrupt, BackupPath, MoveAside,
     MoveAsideFails, CreateTemp, WriteTemp, RenameTemp, Fail, AfterRead, RegistryTypeOK, local
<1>2. \A q \in Procs : q # p => KnowsFile(q)'
  <2> SUFFICES ASSUME NEW q \in Procs, q # p PROVE KnowsFile(q)'
    OBVIOUS
  <2>1. CASE file' = file
    BY <1>1, <1>t, <2>1, KnowsFrame
  <2>2. CASE file' # file
    <3>1. step[p] \in Holding
      BY <2>2 DEF Operate, SystemCall, Acquire, ReadFile, ReadCorrupt, BackupPath, MoveAside,
         MoveAsideFails, CreateTemp, WriteTemp, RenameTemp, Fail, Holding, disk
    <3>2. step'[q] \notin Holding
      BY <1>1, <3>1 DEF Exclusive
    <3> QED
      BY <3>2 DEF KnowsFile, Holding
  <2> QED
    BY <2>1, <2>2
<1>3. KnowsFile(p)'
  <2> USE <1>t DEF KnowsFile, RegistryTypeOK
  <2>1. CASE Acquire(p) \/ MoveAsideFails(p) \/ Fail(p)
    BY <2>1 DEF Acquire, MoveAsideFails, Fail
  <2>2. CASE ReadFile(p)
    BY <2>2 DEF ReadFile, AfterRead, disk
  <2>3. CASE ReadCorrupt(p) \/ BackupPath(p)
    BY <2>3 DEF ReadCorrupt, BackupPath, disk, local
  <2>4. CASE MoveAside(p)
    BY <2>4 DEF MoveAside
  <2>5. CASE CreateTemp(p)
    BY <2>5 DEF CreateTemp, disk
  <2>6. CASE WriteTemp(p)
    BY <2>6 DEF WriteTemp, disk
  <2>7. CASE RenameTemp(p)
    <3>1. Empty \notin Junk \cup {Absent}
      BY RegistryAssumption, EmptyType
    <3> QED
      BY <2>7, <3>1 DEF RenameTemp, AfterRead
  <2> QED
    BY <2>1, <2>2, <2>3, <2>4, <2>5, <2>6, <2>7 DEF Operate, SystemCall
<1> QED
  BY <1>2, <1>3

\* What processes know of the file stays so while one at a time operates on it.
LEMMA KnownNext ==
  ASSUME Known, Exclusive, [RegistryNext]_registryVars
  PROVE  Known'
<1>t. RegistryTypeOK /\ \A q \in Procs : KnowsFile(q)
  BY DEF Known, TypeAndTemp
<1>1. ASSUME NEW p \in Procs, step'[p] \notin Holding, file' = file,
             \A q \in Procs : q # p =>
               /\ step'[q] = step[q] /\ request'[q] = request[q]
               /\ seen'[q] = seen[q] /\ temp'[q] = temp[q]
      PROVE  \A q \in Procs : KnowsFile(q)'
  <2> SUFFICES ASSUME NEW q \in Procs PROVE KnowsFile(q)'
    OBVIOUS
  <2>1. CASE q = p
    BY <1>1, <2>1 DEF KnowsFile, Holding
  <2>2. CASE q # p
    BY <1>1, <1>t, <2>2, KnowsFrame
  <2> QED
    BY <2>1, <2>2
<1>2. ASSUME NEW p \in Procs, NEW r \in Requests, Begin(p, r) PROVE \A q \in Procs : KnowsFile(q)'
  <2>1. CASE Locked
    BY <1>1, <1>2, <1>t, <2>1 DEF Begin, RegistryTypeOK, Holding, disk
  <2>2. CASE ~Locked
    <3> SUFFICES ASSUME NEW q \in Procs PROVE KnowsFile(q)'
      OBVIOUS
    <3>1. CASE q = p
      BY <1>2, <1>t, <2>2, <3>1 DEF Begin, RegistryTypeOK, KnowsFile
    <3>2. CASE q # p
      BY <1>2, <1>t, <3>2, KnowsFrame DEF Begin, RegistryTypeOK, disk
    <3> QED
      BY <3>1, <3>2
  <2> QED
    BY <2>1, <2>2
<1>3. ASSUME NEW p \in Procs, Return(p) \/ Crash(p) PROVE \A q \in Procs : KnowsFile(q)'
  BY <1>1, <1>3, <1>t DEF Return, Crash, RegistryTypeOK, Holding, disk, local
<1>4. ASSUME Tick \/ UNCHANGED registryVars PROVE \A q \in Procs : KnowsFile(q)'
  <2>1. UNCHANGED <<file, step, request, seen, temp>>
    BY <1>4 DEF Tick, registryVars, disk, local
  <2> QED
    BY <1>t, <2>1 DEF KnowsFile
<1>5. \A q \in Procs : KnowsFile(q)'
  BY <1>2, <1>3, <1>4, KnowsSystemCall DEF RegistryNext
<1> QED
  BY <1>5, RegistryTypeNext DEF Known

LEMMA KnownInit == RegistryInit => Known
BY RegistryTypeInit DEF RegistryInit, Known, TypeAndTemp, KnowsFile

-------------------------------------------------------------------------------
(* Inside the lock. *)

Inside == TypeAndTemp /\ LockedInv

LEMMA LockExcludes == Inside => Known /\ Exclusive
BY DEF Inside, LockedInv, Known, LockHeld, Exclusive

LEMMA LockedNext ==
  ASSUME Locked, Inside, [RegistryNext]_registryVars
  PROVE  LockedInv'
<1>t. RegistryTypeOK /\ LockHeld
  BY DEF Inside, TypeAndTemp, LockedInv
<1> USE DEF LockHeld, Holding, RegistryTypeOK, Goto
<1>1. ASSUME NEW p \in Procs, Acquire(p) PROVE LockHeld'
  <2>1. step[p] = "lock" /\ lock' = p /\ step' = [step EXCEPT ![p] = "read"]
    BY <1>1 DEF Acquire
  <2>2. \A q \in Procs : q # p => step'[q] = step[q] /\ step[q] \notin Holding
    BY <1>t, <1>1, <2>1, RegistryAssumption DEF Acquire
  <2> QED
    BY <2>1, <2>2
<1>2. ASSUME NEW p \in Procs, Operate(p), ~Acquire(p) PROVE LockHeld'
  <2>1. lock' = lock
    BY <1>2 DEF Operate, SystemCall, ReadFile, ReadCorrupt, BackupPath, MoveAside,
       MoveAsideFails, CreateTemp, WriteTemp, RenameTemp, Fail
  <2>2. \A q \in Procs : step'[q] \in Holding => step[q] \in Holding
    BY <1>t, <1>2 DEF Operate, SystemCall, ReadFile, ReadCorrupt, BackupPath, MoveAside,
       MoveAsideFails, CreateTemp, WriteTemp, RenameTemp, Fail, AfterRead
  <2> QED
    BY <1>t, <2>1, <2>2
<1>3. ASSUME NEW p \in Procs, (\E r \in Requests : Begin(p, r)) \/ Return(p) \/ Crash(p)
      PROVE  LockHeld'
  BY <1>3, <1>t DEF Begin, Return, Crash, Release
<1>4. ASSUME Tick \/ UNCHANGED registryVars PROVE LockHeld'
  BY <1>t, <1>4 DEF Tick, registryVars
<1>5. LockHeld'
  BY <1>1, <1>2, <1>3, <1>4 DEF RegistryNext
<1> QED
  BY <1>5, LockExcludes, KnownNext DEF LockedInv, Known

LEMMA SpoilFrame ==
  ASSUME Known, NEW j \in Junk, Spoil(j)
  PROVE  Known' /\ Exclusive' /\ (LockedInv => LockedInv')
BY DEF Spoil, Known, TypeAndTemp, RegistryTypeOK, TempWhole, KnowsFile, Exclusive, LockedInv,
   LockHeld, Holding, Resetting, Storing, local

LEMMA InsideNext ==
  ASSUME Locked, Inside, [Spoiled]_registryVars
  PROVE  Inside'
<1>1. CASE \E j \in Junk : Spoil(j)
  BY <1>1, LockExcludes, SpoilFrame DEF Inside, Known
<1>2. CASE [RegistryNext]_registryVars
  BY <1>2, LockedNext, RegistryTypeNext DEF Inside
<1> QED
  BY <1>1, <1>2 DEF Spoiled

LEMMA InsideInit == RegistryInit => Inside
<1>1. RegistryInit => LockedInv
  BY DEF RegistryInit, LockedInv, LockHeld, KnowsFile, Holding
<1> QED
  BY <1>1, RegistryTypeInit DEF Inside, TypeAndTemp

LEMMA InsideInv == ASSUME Locked PROVE RegistrySpec => []Inside
<1>1. Inside /\ [Spoiled]_registryVars => Inside'
  BY InsideNext
<1> QED
  BY <1>1, InsideInit, PTL DEF RegistrySpec, Spoiled

\* One step changes the backups.
LEMMA BackupsFrame ==
  ASSUME [Spoiled]_registryVars, \A p \in Procs : ~MoveAside(p)
  PROVE  backups' = backups
BY DEF Spoiled, RegistryNext, Operate, SystemCall, Begin, Acquire, ReadFile, ReadCorrupt,
   BackupPath, MoveAsideFails, CreateTemp, WriteTemp, RenameTemp, Fail, Return, Crash, Tick,
   Spoil, registryVars, disk

LEMMA OnlyCorruptNext ==
  ASSUME Known, OnlyCorruptMovedAside, [Spoiled]_registryVars
  PROVE  OnlyCorruptMovedAside'
<1>1. ASSUME NEW p \in Procs, MoveAside(p) PROVE OnlyCorruptMovedAside'
  <2>1. file \in Junk
    BY <1>1 DEF MoveAside, Goto, Known, KnowsFile
  <2> QED
    BY <1>1, <2>1 DEF MoveAside, OnlyCorruptMovedAside, Known, TypeAndTemp, RegistryTypeOK
<1> QED
  BY <1>1, BackupsFrame DEF OnlyCorruptMovedAside

\* Inside WithLock only a corrupt document is moved aside, by any number of
\* processes.
THEOREM OnlyCorruptIsMoved ==
  ASSUME Locked
  PROVE  RegistrySpec => []OnlyCorruptMovedAside
<1>1. RegistryInit => OnlyCorruptMovedAside
  BY DEF RegistryInit, OnlyCorruptMovedAside
<1>2. Inside /\ OnlyCorruptMovedAside /\ [Spoiled]_registryVars => OnlyCorruptMovedAside'
  BY LockExcludes, OnlyCorruptNext
<1> QED
  BY <1>1, <1>2, InsideInv, PTL DEF RegistrySpec, Spoiled

-------------------------------------------------------------------------------
(* No corrupt content is lost. *)

KeptInv == Known /\ \A p \in Procs : NameFree(p)

\* The recovery finds a free name.
LEMMA FreeName ==
  ASSUME KeptInv, NamesLeft, NEW p \in Procs, BackupPath(p)
  PROVE  backup'[p] \in Names /\ backups[backup'[p]] = Absent
<1>t. RegistryTypeOK
  BY DEF KeptInv, Known, TypeAndTemp
<1>1. <<clock, Nobody>> \in Names /\ <<clock, p>> \in Names
  BY <1>t DEF RegistryTypeOK, Names
<1>2. backup'[p] = IF backups[<<clock, Nobody>>] = Absent THEN <<clock, Nobody>> ELSE <<clock, p>>
  BY <1>t DEF BackupPath, RegistryTypeOK
<1>3. step[p] = "backupPath"
  BY DEF BackupPath, Goto
<1> QED
  BY <1>1, <1>2, <1>3 DEF NamesLeft

\* Moving the file aside puts its content under that name and replaces nothing.
LEMMA MovedAside ==
  ASSUME KeptInv, NEW p \in Procs, MoveAside(p)
  PROVE  /\ file \in Junk /\ file' = Absent
         /\ backup[p] \in Names /\ backups[backup[p]] = Absent /\ backups'[backup[p]] = file
         /\ \A n \in Names : n # backup[p] => backups'[n] = backups[n]
<1>t. RegistryTypeOK /\ KnowsFile(p) /\ NameFree(p)
  BY DEF KeptInv, Known, TypeAndTemp
<1> QED
  BY <1>t DEF MoveAside, Goto, KnowsFile, NameFree, RegistryTypeOK

\* A rename replaces no corrupt file.
LEMMA RenamedOver ==
  ASSUME KeptInv, NEW p \in Procs, RenameTemp(p)
  PROVE  file \notin Junk /\ file' \notin Junk
<1>t. RegistryTypeOK /\ TempWhole /\ KnowsFile(p)
  BY DEF KeptInv, Known, TypeAndTemp
<1>1. step[p] \in {"resetRename", "rename"} /\ file' = temp[p]
  BY DEF RenameTemp, Goto
<1>2. file \notin Junk
  BY <1>t, <1>1, RegistryAssumption DEF KnowsFile, Resetting, Storing
<1>3. temp[p] \notin Junk
  BY <1>t, <1>1, RegistryAssumption DEF TempWhole
<1> QED
  BY <1>1, <1>2, <1>3

\* What becomes of the corrupt contents in one step: one moves from the file to a
\* free name, one comes into a file that is not corrupt, or all stay.
LEMMA ContentStep ==
  ASSUME KeptInv, [Spoiled]_registryVars
  PROVE  \/ \E p \in Procs : MoveAside(p)
         \/ backups' = backups /\ \E j \in Junk : ~Kept(j) /\ file \notin Junk /\ file' = j
         \/ backups' = backups /\ (file' = file \/ (file \notin Junk /\ file' \notin Junk))
<1>1. CASE \E j \in Junk : Spoil(j)
  BY <1>1 DEF Spoil
<1>2. CASE [RegistryNext]_registryVars /\ \A p \in Procs : ~MoveAside(p)
  <2>1. backups' = backups
    BY <1>2, BackupsFrame DEF Spoiled
  <2>2. (\A p \in Procs : ~RenameTemp(p)) => file' = file
    BY <1>2 DEF RegistryNext, Operate, SystemCall, Begin, Acquire, ReadFile, ReadCorrupt,
       BackupPath, MoveAsideFails, CreateTemp, WriteTemp, Fail, Return, Crash, Tick, registryVars,
       disk
  <2> QED
    BY <2>1, <2>2, RenamedOver
<1> QED
  BY <1>1, <1>2 DEF Spoiled

LEMMA ContentsStay ==
  ASSUME KeptInv, [Spoiled]_registryVars
  PROVE  \A j \in Junk : Kept(j) => Kept(j)'
<1>1. ASSUME NEW p \in Procs, MoveAside(p), NEW j \in Junk, Kept(j) PROVE Kept(j)'
  BY <1>1, MovedAside, RegistryAssumption DEF Kept
<1> QED
  BY <1>1, ContentStep DEF Kept

\* A name that was free when it was chosen is free when it is taken: no other
\* process takes one in between.
LEMMA NamesFree ==
  ASSUME KeptInv, Exclusive, NamesLeft, [Spoiled]_registryVars, NEW p \in Procs
  PROVE  NameFree(p)'
<1>t. RegistryTypeOK /\ NameFree(p)
  BY DEF KeptInv, Known, TypeAndTemp
<1> SUFFICES ASSUME step'[p] = "moveAside" PROVE backups'[backup'[p]] = Absent
  BY DEF NameFree
<1>1. BackupPath(p) \/ (step[p] = "moveAside" /\ backup'[p] = backup[p])
  BY <1>t DEF Spoiled, RegistryNext, Operate, SystemCall, Begin, Acquire, ReadFile, ReadCorrupt,
     BackupPath, MoveAside, MoveAsideFails, CreateTemp, WriteTemp, RenameTemp, Fail, Return, Crash,
     Tick, Spoil, Goto, AfterRead, registryVars, local, RegistryTypeOK
<1>2. ASSUME NEW q \in Procs, MoveAside(q) PROVE FALSE
  <2>1. step[q] = "moveAside" /\ step' = [step EXCEPT ![q] = "resetCreate"]
    BY <1>2 DEF MoveAside, Goto
  <2>2. p # q /\ step[p] = "moveAside"
    BY <1>t, <1>1, <2>1 DEF RegistryTypeOK, BackupPath, Goto
  <2> QED
    BY <2>1, <2>2 DEF Exclusive, Holding
<1>3. backups' = backups
  BY <1>2, BackupsFrame
<1> QED
  BY <1>t, <1>1, <1>3, FreeName DEF NameFree

LEMMA KeptNext ==
  ASSUME KeptInv, Exclusive, NamesLeft, [Spoiled]_registryVars
  PROVE  KeptInv'
<1>1. CASE \E j \in Junk : Spoil(j)
  BY <1>1, SpoilFrame, NamesFree DEF KeptInv
<1>2. CASE [RegistryNext]_registryVars
  BY <1>2, KnownNext, NamesFree DEF KeptInv
<1> QED
  BY <1>1, <1>2 DEF Spoiled

LEMMA KeptInit == RegistryInit => KeptInv
BY KnownInit DEF RegistryInit, KeptInv, NameFree

\* Whatever keeps operations apart, no recovery loses a corrupt content as long as
\* it finds one of its two names free: by any number of processes, in any number
\* of seconds, through failures and crashes.
THEOREM RecoveriesKeepCorrupt ==
  RegistrySpec /\ []Exclusive /\ []NamesLeft => CorruptKept
<1>1. KeptInv /\ Exclusive /\ NamesLeft /\ [Spoiled]_registryVars => KeptInv'
  BY KeptNext
<1>2. KeptInv /\ [Spoiled]_registryVars => [\A j \in Junk : Kept(j) => Kept(j)']_registryVars
  BY ContentsStay
<1> QED
  BY <1>1, <1>2, KeptInit, PTL DEF RegistrySpec, Spoiled, CorruptKept

\* With two contents there is a name, since each content is in one place.
LEMMA NamesSuffice ==
  ASSUME TwoContents, Known, OnlyCorruptMovedAside, OnePlace
  PROVE  NamesLeft
<1> SUFFICES ASSUME NEW p \in Procs, step[p] = "backupPath",
                    backups[<<clock, Nobody>>] # Absent, backups[<<clock, p>>] # Absent
             PROVE  FALSE
  BY DEF NamesLeft
<1> DEFINE plain == <<clock, Nobody>>
           own == <<clock, p>>
<1>1. plain \in Names /\ own \in Names /\ plain # own
  BY RegistryAssumption DEF Known, TypeAndTemp, RegistryTypeOK, Names
<1>2. file \in Junk
  BY DEF Known, KnowsFile
<1>3. backups[plain] \in Junk /\ backups[own] \in Junk
  BY <1>1 DEF OnlyCorruptMovedAside
<1>4. backups[plain] # backups[own] /\ file # backups[plain] /\ file # backups[own]
  BY <1>1, <1>3 DEF OnePlace
<1> QED
  BY <1>2, <1>3, <1>4 DEF TwoContents

LEMMA OnePlaceNext ==
  ASSUME KeptInv, OnePlace, [Spoiled]_registryVars
  PROVE  OnePlace'
<1>1. ASSUME NEW p \in Procs, MoveAside(p) PROVE OnePlace'
  BY <1>1, MovedAside, RegistryAssumption DEF OnePlace
<1> QED
  BY <1>1, ContentStep DEF OnePlace, Kept

\* Inside WithLock no recovery loses a corrupt content, as long as there are no
\* more contents than names a second has for one process.
THEOREM CorruptIsKept ==
  ASSUME Locked, TwoContents
  PROVE  RegistrySpec => CorruptKept
<1> DEFINE Inv == KeptInv /\ OnlyCorruptMovedAside /\ OnePlace
<1>1. RegistryInit => Inv
  BY KeptInit, RegistryAssumption DEF RegistryInit, OnlyCorruptMovedAside, OnePlace
<1>2. Inside /\ Inv => Exclusive /\ NamesLeft
  BY LockExcludes, NamesSuffice
<1>3. Inside /\ Inv /\ [Spoiled]_registryVars => Inv'
  BY <1>2, KeptNext, OnlyCorruptNext, OnePlaceNext DEF KeptInv
<1> QED
  BY <1>1, <1>2, <1>3, InsideInv, RecoveriesKeepCorrupt, PTL DEF RegistrySpec, Spoiled

-------------------------------------------------------------------------------
(* The Store is a map with one-step operations. *)

\* The abstract map has the same documents, requests and operations.
LEMMA AtomicDocuments ==
  /\ Atomic!Registries = Registries
  /\ Atomic!Requests = Requests
  /\ \A r, reg : Atomic!Apply(r, reg) = Apply(r, reg)
  /\ Atomic!Empty = Empty
BY DEF Atomic!Empty, Empty, Atomic!Registries, Registries, Atomic!Entry, Entry, Atomic!Requests, Requests,
   Atomic!Apply, Apply, Atomic!With, With, Atomic!Without, Without, Atomic!OfPane, OfPane

\* What an operation that has not returned, or another process's, shows of itself.
LEMMA ResultAt ==
  ASSUME NEW p \in Procs
  PROVE  /\ Result[p] = [is |-> IF step[p] # "return" THEN "pending"
                               ELSE IF failed[p] THEN "failed" ELSE "done",
                         got |-> IF step[p] = "return" /\ ~failed[p] /\ request[p].op = "get"
                                 THEN seen[p] ELSE Empty]
         /\ Result'[p] = [is |-> IF step'[p] # "return" THEN "pending"
                                ELSE IF failed'[p] THEN "failed" ELSE "done",
                          got |-> IF step'[p] = "return" /\ ~failed'[p] /\ request'[p].op = "get"
                                  THEN seen'[p] ELSE Empty]
BY DEF Result

\* A step of one process changes its result alone.
LEMMA ResultChange ==
  ASSUME NEW p \in Procs, NEW x,
         Result'[p] = x,
         \A q \in Procs : q # p =>
           /\ step'[q] = step[q] /\ failed'[q] = failed[q]
           /\ request'[q] = request[q] /\ seen'[q] = seen[q]
  PROVE  Result' = [Result EXCEPT ![p] = x]
<1>1. \A q \in Procs : q # p => Result'[q] = Result[q]
  BY ResultAt
<1>2. Result' = [q \in Procs |-> Result'[q]] /\ Result = [q \in Procs |-> Result[q]]
  BY DEF Result
<1> QED
  BY <1>1, <1>2

\* The system calls before the last are stutters of the map; the last is its effect,
\* or its failure.
LEMMA AtomicOperate ==
  ASSUME Known, NEW p \in Procs, Operate(p)
  PROVE  Atomic!TakeEffect(p) \/ Atomic!GiveUp(p) \/ UNCHANGED <<Document, request, Result>>
<1> USE DEF Goto, disk, local
<1>t. RegistryTypeOK /\ TempWhole /\ KnowsFile(p)
  BY DEF Known, TypeAndTemp
<1>1. request' = request
  BY DEF Operate, SystemCall, Acquire, ReadFile, ReadCorrupt, BackupPath, MoveAside,
     MoveAsideFails, CreateTemp, WriteTemp, RenameTemp, Fail
<1>2. \A q \in Procs : q # p =>
        /\ step'[q] = step[q] /\ failed'[q] = failed[q]
        /\ request'[q] = request[q] /\ seen'[q] = seen[q]
  BY <1>1, <1>t DEF Operate, SystemCall, Acquire, ReadFile, ReadCorrupt, BackupPath, MoveAside,
     MoveAsideFails, CreateTemp, WriteTemp, RenameTemp, Fail, RegistryTypeOK
<1>3. step[p] \notin {"idle", "return"} /\ request[p] # Idle /\ request[p] \in Requests
  BY <1>t DEF Operate, SystemCall, Acquire, ReadFile, ReadCorrupt, BackupPath, MoveAside,
     MoveAsideFails, CreateTemp, WriteTemp, RenameTemp, Fail, RegistryTypeOK
<1>4. Result[p] = Atomic!Pending
  BY <1>3, ResultAt, AtomicDocuments DEF Atomic!Pending
<1>5. ASSUME step'[p] # "return", Document' = Document
      PROVE  UNCHANGED <<Document, request, Result>>
  <2>1. Result'[p] = Result[p]
    BY <1>4, <1>5, ResultAt, AtomicDocuments DEF Atomic!Pending
  <2>2. Result' = [Result EXCEPT ![p] = Result[p]]
    BY <1>2, <2>1, ResultChange
  <2>3. Result' = Result
    BY <2>2 DEF Result
  <2> QED
    BY <1>1, <1>5, <2>3
<1>6. ASSUME step'[p] = "return", failed'[p], Document' = Document
      PROVE  Atomic!GiveUp(p)
  <2>1. Result'[p] = Atomic!Failed
    BY <1>6, ResultAt, AtomicDocuments DEF Atomic!Failed
  <2>2. Result' = [Result EXCEPT ![p] = Atomic!Failed]
    BY <1>2, <2>1, ResultChange
  <2> QED
    BY <1>1, <1>3, <1>4, <1>6, <2>2 DEF Atomic!GiveUp
<1>7. ASSUME step'[p] = "return", ~failed'[p], Document' = Apply(request[p], Document),
             request[p].op = "get" => seen'[p] = Document
      PROVE  Atomic!TakeEffect(p)
  <2>1. Result'[p] = Atomic!Done(request[p], Document)
    BY <1>1, <1>7, ResultAt, AtomicDocuments DEF Atomic!Done
  <2>2. Result' = [Result EXCEPT ![p] = Atomic!Done(request[p], Document)]
    BY <1>2, <2>1, ResultChange
  <2> QED
    BY <1>1, <1>3, <1>4, <1>7, <2>2, AtomicDocuments DEF Atomic!TakeEffect
<1>8. \A reg : ~Writes(request[p], reg) => Apply(request[p], reg) = reg
  BY <1>3 DEF Writes, Apply, Requests
<1>9. CASE ReadFile(p)
  <2>1. Document' = Document /\ seen'[p] = Document
    BY <1>9, <1>t DEF ReadFile, Document, RegistryTypeOK
  <2>2. step'[p] = IF Writes(request[p], Document) THEN "create" ELSE "return"
    BY <1>9, <1>t, <2>1 DEF ReadFile, AfterRead, Document, RegistryTypeOK
  <2>3. ~failed'[p]
    BY <1>9, <1>t, <1>3 DEF ReadFile, RegistryTypeOK
  <2> QED
    BY <1>5, <1>7, <1>8, <2>1, <2>2, <2>3
<1>10. CASE MoveAside(p)
  <2>1. Document' = Document
    BY <1>10, <1>t DEF MoveAside, KnowsFile, Document
  <2> QED
    BY <1>5, <1>10, <1>t, <2>1 DEF MoveAside, RegistryTypeOK
<1>11. CASE RenameTemp(p)
  <2>1. CASE step[p] = "resetRename"
    <3>1. file = Absent /\ file' = Empty /\ seen'[p] = Empty
      BY <1>11, <1>t, <2>1 DEF RenameTemp, KnowsFile
    <3>2. Document = Empty /\ Document' = Empty
      BY <3>1 DEF Document
    <3>3. step'[p] = IF Writes(request[p], Empty) THEN "create" ELSE "return"
      BY <1>11, <1>t, <2>1 DEF RenameTemp, AfterRead, RegistryTypeOK
    <3>4. ~failed'[p]
      BY <1>11, <1>t, <2>1 DEF RenameTemp, RegistryTypeOK
    <3> QED
      BY <1>5, <1>7, <1>8, <3>1, <3>2, <3>3, <3>4
  <2>2. CASE step[p] = "rename"
    <3>1. file' = Apply(request[p], Document) /\ file' \in Registries
      BY <1>11, <1>t, <2>2 DEF RenameTemp, KnowsFile, Document, TempWhole
    <3>2. Document' = file'
      BY <3>1, RegistryAssumption DEF Document
    <3>3. step'[p] = "return" /\ ~failed'[p] /\ seen'[p] = Document
      BY <1>11, <1>t, <2>2, <3>1 DEF RenameTemp, KnowsFile, Document, RegistryTypeOK
    <3> QED
      BY <1>7, <3>1, <3>2, <3>3
  <2> QED
    BY <1>11, <2>1, <2>2 DEF RenameTemp
<1>12. CASE MoveAsideFails(p) \/ Fail(p)
  <2>1. Document' = Document /\ step'[p] = "return" /\ failed'[p]
    BY <1>12, <1>t DEF MoveAsideFails, Fail, Document, RegistryTypeOK
  <2> QED
    BY <1>6, <2>1
<1>13. CASE Acquire(p) \/ ReadCorrupt(p) \/ BackupPath(p) \/ CreateTemp(p) \/ WriteTemp(p)
  <2>1. Document' = Document /\ step'[p] # "return"
    BY <1>13, <1>t DEF Acquire, ReadCorrupt, BackupPath, CreateTemp, WriteTemp, Document,
       RegistryTypeOK
  <2> QED
    BY <1>5, <2>1
<1> QED
  BY <1>9, <1>10, <1>11, <1>12, <1>13 DEF Operate, SystemCall

LEMMA AtomicStep ==
  ASSUME Known, [RegistryNext]_registryVars
  PROVE  [Atomic!Next]_(Atomic!vars)
<1> USE DEF Atomic!vars
<1>t. RegistryTypeOK
  BY DEF Known, TypeAndTemp
<1>1. ASSUME NEW p \in Procs, NEW r \in Requests, Begin(p, r) PROVE Atomic!Call(p, r)
  <2>1. /\ request[p] = Idle /\ request' = [request EXCEPT ![p] = r]
        /\ step'[p] # "return" /\ step[p] # "return" /\ Document' = Document
    BY <1>1, <1>t DEF Begin, RegistryTypeOK, disk, Document
  <2>2. Result'[p] = Result[p]
    BY <2>1, ResultAt
  <2>3. \A q \in Procs : q # p =>
          /\ step'[q] = step[q] /\ failed'[q] = failed[q]
          /\ request'[q] = request[q] /\ seen'[q] = seen[q]
    BY <1>1, <1>t DEF Begin, RegistryTypeOK
  <2>4. Result' = [Result EXCEPT ![p] = Result[p]]
    BY <2>2, <2>3, ResultChange
  <2>5. Result' = Result
    BY <2>4 DEF Result
  <2> QED
    BY <2>1, <2>5 DEF Atomic!Call
<1>2. ASSUME NEW p \in Procs, Return(p) \/ Crash(p) PROVE Atomic!Return(p) \/ Atomic!Die(p)
  <2>1. /\ request[p] # Idle /\ request' = [request EXCEPT ![p] = Idle]
        /\ step'[p] = "idle" /\ Document' = Document
    BY <1>2, <1>t DEF Return, Crash, RegistryTypeOK, disk, Document
  <2>2. Result'[p] = Atomic!Pending
    BY <2>1, ResultAt, AtomicDocuments DEF Atomic!Pending
  <2>3. Result' = [Result EXCEPT ![p] = Atomic!Pending]
    BY <1>2, <1>t, <2>2, ResultChange DEF Return, Crash, RegistryTypeOK, local
  <2> QED
    BY <2>1, <2>3 DEF Atomic!Die, Atomic!Ends
<1>3. ASSUME NEW p \in Procs, Operate(p)
      PROVE  Atomic!TakeEffect(p) \/ Atomic!GiveUp(p) \/ UNCHANGED <<Document, request, Result>>
  BY <1>3, AtomicOperate
<1>4. CASE Tick \/ UNCHANGED registryVars
  BY <1>4 DEF Tick, registryVars, disk, local, Document, Result
<1> QED
  BY <1>1, <1>2, <1>3, <1>4, AtomicDocuments DEF RegistryNext, Atomic!Next

LEMMA AtomicSpoil ==
  ASSUME Known, NEW j \in Junk, Spoil(j)
  PROVE  Atomic!Forget
<1>1. \A p \in Procs : request[p] = Idle
  BY DEF Spoil, Known, TypeAndTemp, RegistryTypeOK
<1>2. Document' = Atomic!Empty
  BY AtomicDocuments DEF Spoil, Document
<1>3. UNCHANGED <<request, Result>>
  BY DEF Spoil, Result, local
<1> QED
  BY <1>1, <1>2, <1>3 DEF Atomic!Forget

\* The Store implements the map of AtomicRegistry as long as one operation at a
\* time is between its first read and its last rename, whatever keeps them apart:
\* an operation that returns has taken effect once and one that fails has not,
\* through failures, crashes and the recovery of a corrupt file.
THEOREM ExclusiveStoreIsAtomic ==
  RegistrySpec /\ []Exclusive => ImplementsAtomicRegistry
<1>1. RegistryInit => Atomic!Init
  <2> SUFFICES ASSUME RegistryInit PROVE Atomic!Init
    OBVIOUS
  <2>1. Document \in Atomic!Registries
    BY EmptyType, AtomicDocuments DEF RegistryInit, Document
  <2>2. \A p \in Procs : Result[p] = Atomic!Pending
    BY ResultAt, AtomicDocuments DEF RegistryInit, Atomic!Pending
  <2>3. Result = [p \in Procs |-> Atomic!Pending]
    BY <2>2 DEF Result
  <2> QED
    BY <2>1, <2>3 DEF RegistryInit, Atomic!Init
<1>2. Known /\ Exclusive /\ [Spoiled]_registryVars => Known'
  BY KnownNext, SpoilFrame DEF Spoiled
<1>3. Known /\ [Spoiled]_registryVars => [Atomic!Next \/ Atomic!Forget]_(Atomic!vars)
  BY AtomicStep, AtomicSpoil DEF Spoiled
<1> QED
  BY <1>1, <1>2, <1>3, KnownInit, PTL
     DEF RegistrySpec, Spoiled, ImplementsAtomicRegistry, Atomic!Spec

\* WithLock keeps them apart, for any number of processes, keys and panes.
THEOREM StoreIsAtomic ==
  ASSUME Locked
  PROVE  RegistrySpec => ImplementsAtomicRegistry
BY InsideInv, LockExcludes, ExclusiveStoreIsAtomic, PTL
===============================================================================
