------------------------ MODULE CuteDslCache_proofs ------------------------
(***************************************************************************)
(* Proofs about CuteDslCache for any processes, kernels, versions and      *)
(* faults: the inductive invariant, that a process is handed the kernel of *)
(* its own sources, and that the cache implements KernelCache.             *)
(*                                                                         *)
(* A step of a process moves its pc, and takes, keeps or leaves the lock.  *)
(* Only RemoveFile, ReplaceObject and ReplaceMeta touch the directory: the *)
(* part of the invariant about files needs the lock (no two versions are   *)
(* under it) just for them.                                                *)
(***************************************************************************)
EXTENDS CuteDslCache, TLAPS

USE DEF Meta, Files

LEMMA InitIInv == Init => IInv
<1> SUFFICES ASSUME Init PROVE IInv
    OBVIOUS
<1> USE NamesAssumption DEF Init
<1>1. TypeOK
  <2>1. \E v \in Versions : version = [p \in Procs |-> v]
        OBVIOUS
  <2>2. version \in [Procs -> Versions]
        BY <2>1
  <2>3. disk \in [Files -> Versions \cup {None}]
        OBVIOUS
  <2>4. todo \in [Procs -> SUBSET Files] /\ got \in [Procs -> Versions \cup {None, Error}]
        OBVIOUS
  <2> QED BY <2>2, <2>3, <2>4 DEF TypeOK, PcType
<1>2. OneVersion /\ MutualExclusion
      BY DEF OneVersion, MutualExclusion
<1>3. InsideWhereLocked
      BY DEF InsideWhereLocked, UnderLock, Locked, Unlocked
<1>4. Clean /\ CommitMarker
      BY DEF Clean, CommitMarker, Wiping, AfterTheWipe, AllOf
<1> QED BY <1>1, <1>2, <1>3, <1>4 DEF IInv

-----------------------------------------------------------------------------
\* The two ways most actions end, and leaving the lock.
LEMMA MovedType ==
  ASSUME TypeOK, NEW p \in Procs, NEW l \in PcType, Moved(p, l)
  PROVE  TypeOK'
BY DEF TypeOK, Moved, Goto, proc, env

LEMMA LeaveLockType ==
  ASSUME TypeOK, NEW p \in Procs, LeaveLock(p)
  PROVE  /\ inside' \in [Procs -> BOOLEAN] /\ unloadable' \in [Procs -> BOOLEAN]
         /\ lock' \in Procs \cup {None}
BY DEF TypeOK, LeaveLock

LEMMA FinishType ==
  ASSUME TypeOK, NEW p \in Procs, NEW r \in Versions \cup {None, Error}, Finish(p, r)
  PROVE  TypeOK'
BY LeaveLockType DEF TypeOK, Finish, Goto, proc, env, PcType

LEMMA TypeStep == TypeOK /\ [Next]_vars => TypeOK'
<1> SUFFICES ASSUME TypeOK, [Next]_vars PROVE TypeOK'
    OBVIOUS
<1> USE DEF PcType
<1>1. ASSUME NEW p \in Procs, NEW k \in Kernels, NEW m \in {"build", "persist"}, Call(p, k, m) PROVE TypeOK'
      BY <1>1 DEF TypeOK, Call, Goto, env
<1>2. ASSUME NEW p \in Procs, Exists(p) PROVE TypeOK'
      BY <1>2, MovedType DEF Exists, AfterMiss
<1>3. ASSUME NEW p \in Procs, ReadMeta(p) PROVE TypeOK'
      BY <1>3, MovedType, FinishType DEF ReadMeta, AfterMiss
<1>4. ASSUME NEW p \in Procs, LoadCached(p) PROVE TypeOK'
  <2>1. Object(p) \in Versions \cup {None}
        BY DEF TypeOK, Object
  <2> QED BY <1>4, <2>1, FinishType DEF LoadCached
<1>4a. ASSUME NEW p \in Procs, LoadFails(p) PROVE TypeOK'
  <2>1. AfterMiss(p) \in PcType
        BY DEF AfterMiss
  <2>2. (inside[p] /\ Object(p) # None) \in BOOLEAN
        OBVIOUS
  <2> QED BY <1>4a, <2>1, <2>2 DEF TypeOK, LoadFails, Goto, proc, env
<1>5. ASSUME NEW p \in Procs, Acquire(p) PROVE TypeOK'
      BY <1>5 DEF TypeOK, Acquire, AfterAcquire, Goto, proc, env
<1>6. ASSUME NEW p \in Procs, JitDisabled(p) PROVE TypeOK'
      BY <1>6, FinishType DEF JitDisabled
<1>7. ASSUME NEW p \in Procs, CheckMeta(p) PROVE TypeOK'
      BY <1>7, MovedType DEF CheckMeta, AfterWipe
<1>8. ASSUME NEW p \in Procs, ListFiles(p) PROVE TypeOK'
      BY <1>8 DEF TypeOK, ListFiles, Present, Goto, proc, env
<1>9. ASSUME NEW p \in Procs, RemoveFile(p) PROVE TypeOK'
      BY <1>9 DEF TypeOK, RemoveFile, proc, env
<1>10. ASSUME NEW p \in Procs, Wiped(p) PROVE TypeOK'
       BY <1>10, MovedType DEF Wiped, AfterWipe
<1>11. ASSUME NEW p \in Procs, Compile(p) PROVE TypeOK'
       BY <1>11, MovedType, FinishType DEF Compile, AfterCompile
<1>12. ASSUME NEW p \in Procs, ReplaceObject(p) PROVE TypeOK'
       BY <1>12 DEF TypeOK, ReplaceObject, Goto, proc, env
<1>13. ASSUME NEW p \in Procs, ReplaceMeta(p) PROVE TypeOK'
       BY <1>13, LeaveLockType DEF TypeOK, ReplaceMeta, EndExport, Goto, proc, env
<1>14. ASSUME NEW p \in Procs, ExportFails(p) PROVE TypeOK'
       BY <1>14, LeaveLockType DEF TypeOK, ExportFails, EndExport, Goto, proc, env
<1>15. ASSUME NEW p \in Procs, LoadExists(p) PROVE TypeOK'
  <2>1. version[p] \in Versions
        BY DEF TypeOK
  <2> QED BY <1>15, <2>1, MovedType, FinishType DEF LoadExists
<1>16. ASSUME NEW p \in Procs, LoadFromDisk(p) PROVE TypeOK'
  <2>1. Object(p) \in Versions \cup {None}
        BY DEF TypeOK, Object
  <2> QED BY <1>16, <2>1, FinishType DEF LoadFromDisk
<1>17. ASSUME NEW p \in Procs, Return(p) PROVE TypeOK'
       BY <1>17 DEF TypeOK, Return, Goto, proc, env
<1>18. ASSUME NEW p \in Procs, Crash(p) PROVE TypeOK'
       BY <1>18, LeaveLockType DEF TypeOK, Crash, Goto, proc, env
<1>19. ASSUME NEW S \in SUBSET Procs, NEW v \in Versions, Upgrade(S, v) PROVE TypeOK'
       BY <1>19 DEF TypeOK, Upgrade, env
<1>20. CASE BreakLock \/ BecomeReadOnly
       BY <1>20 DEF TypeOK, BreakLock, BecomeReadOnly
<1>21. CASE UNCHANGED vars
       BY <1>21 DEF TypeOK, vars, proc, env
<1> QED BY <1>1, <1>2, <1>3, <1>4, <1>4a, <1>5, <1>6, <1>7, <1>8, <1>9, <1>10, <1>11, <1>12, <1>13, <1>14,
           <1>15, <1>16, <1>17, <1>18, <1>19, <1>20, <1>21 DEF Next, Step

-----------------------------------------------------------------------------
LEMMA OneVersionStep == TypeOK /\ OneVersion /\ [Next]_vars => OneVersion'
<1> SUFFICES ASSUME TypeOK, OneVersion, [Next]_vars PROVE OneVersion'
    OBVIOUS
<1>1. ASSUME NEW S \in SUBSET Procs, NEW v \in Versions, Upgrade(S, v) PROVE OneVersion'
      BY <1>1 DEF TypeOK, OneVersion, Upgrade, env
<1>2. ASSUME NEW p \in Procs, Step(p) PROVE OneVersion'
  <2>1. version' = version /\ faults' = faults
        BY <1>2 DEF Step, Call, Exists, ReadMeta, LoadCached, LoadFails, Acquire, JitDisabled, CheckMeta, ListFiles,
                    RemoveFile, Wiped, Compile, ReplaceObject, ReplaceMeta, ExportFails, EndExport,
                    LoadExists, LoadFromDisk, Return, Crash, Moved, Finish, proc, env
  <2> QED BY <2>1 DEF OneVersion
<1>3. CASE BreakLock \/ BecomeReadOnly \/ UNCHANGED vars
      BY <1>3 DEF OneVersion, BreakLock, BecomeReadOnly, vars, proc, env
<1> QED BY <1>1, <1>2, <1>3 DEF Next

-----------------------------------------------------------------------------
\* The lock file and who is inside.  A step of p leaves, takes or keeps them.
LEMMA Kept ==
  ASSUME MutualExclusion, UNCHANGED <<lock, inside, env>>
  PROVE  MutualExclusion'
BY DEF MutualExclusion, env

LEMMA Left ==
  ASSUME TypeOK, MutualExclusion, NEW p \in Procs, LeaveLock(p), UNCHANGED env
  PROVE  MutualExclusion'
BY NamesAssumption DEF TypeOK, MutualExclusion, LeaveLock, env

LEMMA MutualExclusionStep == TypeOK /\ MutualExclusion /\ [Next]_vars => MutualExclusion'
<1> SUFFICES ASSUME TypeOK, MutualExclusion, [Next]_vars PROVE MutualExclusion'
    OBVIOUS
<1>1. ASSUME NEW p \in Procs, Step(p) PROVE MutualExclusion'
  <2>1. CASE Acquire(p)
        BY <2>1, NamesAssumption DEF TypeOK, MutualExclusion, Acquire, env
  <2>2. CASE ~Acquire(p)
    <3>1. (LeaveLock(p) /\ UNCHANGED env) \/ UNCHANGED <<lock, inside, env>>
          BY <1>1, <2>2 DEF Step, Call, Exists, ReadMeta, LoadCached, LoadFails, JitDisabled, CheckMeta, ListFiles,
                      RemoveFile, Wiped, Compile, ReplaceObject, ReplaceMeta, ExportFails, EndExport,
                      LoadExists, LoadFromDisk, Return, Crash, Moved, Finish
    <3> QED BY <3>1, Kept, Left
  <2> QED BY <2>1, <2>2
<1>2. ASSUME NEW S \in SUBSET Procs, NEW v \in Versions, Upgrade(S, v) PROVE MutualExclusion'
      BY <1>2, Kept DEF Upgrade
<1>3. CASE BreakLock
  <2>1. \A p \in Procs : lock' # p
        BY <1>3, NamesAssumption DEF BreakLock
  <2>2. broken' /\ "break" \in faults' /\ faults' = faults /\ readonly' = readonly
        BY <1>3 DEF BreakLock
  <2> QED BY <2>1, <2>2 DEF MutualExclusion
<1>4. CASE BecomeReadOnly
      BY <1>4 DEF MutualExclusion, BecomeReadOnly
<1>5. CASE UNCHANGED vars
      BY <1>5, Kept DEF vars, env
<1> QED BY <1>1, <1>2, <1>3, <1>4, <1>5 DEF Next

\* What InsideWhereLocked says of one process.
InsideRight(p) ==
  /\ UnderLock(p) => inside[p]
  /\ pc[p] \in Unlocked => ~inside[p]
  /\ pc[p] = "compile" => (inside[p] <=> mode[p] = "build")
  /\ mode[p] = "persist" /\ pc[p] \in {"exists", "meta"} => ~inside[p]
  /\ pc[p] \in {"load", "return", "reload"} => mode[p] = "build"

LEMMA InsideStep == TypeOK /\ InsideWhereLocked /\ [Next]_vars => InsideWhereLocked'
<1> SUFFICES ASSUME TypeOK, InsideWhereLocked, [Next]_vars PROVE InsideWhereLocked'
    OBVIOUS
<1>1. ASSUME NEW p \in Procs, Step(p) PROVE InsideWhereLocked'
  <2>1. \A q \in Procs \ {p} : pc'[q] = pc[q] /\ mode'[q] = mode[q] /\ inside'[q] = inside[q]
        BY <1>1 DEF TypeOK, Step, Call, Exists, ReadMeta, LoadCached, LoadFails, Acquire, JitDisabled, CheckMeta,
                    ListFiles, RemoveFile, Wiped, Compile, ReplaceObject, ReplaceMeta, ExportFails,
                    EndExport, LoadExists, LoadFromDisk, Return, Crash, Moved, Finish, LeaveLock, Goto, proc
  <2>2. \A q \in Procs \ {p} : InsideRight(q)'
        BY <2>1 DEF InsideWhereLocked, InsideRight, UnderLock
  <2>3. InsideRight(p)'
    <3>1. InsideRight(p)
          BY DEF InsideWhereLocked, InsideRight
    <3> USE DEF InsideRight, UnderLock, Locked, Unlocked
    <3>2. CASE \E k \in Kernels, m \in {"build", "persist"} : Call(p, k, m)
          BY <3>1, <3>2 DEF TypeOK, Call, Goto
    <3>3. CASE Exists(p) \/ ReadMeta(p) \/ LoadCached(p) \/ LoadFails(p)
          BY <3>1, <3>3 DEF TypeOK, Exists, ReadMeta, LoadCached, LoadFails, Moved, Finish, LeaveLock, Goto, AfterMiss, proc
    <3>4. CASE Acquire(p) \/ JitDisabled(p) \/ CheckMeta(p) \/ ListFiles(p) \/ RemoveFile(p) \/ Wiped(p)
          BY <3>1, <3>4 DEF TypeOK, Acquire, JitDisabled, CheckMeta, ListFiles, RemoveFile, Wiped, Moved, Finish,
                      LeaveLock, Goto, AfterAcquire, AfterWipe, proc
    <3>5. CASE Compile(p) \/ ReplaceObject(p) \/ ReplaceMeta(p) \/ ExportFails(p)
          BY <3>1, <3>5 DEF TypeOK, Compile, ReplaceObject, ReplaceMeta, ExportFails, EndExport, Moved, Finish,
                      LeaveLock, Goto, AfterCompile, proc
    <3>6. CASE LoadExists(p) \/ LoadFromDisk(p) \/ Return(p) \/ Crash(p)
          BY <3>1, <3>6 DEF TypeOK, LoadExists, LoadFromDisk, Return, Crash, Moved, Finish, LeaveLock, Goto, proc
    <3> QED BY <1>1, <3>2, <3>3, <3>4, <3>5, <3>6 DEF Step
  <2> QED BY <2>2, <2>3 DEF InsideWhereLocked, InsideRight
<1>2. ASSUME NEW S \in SUBSET Procs, NEW v \in Versions, Upgrade(S, v) PROVE InsideWhereLocked'
      BY <1>2 DEF InsideWhereLocked, UnderLock, Upgrade
<1>3. CASE BreakLock \/ BecomeReadOnly \/ UNCHANGED vars
      BY <1>3 DEF InsideWhereLocked, UnderLock, BreakLock, BecomeReadOnly, vars, proc
<1> QED BY <1>1, <1>2, <1>3 DEF Next

-----------------------------------------------------------------------------
\* What the files of the directory are, as a process under the lock sees it.
CleanFor(p) == ~readonly => Wiping(p) /\ (AfterTheWipe(p) => AllOf(version[p]))

\* Two processes under the lock are of one version.
LEMMA SameVersionUnderLock ==
  ASSUME IInv, NEW p \in Procs, NEW q \in Procs, inside[p], inside[q]
  PROVE  version[p] = version[q]
<1>1. CASE "overlap" \in faults
  <2>1. ~broken
        BY <1>1, FaultsAssumption DEF IInv, TypeOK, MutualExclusion
  <2> QED BY <2>1 DEF IInv, MutualExclusion
<1>2. CASE "overlap" \notin faults
      BY <1>2 DEF IInv, OneVersion
<1> QED BY <1>1, <1>2

LEMMA InsideWhenDirty ==
  ASSUME IInv, NEW p \in Procs, pc[p] = "wipe" \/ AfterTheWipe(p)
  PROVE  inside[p]
BY DEF IInv, InsideWhereLocked, UnderLock, Locked, AfterTheWipe

\* A step that does not change the directory keeps the other processes' view.
LEMMA OthersKept ==
  ASSUME IInv, NEW p \in Procs, Step(p), NEW q \in Procs \ {p}
  PROVE  pc'[q] = pc[q] /\ mode'[q] = mode[q] /\ version'[q] = version[q] /\ todo'[q] = todo[q]
BY DEF IInv, TypeOK, Step, Call, Exists, ReadMeta, LoadCached, LoadFails, Acquire, JitDisabled, CheckMeta,
       ListFiles, RemoveFile, Wiped, Compile, ReplaceObject, ReplaceMeta, ExportFails,
       EndExport, LoadExists, LoadFromDisk, Return, Crash, Moved, Finish, Goto, proc

LEMMA ReadOnlyKept ==
  ASSUME NEW p \in Procs, Step(p)
  PROVE  readonly' = readonly
BY DEF Step, Call, Exists, ReadMeta, LoadCached, LoadFails, Acquire, JitDisabled, CheckMeta,
       ListFiles, RemoveFile, Wiped, Compile, ReplaceObject, ReplaceMeta, ExportFails,
       EndExport, LoadExists, LoadFromDisk, Return, Crash, Moved, Finish, env

\* A step that leaves the directory alone.
LEMMA QuietStep ==
  ASSUME IInv, NEW p \in Procs, Step(p), disk' = disk, CleanFor(p)'
  PROVE  Clean' /\ CommitMarker'
<1>1. \A q \in Procs \ {p} : CleanFor(q)'
      BY OthersKept, ReadOnlyKept DEF IInv, Clean, CleanFor, Wiping, AfterTheWipe, AllOf
<1> QED BY <1>1 DEF IInv, Clean, CleanFor, CommitMarker, AllOf

\* Removing a file spoils nothing.
LEMMA RemoveStep ==
  ASSUME IInv, NEW p \in Procs, RemoveFile(p)
  PROVE  Clean' /\ CommitMarker'
<1>1. PICK f \in todo[p] : /\ todo' = [todo EXCEPT ![p] = @ \ {f}]
                           /\ disk' = IF readonly THEN disk ELSE [disk EXCEPT ![f] = None]
      BY DEF RemoveFile
<1>2. f \in Files /\ disk \in [Files -> Versions \cup {None}] /\ todo \in [Procs -> SUBSET Files]
      BY DEF IInv, TypeOK
<1>3. \A g \in Files : disk'[g] \in {disk[g], None}
      BY <1>1, <1>2
<1>4. pc' = pc /\ mode' = mode /\ version' = version /\ readonly' = readonly
      BY DEF RemoveFile, proc, env
<1>5. CommitMarker'
  <2>1. disk'[Meta] \in {disk[Meta], None}
        BY <1>3
  <2> QED BY <1>3, <2>1 DEF IInv, CommitMarker, AllOf
<1>6. ASSUME NEW q \in Procs, ~readonly PROVE Wiping(q)'
  <2>1. ~readonly => disk'[f] = None
        BY <1>1, <1>2
  <2>2. \A g \in Files \ {f} : g \in todo'[q] <=> g \in todo[q]
        BY <1>1, <1>2
  <2>3. Wiping(q)
        BY <1>6 DEF IInv, Clean
  <2> QED BY <1>3, <1>4, <1>6, <2>1, <2>2, <2>3 DEF Wiping
<1>7. ASSUME NEW q \in Procs, ~readonly, AfterTheWipe(q) PROVE AllOf(version[q])'
      BY <1>3, <1>4, <1>7 DEF IInv, Clean, AllOf
<1> QED BY <1>4, <1>5, <1>6, <1>7 DEF Clean, AfterTheWipe

\* What a process writes under the lock is of its version, as is all the rest.
LEMMA WriteStep ==
  ASSUME IInv, NEW p \in Procs, ReplaceObject(p) \/ ReplaceMeta(p), ~readonly
  PROVE  Clean' /\ CommitMarker'
<1>1. inside[p] /\ AfterTheWipe(p) /\ AllOf(version[p])
      BY InsideWhenDirty DEF IInv, Clean, AfterTheWipe, ReplaceObject, ReplaceMeta
<1>2. version' = version /\ mode' = mode /\ todo' = todo
      BY DEF ReplaceObject, ReplaceMeta, proc
<1>3. AllOf(version[p])'
      BY <1>1, <1>2 DEF IInv, TypeOK, AllOf, ReplaceObject, ReplaceMeta
<1>4. CommitMarker'
      BY <1>3, <1>2 DEF CommitMarker, AllOf
<1>5. CleanFor(p)'
      BY <1>2, <1>3 DEF IInv, TypeOK, CleanFor, Wiping, ReplaceObject, ReplaceMeta, EndExport, Goto
<1>6. ASSUME NEW q \in Procs \ {p} PROVE CleanFor(q)'
  <2>1. pc'[q] = pc[q]
        BY DEF IInv, TypeOK, ReplaceObject, ReplaceMeta, EndExport, Goto
  <2>2. CASE pc[q] = "wipe" \/ AfterTheWipe(q)
    <3>1. version[q] = version[p]
          BY <1>1, <2>2, InsideWhenDirty, SameVersionUnderLock
    <3> QED BY <1>2, <1>3, <2>1, <3>1 DEF CleanFor, Wiping, AllOf
  <2>3. CASE ~(pc[q] = "wipe" \/ AfterTheWipe(q))
        BY <1>2, <2>1, <2>3 DEF CleanFor, Wiping, AfterTheWipe
  <2> QED BY <2>2, <2>3
<1> QED BY <1>4, <1>5, <1>6 DEF Clean, CleanFor

LEMMA CleanStep == IInv /\ [Next]_vars => Clean' /\ CommitMarker'
<1> SUFFICES ASSUME IInv, [Next]_vars PROVE Clean' /\ CommitMarker'
    OBVIOUS
<1>1. ASSUME NEW p \in Procs, Step(p) PROVE Clean' /\ CommitMarker'
  <2>1. CASE RemoveFile(p)
        BY <2>1, RemoveStep
  <2>2. CASE (ReplaceObject(p) \/ ReplaceMeta(p)) /\ ~readonly
        BY <2>2, WriteStep
  <2>3. CASE (ReplaceObject(p) \/ ReplaceMeta(p)) /\ readonly
    <3>1. disk' = disk
          BY <2>3 DEF IInv, TypeOK, ReplaceObject, ReplaceMeta, MetaMatches
    <3>2. CleanFor(p)'
          BY <1>1, <2>3, ReadOnlyKept DEF CleanFor
    <3> QED BY <1>1, <3>1, <3>2, QuietStep
  <2>4. CASE ~RemoveFile(p) /\ ~ReplaceObject(p) /\ ~ReplaceMeta(p)
    <3>1. disk' = disk /\ version' = version
          BY <1>1, <2>4 DEF Step, Call, Exists, ReadMeta, LoadCached, LoadFails, Acquire, JitDisabled, CheckMeta,
                 ListFiles, Wiped, Compile, ExportFails, EndExport, LoadExists, LoadFromDisk, Return, Crash,
                 Moved, Finish, proc
    <3>2. CleanFor(p)'
      <4> SUFFICES ASSUME ~readonly PROVE Wiping(p)' /\ (AfterTheWipe(p) => AllOf(version[p]))'
          BY <1>1, ReadOnlyKept DEF CleanFor
      <4>1. Wiping(p) /\ (AfterTheWipe(p) => AllOf(version[p]))
            BY DEF IInv, Clean
      <4> USE <3>1, <4>1 DEF IInv, TypeOK, Wiping, AfterTheWipe, AllOf, Moved, Finish, Goto, proc
      <4>2. CASE \E k \in Kernels, m \in {"build", "persist"} : Call(p, k, m)
            BY <4>2 DEF Call
      <4>3. CASE Exists(p) \/ ReadMeta(p) \/ LoadCached(p) \/ LoadFails(p)
            BY <4>3 DEF Exists, ReadMeta, LoadCached, LoadFails, AfterMiss
      <4>4. CASE Acquire(p) \/ JitDisabled(p)
            BY <4>4 DEF Acquire, AfterAcquire, JitDisabled
      <4>5. CASE CheckMeta(p)
            BY <4>5, NamesAssumption DEF CheckMeta, AfterWipe, MetaMatches, CommitMarker
      <4>6. CASE ListFiles(p)
            BY <4>6 DEF ListFiles, Present
      <4>7. CASE Wiped(p)
            BY <4>7 DEF Wiped, AfterWipe
      <4>8. CASE Compile(p)
            BY <4>8 DEF Compile, AfterCompile
      <4>9. CASE ExportFails(p)
            BY <4>9 DEF ExportFails, EndExport
      <4>10. CASE LoadExists(p) \/ LoadFromDisk(p) \/ Return(p) \/ Crash(p)
            BY <4>10 DEF LoadExists, LoadFromDisk, Return, Crash
      <4> QED BY <1>1, <2>4, <4>2, <4>3, <4>4, <4>5, <4>6, <4>7, <4>8, <4>9, <4>10 DEF Step
    <3> QED BY <1>1, <3>1, <3>2, QuietStep
  <2> QED BY <2>1, <2>2, <2>3, <2>4
<1>2. ASSUME NEW S \in SUBSET Procs, NEW v \in Versions, Upgrade(S, v) PROVE Clean' /\ CommitMarker'
  <2>1. \A q \in Procs : pc[q] = "wipe" \/ AfterTheWipe(q) => version'[q] = version[q]
        BY <1>2 DEF IInv, TypeOK, Upgrade, AfterTheWipe
  <2>2. UNCHANGED <<disk, pc, mode, todo, readonly>>
        BY <1>2 DEF Upgrade, env
  <2> QED BY <2>1, <2>2 DEF IInv, Clean, CommitMarker, Wiping, AfterTheWipe, AllOf
<1>3. CASE BreakLock \/ BecomeReadOnly \/ UNCHANGED vars
  <2>1. UNCHANGED <<disk, pc, mode, todo, version>> /\ (~readonly' => ~readonly)
        BY <1>3 DEF BreakLock, BecomeReadOnly, vars, proc, env
  <2> QED BY <2>1 DEF IInv, Clean, CommitMarker, Wiping, AfterTheWipe, AllOf
<1> QED BY <1>1, <1>2, <1>3 DEF Next

\* IInv, the commit marker first among its parts, holds in every reachable
\* state: whatever was wiped, exported or interrupted, by crashes or with the
\* lock file deleted, meta.json vouches for every object next to it.
THEOREM InductiveInvariant == Spec => []IInv
<1>1. IInv /\ [Next]_vars => IInv'
      BY TypeStep, OneVersionStep, MutualExclusionStep, InsideStep, CleanStep DEF IInv
<1> QED BY InitIInv, <1>1, PTL DEF Spec

-----------------------------------------------------------------------------
(* A process is handed the kernel made from its own sources.               *)

\* A process whose commit marker matched finds only files of its version,
\* and nobody is handed anything before the end of a call.
Undisturbed == faults \cap {"overlap", "readonly"} = {}
Found == Undisturbed => \A p \in Procs : pc[p] = "load" => AllOf(version[p])
Handed == \A p \in Procs : pc[p] # "done" => got[p] = None

LEMMA UndisturbedFacts ==
  ASSUME IInv, Undisturbed
  PROVE  ~readonly /\ \A p, q \in Procs : version[p] = version[q]
BY DEF IInv, MutualExclusion, OneVersion, Undisturbed

LEMMA FaultsKept == [Next]_vars => faults' = faults
BY DEF Next, Step, Call, Exists, ReadMeta, LoadCached, LoadFails, Acquire, JitDisabled, CheckMeta,
       ListFiles, RemoveFile, Wiped, Compile, ReplaceObject, ReplaceMeta, ExportFails,
       EndExport, LoadExists, LoadFromDisk, Return, Crash, Moved, Finish, Upgrade, BreakLock,
       BecomeReadOnly, vars, env

\* A step of a process adds files of its own version only.
LEMMA OwnFilesAdded ==
  ASSUME IInv, NEW p \in Procs, Step(p), NEW f \in Files
  PROVE  disk'[f] \in {disk[f], None, version[p]}
BY DEF IInv, TypeOK, Step, Call, Exists, ReadMeta, LoadCached, LoadFails, Acquire, JitDisabled, CheckMeta,
       ListFiles, RemoveFile, Wiped, Compile, ReplaceObject, ReplaceMeta, ExportFails,
       EndExport, LoadExists, LoadFromDisk, Return, Crash, Moved, Finish

LEMMA HandedStep == IInv /\ Handed /\ [Next]_vars => Handed'
<1> SUFFICES ASSUME IInv, Handed, [Next]_vars PROVE Handed'
    OBVIOUS
<1>1. ASSUME NEW p \in Procs, Step(p) PROVE Handed'
      BY <1>1 DEF IInv, TypeOK, Handed, Step, Call, Exists, ReadMeta, LoadCached, LoadFails, Acquire, JitDisabled, CheckMeta,
         ListFiles, RemoveFile, Wiped, Compile, ReplaceObject, ReplaceMeta, ExportFails,
         EndExport, LoadExists, LoadFromDisk, Return, Crash, Moved, Finish, Goto
<1>2. ASSUME NEW S \in SUBSET Procs, NEW v \in Versions, Upgrade(S, v) PROVE Handed'
      BY <1>2 DEF Handed, Upgrade
<1>3. CASE BreakLock \/ BecomeReadOnly \/ UNCHANGED vars
      BY <1>3 DEF Handed, BreakLock, BecomeReadOnly, vars
<1> QED BY <1>1, <1>2, <1>3 DEF Next

LEMMA FoundStep == IInv /\ Found /\ [Next]_vars => Found'
<1> SUFFICES ASSUME IInv, Found, [Next]_vars, Undisturbed PROVE (\A p \in Procs : pc[p] = "load" => AllOf(version[p]))'
    BY FaultsKept DEF Found, Undisturbed
<1>1. ASSUME NEW p \in Procs, Step(p), NEW q \in Procs, pc'[q] = "load" PROVE AllOf(version[q])'
  <2>1. version' = version /\ version[p] = version[q]
        BY <1>1, UndisturbedFacts DEF Step, Call, Exists, ReadMeta, LoadCached, LoadFails, Acquire, JitDisabled, CheckMeta,
           ListFiles, RemoveFile, Wiped, Compile, ReplaceObject, ReplaceMeta, ExportFails, EndExport,
           LoadExists, LoadFromDisk, Return, Crash, Moved, Finish, proc
  <2>2. AllOf(version[q])
    <3>1. CASE pc[q] = "load"
          BY <3>1 DEF Found
    <3>2. CASE pc[q] # "load"
      <4>1. q = p /\ ReadMeta(p) /\ MetaMatches(p)
            BY <1>1, <3>2 DEF IInv, TypeOK, Step, Call, Exists, ReadMeta, LoadCached, LoadFails, Acquire, JitDisabled,
               CheckMeta, ListFiles, RemoveFile, Wiped, Compile, ReplaceObject, ReplaceMeta, ExportFails,
               EndExport, LoadExists, LoadFromDisk, Return, Crash, Moved, Finish, Goto, AfterMiss,
               AfterAcquire, AfterWipe, AfterCompile
      <4> QED BY <4>1, NamesAssumption DEF IInv, TypeOK, CommitMarker, MetaMatches
    <3> QED BY <3>1, <3>2
  <2> QED BY <1>1, <2>1, <2>2, OwnFilesAdded DEF AllOf
<1>2. ASSUME NEW S \in SUBSET Procs, NEW v \in Versions, Upgrade(S, v) PROVE Found'
  <2>1. \A p \in Procs : pc'[p] = "idle"
        BY <1>2 DEF Upgrade, Undisturbed
  <2> QED BY <2>1 DEF Found
<1>3. CASE BreakLock \/ BecomeReadOnly \/ UNCHANGED vars
      BY <1>3 DEF Found, AllOf, BreakLock, BecomeReadOnly, vars, proc
<1>4. Undisturbed'
      BY FaultsKept DEF Undisturbed
<1> QED BY <1>1, <1>2, <1>3, <1>4 DEF Next, Found

LEMMA OwnVersionStep == IInv /\ Found /\ Handed /\ OwnVersion /\ [Next]_vars => OwnVersion'
<1> SUFFICES ASSUME IInv, Found, Handed, OwnVersion, [Next]_vars, Undisturbed, NEW q \in Procs
             PROVE  got'[q] \in {version'[q], None, Error}
    BY FaultsKept DEF OwnVersion, Undisturbed
<1>0. got[q] \in {version[q], None, Error} /\ ~readonly
      BY UndisturbedFacts DEF OwnVersion, Undisturbed
<1>1. ASSUME NEW p \in Procs, Step(p) PROVE got'[q] \in {version'[q], None, Error}
  <2>1. version' = version
        BY <1>1 DEF Step, Call, Exists, ReadMeta, LoadCached, LoadFails, Acquire, JitDisabled, CheckMeta,
           ListFiles, RemoveFile, Wiped, Compile, ReplaceObject, ReplaceMeta, ExportFails, EndExport,
           LoadExists, LoadFromDisk, Return, Crash, Moved, Finish, proc
  <2>2. CASE LoadCached(p)
    <3>1. Object(p) \in {version[p], None}
          BY <2>2 DEF IInv, TypeOK, Found, AllOf, LoadCached, LoadFails, Object
    <3> QED BY <1>0, <2>1, <2>2, <3>1 DEF IInv, TypeOK, LoadCached, LoadFails, Moved, Finish
  <2>3. CASE LoadFromDisk(p)
    <3>1. Object(p) \in {version[p], None}
          BY <1>0, <2>3 DEF IInv, TypeOK, Clean, AfterTheWipe, AllOf, LoadFromDisk, Object
    <3> QED BY <1>0, <2>1, <2>3, <3>1 DEF IInv, TypeOK, LoadFromDisk, Finish
  <2>4. CASE ~LoadCached(p) /\ ~LoadFromDisk(p)
        BY <1>0, <1>1, <2>1, <2>4 DEF IInv, TypeOK, Step, Call, Exists, ReadMeta, LoadFails, Acquire, JitDisabled,
           CheckMeta, ListFiles, RemoveFile, Wiped, Compile, ReplaceObject, ReplaceMeta, ExportFails, EndExport,
           LoadExists, Return, Crash, Moved, Finish
  <2> QED BY <2>2, <2>3, <2>4
<1>2. ASSUME NEW S \in SUBSET Procs, NEW v \in Versions, Upgrade(S, v)
      PROVE  got'[q] \in {version'[q], None, Error}
      BY <1>2 DEF Undisturbed, Handed, Upgrade
<1>3. CASE BreakLock \/ BecomeReadOnly \/ UNCHANGED vars
      BY <1>0, <1>3 DEF BreakLock, BecomeReadOnly, vars, proc
<1> QED BY <1>1, <1>2, <1>3 DEF Next

\* Whatever path a call takes, a process is handed the kernel made from its own
\* sources, unless versions overlap or the directory becomes read-only.
THEOREM OwnVersionHolds == Spec => []OwnVersion
<1>1. Init => Found /\ Handed /\ OwnVersion
      BY DEF Init, Found, Handed, OwnVersion
<1>2. IInv /\ (Found /\ Handed /\ OwnVersion) /\ [Next]_vars => (Found /\ Handed /\ OwnVersion)'
      BY HandedStep, FoundStep, OwnVersionStep
<1> QED BY InductiveInvariant, <1>1, <1>2, PTL DEF Spec

-----------------------------------------------------------------------------
(* What build_and_load compiles under an intact lock.                      *)

\* A process that looked under the lock and found nothing it can load.
Missed(p) == mode[p] = "build" /\ pc[p] \in {"check", "list", "wipe", "compile"}
Lacking(p) == ~broken /\ Missed(p) => ~(MetaMatches(p) /\ Object(p) = version[p]) \/ unloadable[p]
Missing == \A p \in Procs : Lacking(p)

LEMMA AloneUnderLock ==
  ASSUME IInv, ~broken, NEW p \in Procs, NEW q \in Procs, inside[p], inside[q]
  PROVE  p = q
BY DEF IInv, MutualExclusion

LEMMA MissingStep == IInv /\ Missing /\ [Next]_vars => Missing'
<1> SUFFICES ASSUME IInv, Missing, [Next]_vars PROVE Missing'
    OBVIOUS
<1>1. ASSUME NEW p \in Procs, Step(p), NEW q \in Procs, ~broken, Missed(q)' PROVE Lacking(q)'
  <2>1. CASE q = p
    <3>1. version' = version /\ kernel'[p] \in Kernels
          BY <1>1, <2>1 DEF IInv, TypeOK, Missed, Step, Call, Exists, ReadMeta, LoadCached, LoadFails, Acquire, JitDisabled,
             CheckMeta, ListFiles, RemoveFile, Wiped, Compile, ReplaceObject, ReplaceMeta, ExportFails,
             EndExport, LoadExists, LoadFromDisk, Return, Crash, Moved, Finish, Goto, proc
    <3>2. CASE Exists(p) \/ ReadMeta(p) \/ LoadCached(p)
          BY <1>1, <2>1, <3>1, <3>2, NamesAssumption DEF IInv, TypeOK, Missed, Lacking, Exists, ReadMeta, LoadCached,
             Moved, Finish, Goto, MetaMatches, Object, proc
    <3>2a. CASE LoadFails(p)
      <4>1. AfterMiss(p) = "check"
            BY <1>1, <2>1, <3>2a DEF IInv, TypeOK, Missed, LoadFails, Goto, AfterMiss, proc
      <4>2. inside[p]
            BY <4>1, <3>2a DEF AfterMiss
      <4>3. unloadable'[p] \/ Object(p) = None
            BY <3>2a, <4>2 DEF IInv, TypeOK, LoadFails
      <4> QED BY <2>1, <3>1, <3>2a, <4>3, NamesAssumption DEF IInv, TypeOK, Lacking, LoadFails, MetaMatches, Object, proc
    <3>3. CASE CheckMeta(p) \/ ListFiles(p) \/ Wiped(p)
          BY <1>1, <2>1, <3>1, <3>3 DEF IInv, TypeOK, Missing, Missed, Lacking, CheckMeta, ListFiles, Wiped,
             Moved, Goto, MetaMatches, Object, AfterWipe, proc, env
    <3>4. CASE RemoveFile(p)
          BY <1>1, <2>1, <3>1, <3>4, NamesAssumption DEF IInv, TypeOK, Missing, Missed, Lacking, RemoveFile,
             MetaMatches, Object, proc, env
    <3>5. CASE Acquire(p) \/ (\E k \in Kernels, m \in {"build", "persist"} : Call(p, k, m)) \/ JitDisabled(p)
               \/ Compile(p) \/ ReplaceObject(p) \/ ReplaceMeta(p) \/ ExportFails(p) \/ LoadExists(p)
               \/ LoadFromDisk(p) \/ Return(p) \/ Crash(p)
      <4>1. ~Missed(p)'
            BY <3>5 DEF IInv, TypeOK, Missed, Acquire, Call, JitDisabled, Compile, ReplaceObject, ReplaceMeta, ExportFails,
               EndExport, LoadExists, LoadFromDisk, Return, Crash, Moved, Finish, Goto, AfterAcquire,
               AfterCompile, proc
      <4> QED BY <1>1, <2>1, <4>1
    <3> QED BY <1>1, <3>2, <3>2a, <3>3, <3>4, <3>5 DEF Step
  <2>2. CASE q # p
    <3>1. Missed(q) /\ version'[q] = version[q] /\ kernel'[q] = kernel[q]
          BY <1>1, <2>2 DEF IInv, TypeOK, Missed, Step, Call, Exists, ReadMeta, LoadCached, LoadFails, Acquire, JitDisabled,
             CheckMeta, ListFiles, RemoveFile, Wiped, Compile, ReplaceObject, ReplaceMeta, ExportFails,
             EndExport, LoadExists, LoadFromDisk, Return, Crash, Moved, Finish, Goto, proc
    <3>2. inside[q]
          BY <3>1 DEF IInv, InsideWhereLocked, UnderLock, Locked, Missed
    <3>3. ~inside[p]
          BY <1>1, <2>2, <3>2, AloneUnderLock
    <3>4. ~RemoveFile(p) /\ ~ReplaceObject(p) /\ ~ReplaceMeta(p)
          BY <3>3 DEF IInv, InsideWhereLocked, UnderLock, Locked, RemoveFile, ReplaceObject, ReplaceMeta
    <3>5. disk' = disk
          BY <1>1, <3>4 DEF Step, Call, Exists, ReadMeta, LoadCached, LoadFails, Acquire, JitDisabled, CheckMeta,
             ListFiles, Wiped, Compile, ExportFails, LoadExists, LoadFromDisk, Return, Crash, Moved, Finish
    <3>6. unloadable'[q] = unloadable[q]
          BY <1>1, <2>2, <3>4 DEF IInv, TypeOK, Step, Call, Exists, ReadMeta, LoadCached, LoadFails, Acquire,
             JitDisabled, CheckMeta, ListFiles, Wiped, Compile, ExportFails, EndExport, LoadExists,
             LoadFromDisk, Return, Crash, Moved, Finish, LeaveLock
    <3> QED BY <1>1, <3>1, <3>5, <3>6 DEF Missing, Lacking, MetaMatches, Object
  <2> QED BY <2>1, <2>2
<1>2. ASSUME NEW p \in Procs, Step(p) PROVE Missing'
  <2>1. broken' = broken
        BY <1>2 DEF Step, Call, Exists, ReadMeta, LoadCached, LoadFails, Acquire, JitDisabled, CheckMeta,
           ListFiles, RemoveFile, Wiped, Compile, ReplaceObject, ReplaceMeta, ExportFails,
           EndExport, LoadExists, LoadFromDisk, Return, Crash, Moved, Finish, env
  <2> QED BY <1>1, <1>2, <2>1 DEF Missing, Lacking
<1>3. ASSUME NEW S \in SUBSET Procs, NEW v \in Versions, Upgrade(S, v) PROVE Missing'
  <2>1. \A p \in Procs : Missed(p)' => Missed(p) /\ version'[p] = version[p]
        BY <1>3 DEF IInv, TypeOK, Missed, Upgrade
  <2> QED BY <1>3, <2>1 DEF Missing, Lacking, MetaMatches, Object, Upgrade, env
<1>4. CASE BreakLock \/ BecomeReadOnly \/ UNCHANGED vars
      BY <1>4 DEF Missing, Lacking, Missed, MetaMatches, Object, BreakLock, BecomeReadOnly, vars, proc, env
<1> QED BY <1>2, <1>3, <1>4 DEF Next

\* Under an intact lock build_and_load compiles a kernel the cache holds only
\* if it has just failed to load this object: it looks again under the lock,
\* and nobody else writes until it compiles.
THEOREM CompiledOnceHolds == Spec => []CompiledOnce
<1>1. Init => Missing
      BY DEF Init, Missing, Lacking, Missed
<1>2. Missing => CompiledOnce
      BY DEF Missing, Lacking, Missed, CompiledOnce
<1> QED BY InductiveInvariant, MissingStep, <1>1, <1>2, PTL DEF Spec

-----------------------------------------------------------------------------
(* The directory implements KernelCache.                                   *)

Entries == [k \in Kernels |-> IF disk[Meta] = None THEN None ELSE disk[k]]

LEMMA StutterStep ==
  ASSUME IInv, disk' = disk
  PROVE  UNCHANGED Abstract!vars
BY DEF Abstract!vars

\* A file that goes is one entry less, or all of them if it is meta.json.
LEMMA RemoveRefines ==
  ASSUME IInv, NEW p \in Procs, RemoveFile(p)
  PROVE  [Abstract!Next]_(Abstract!vars)
<1>1. PICK f \in Files : disk' = disk \/ disk' = [disk EXCEPT ![f] = None]
      BY DEF IInv, TypeOK, RemoveFile
<1>2. disk \in [Files -> Versions \cup {None}]
      BY DEF IInv, TypeOK
<1>3. CASE disk' = disk
      BY <1>3, StutterStep
<1>4. CASE disk' = [disk EXCEPT ![f] = None] /\ f = Meta
  <2>1. disk'[Meta] = None /\ Entries' = Abstract!Empty
        BY <1>2, <1>4 DEF Entries, Abstract!Empty
  <2> QED BY <2>1 DEF Abstract!Next, Abstract!Reset, Entries
<1>5. CASE disk' = [disk EXCEPT ![f] = None] /\ f # Meta
  <2>1. f \in Kernels /\ disk'[Meta] = disk[Meta]
        BY <1>1, <1>2, <1>5
  <2>2. Entries' = [Entries EXCEPT ![f] = None]
        BY <1>2, <1>5, <2>1, NamesAssumption DEF Entries
  <2> QED BY <2>1, <2>2 DEF Abstract!Next, Abstract!Forget, Entries
<1> QED BY <1>1, <1>3, <1>4, <1>5

\* An object that is replaced is an entry more, if the marker is there.
LEMMA ObjectRefines ==
  ASSUME IInv, NEW p \in Procs, ReplaceObject(p)
  PROVE  [Abstract!Next]_(Abstract!vars)
<1>1. AllOf(version[p]) /\ disk \in [Files -> Versions \cup {None}] /\ kernel[p] \in Kernels
      BY DEF IInv, TypeOK, Clean, AfterTheWipe, ReplaceObject
<1>2. disk' = [disk EXCEPT ![kernel[p]] = version[p]] /\ disk'[Meta] = disk[Meta]
      BY <1>1, NamesAssumption DEF ReplaceObject
<1>3. CASE disk[Meta] = None
  <2>1. Entries' = Entries
        BY <1>2, <1>3 DEF Entries
  <2> QED BY <1>2, <2>1 DEF Abstract!vars, Entries
<1>4. CASE disk[Meta] # None
  <2>1. disk[Meta] = version[p]
        BY <1>1, <1>4 DEF AllOf
  <2>2. Entries' = [Entries EXCEPT ![kernel[p]] = disk[Meta]]
        BY <1>1, <1>2, <1>4, <2>1, NamesAssumption DEF Entries
  <2> QED BY <1>1, <1>2, <1>4, <2>2 DEF Abstract!Next, Abstract!Add, Entries
<1> QED BY <1>3, <1>4

\* The marker makes the entries next to it count, all of its version.
LEMMA MetaRefines ==
  ASSUME IInv, NEW p \in Procs, ReplaceMeta(p)
  PROVE  [Abstract!Next]_(Abstract!vars)
<1>1. disk \in [Files -> Versions \cup {None}] /\ version[p] \in Versions
      BY DEF IInv, TypeOK
<1>2. disk' = [disk EXCEPT ![Meta] = version[p]]
      BY DEF ReplaceMeta
<1>3. CASE disk[Meta] = version[p]
  <2>1. disk' = disk
        BY <1>1, <1>2, <1>3
  <2> QED BY <2>1, StutterStep
<1>4. CASE disk[Meta] # version[p]
  <2>1. AllOf(version[p])
        BY <1>4 DEF IInv, Clean, AfterTheWipe, ReplaceMeta, MetaMatches
  <2>2. disk[Meta] = None /\ disk'[Meta] = version[p]
        BY <1>1, <1>2, <1>4, <2>1 DEF AllOf
  <2>3. Entries' \in [Kernels -> {version[p], None}]
        BY <1>1, <1>2, <2>1, <2>2, NamesAssumption DEF Entries, AllOf
  <2> QED BY <1>1, <2>2, <2>3 DEF Abstract!Next, Abstract!Commit, Entries
<1> QED BY <1>3, <1>4

\* Every step on the directory is a step of the cache that readers are promised:
\* no crash, wipe, export or broken lock lets entries of two versions count.
THEOREM Refinement == Spec => RefinesKernelCache
<1>1. Init => Abstract!Init
      BY DEF Init, Abstract!Init
<1>2. IInv /\ [Next]_vars => [Abstract!Next]_(Abstract!vars)
  <2> SUFFICES ASSUME IInv, [Next]_vars PROVE [Abstract!Next]_(Abstract!vars)
      OBVIOUS
  <2>1. ASSUME NEW p \in Procs, Step(p) PROVE [Abstract!Next]_(Abstract!vars)
    <3>1. CASE RemoveFile(p) \/ ReplaceObject(p) \/ ReplaceMeta(p)
          BY <3>1, RemoveRefines, ObjectRefines, MetaRefines
    <3>2. CASE ~RemoveFile(p) /\ ~ReplaceObject(p) /\ ~ReplaceMeta(p)
      <4>1. disk' = disk
            BY <2>1, <3>2 DEF Step, Call, Exists, ReadMeta, LoadCached, LoadFails, Acquire, JitDisabled, CheckMeta,
               ListFiles, Wiped, Compile, ExportFails, LoadExists, LoadFromDisk, Return, Crash, Moved, Finish
      <4> QED BY <4>1, StutterStep
    <3> QED BY <3>1, <3>2
  <2>2. ASSUME NEW S \in SUBSET Procs, NEW v \in Versions, Upgrade(S, v) PROVE [Abstract!Next]_(Abstract!vars)
        BY <2>2, StutterStep DEF Upgrade
  <2>3. CASE BreakLock \/ BecomeReadOnly \/ UNCHANGED vars
    <3>1. disk' = disk
          BY <2>3 DEF BreakLock, BecomeReadOnly, vars
    <3> QED BY <3>1, StutterStep
  <2> QED BY <2>1, <2>2, <2>3 DEF Next
<1> QED BY <1>1, <1>2, InductiveInvariant, PTL DEF Spec, Abstract!Spec, RefinesKernelCache
=============================================================================
