---------------------------- MODULE CuteDslCache ----------------------------
(***************************************************************************)
(* The cache of CuTe-DSL kernels on disk (flashinfer/jit/cute_dsl_core.py) *)
(* under JitSpec.build_and_load (flashinfer/jit/core.py) and under the     *)
(* precompilation workers (flashinfer/gemm/gemm_mm_fp4_cute_dsl.py).       *)
(*                                                                         *)
(* The kernels of an op family share one directory: one object file per    *)
(* kernel and one meta.json, the commit marker, that names the version of  *)
(* sources and compiler all of them were made from.  Processes load from   *)
(* it without a lock, and build, wipe and commit under the file lock of    *)
(* the op family; files are replaced and removed one at a time.            *)
(*                                                                         *)
(* Processes crash at any point.  The faults of a behaviour are chosen at  *)
(* its start: "overlap", processes of several versions run at a time;      *)
(* "break", somebody deletes the lock file while its holder is inside;     *)
(* "readonly", the directory can no longer be written.                     *)
(***************************************************************************)
EXTENDS FiniteSets

CONSTANTS Procs, Kernels, Versions,
          FaultSets,   \* the sets of faults to consider
          None,        \* no file, nobody, no kernel
          Error        \* the call raised

FaultKinds == {"overlap", "break", "readonly"}

\* A broken lock keeps apart neither builders of two versions nor those of one.
ASSUME FaultsAssumption == /\ FaultSets \subseteq SUBSET FaultKinds
                           /\ \A F \in FaultSets : ~({"overlap", "break"} \subseteq F)

Meta == "meta.json"
Files == Kernels \cup {Meta}

ASSUME NamesAssumption == /\ Meta \notin Kernels
                          /\ None \notin Procs \cup Versions
                          /\ Error \notin Versions \cup {None}

VARIABLES
  faults,
  disk,      \* disk[f]: the version file f was made from, or None
  readonly,  \* the directory cannot be written any more
  lock,      \* the process that holds the lock file of this name, or None
  broken,    \* the lock file was deleted under its holder
  version,   \* version[p]: the expected_meta of process p
  pc,        \* where process p is in build_and_load or in the worker
  mode,      \* "build": build_and_load; "persist": a precompilation worker
  kernel,    \* the kernel p asks for
  inside,    \* p is in the block under the lock
  unloadable, \* p is there and could not load the object it found (kept for
              \* CompiledOnce; the code keeps no record)
  todo,      \* the files p's rmtree listed and did not remove yet
  got        \* the version of the kernel p was handed, or None or Error

vars == <<faults, disk, readonly, lock, broken, version, pc, mode, kernel, inside, unloadable, todo, got>>
proc == <<version, mode, kernel>>
env == <<faults, readonly, broken>>

Object(p) == disk[kernel[p]]
MetaMatches(p) == disk[Meta] = version[p]

Init ==
  /\ faults \in FaultSets
  /\ disk = [f \in Files |-> None]
  /\ readonly = FALSE /\ lock = None /\ broken = FALSE
  /\ \E v \in Versions : version = [p \in Procs |-> v]
  /\ pc = [p \in Procs |-> "idle"]
  /\ mode = [p \in Procs |-> "build"]
  /\ kernel \in [Procs -> Kernels] /\ \A p, q \in Procs : kernel[p] = kernel[q]
  /\ inside = [p \in Procs |-> FALSE] /\ unloadable = [p \in Procs |-> FALSE]
  /\ todo = [p \in Procs |-> {}]
  /\ got = [p \in Procs |-> None]

-----------------------------------------------------------------------------
Goto(p, l) == pc' = [pc EXCEPT ![p] = l]

\* The end of the with statement: p's own lock, which need not be the one of
\* the file that has the name now.
LeaveLock(p) == /\ inside' = [inside EXCEPT ![p] = FALSE]
                /\ unloadable' = [unloadable EXCEPT ![p] = FALSE]
                /\ lock' = IF lock = p THEN None ELSE lock

\* The call ends with result r.
Finish(p, r) == /\ Goto(p, "done") /\ LeaveLock(p)
                /\ got' = [got EXCEPT ![p] = r]
                /\ UNCHANGED <<disk, todo, proc, env>>

Moved(p, l) == /\ Goto(p, l)
               /\ UNCHANGED <<disk, lock, inside, unloadable, todo, got, proc, env>>

\* Where a lookup that finds nothing leads: first without the lock, then under
\* it; a worker compiles first.
AfterMiss(p) == IF mode[p] = "persist" THEN "compile"
                ELSE IF inside[p] THEN "check" ELSE "acquire"
\* Mutant: does not look again under the lock.
AfterAcquireNoLook(p) == "check"
AfterAcquire(p) == IF mode[p] = "persist" THEN "check" ELSE "exists"
AfterWipe(p) == IF mode[p] = "persist" THEN "export" ELSE "compile"
AfterCompile(p) == IF mode[p] = "persist" THEN "acquire" ELSE "export"

\* build_and_load of a spec for kernel k, or a worker's turn.
Call(p, k, m) ==
  /\ pc[p] = "idle"
  /\ kernel' = [kernel EXCEPT ![p] = k] /\ mode' = [mode EXCEPT ![p] = m]
  /\ Goto(p, "exists")
  /\ UNCHANGED <<disk, lock, inside, unloadable, todo, got, version, env>>

\* try_load and is_compiled: three looks at the disk, each at its own time.
Exists(p) == /\ pc[p] = "exists"
             /\ Moved(p, IF Object(p) # None THEN "meta" ELSE AfterMiss(p))

\* Mutant: does not compare meta.json.
ReadMetaAnyway(p) ==
  /\ pc[p] = "meta"
  /\ IF mode[p] = "build" THEN Moved(p, "load") ELSE Finish(p, None)

ReadMeta(p) ==
  /\ pc[p] = "meta"
  /\ \/ MetaMatches(p) /\ mode[p] = "build" /\ Moved(p, "load")
     \/ MetaMatches(p) /\ mode[p] = "persist" /\ Finish(p, None)
     \/ ~MetaMatches(p) /\ Moved(p, AfterMiss(p))

LoadCached(p) == pc[p] = "load" /\ Object(p) # None /\ Finish(p, Object(p))

\* load_module or the look for the symbol raises: the object has gone, or is
\* corrupt, or the device cannot run it.  This reads as a miss.
LoadFails(p) ==
  /\ pc[p] = "load"
  /\ unloadable' = [unloadable EXCEPT ![p] = inside[p] /\ Object(p) # None]
  /\ Goto(p, AfterMiss(p))
  /\ UNCHANGED <<disk, lock, inside, todo, got, proc, env>>

Acquire(p) ==
  /\ pc[p] = "acquire" /\ lock = None
  /\ lock' = p /\ inside' = [inside EXCEPT ![p] = TRUE]
  /\ Goto(p, AfterAcquire(p))
  /\ UNCHANGED <<disk, unloadable, todo, got, proc, env>>

\* FLASHINFER_DISABLE_JIT is set in the environment of p.
JitDisabled(p) == pc[p] = "check" /\ mode[p] = "build" /\ Finish(p, Error)

\* build and compile_and_persist under the lock: a module of another version,
\* or of none, is removed.
\* Mutant: builds on top of what is there.
CheckMetaNoWipe(p) == pc[p] = "check" /\ Moved(p, AfterWipe(p))
CheckMeta(p) == /\ pc[p] = "check"
                /\ Moved(p, IF MetaMatches(p) THEN AfterWipe(p) ELSE "list")

\* Mutant: leaves the commit marker behind.
PresentObjects == {f \in Kernels : disk[f] # None}
Present == {f \in Files : disk[f] # None}

ListFiles(p) == /\ pc[p] = "list"
                /\ todo' = [todo EXCEPT ![p] = Present]
                /\ Goto(p, "wipe")
                /\ UNCHANGED <<disk, lock, inside, unloadable, got, proc, env>>

\* rmtree in whatever order the directory lists; errors are ignored.  Removal
\* fails in a directory that cannot be written, and then all writes fail too.
RemoveFile(p) ==
  /\ pc[p] = "wipe"
  /\ \E f \in todo[p] :
       /\ todo' = [todo EXCEPT ![p] = @ \ {f}]
       /\ disk' = IF readonly THEN disk ELSE [disk EXCEPT ![f] = None]
  /\ UNCHANGED <<pc, lock, inside, unloadable, got, proc, env>>

Wiped(p) == pc[p] = "wipe" /\ todo[p] = {} /\ Moved(p, AfterWipe(p))

\* compile_fn, which can raise.
Compile(p) == /\ pc[p] = "compile"
              /\ Moved(p, AfterCompile(p)) \/ Finish(p, Error)

\* _export: the object file first, then meta.json unless it is there.
ReplaceObject(p) ==
  /\ pc[p] = "export" /\ ~readonly
  /\ disk' = [disk EXCEPT ![kernel[p]] = version[p]]
  /\ Goto(p, "commit")
  /\ UNCHANGED <<lock, inside, unloadable, todo, got, proc, env>>

EndExport(p) == IF mode[p] = "build"
                THEN Goto(p, "return") /\ UNCHANGED <<lock, inside, unloadable, got>>
                ELSE Goto(p, "done") /\ LeaveLock(p) /\ UNCHANGED got

ReplaceMeta(p) ==
  /\ pc[p] = "commit" /\ (readonly => MetaMatches(p))
  /\ disk' = [disk EXCEPT ![Meta] = version[p]]
  /\ EndExport(p)
  /\ UNCHANGED <<todo, proc, env>>

\* Any step of _export can fail; the failure is logged.
ExportFails(p) == /\ pc[p] \in {"export", "commit"}
                  /\ EndExport(p)
                  /\ UNCHANGED <<disk, todo, proc, env>>

\* load: the file if there is one, else the kernel in memory.
LoadExists(p) ==
  /\ pc[p] = "return"
  /\ IF Object(p) # None THEN Moved(p, "reload") ELSE Finish(p, version[p])

\* _load_from_disk, which can raise here too.
LoadFromDisk(p) ==
  /\ pc[p] = "reload"
  /\ \/ Object(p) # None /\ Finish(p, Object(p))
     \/ Finish(p, Error)

Return(p) == /\ pc[p] = "done"
             /\ Goto(p, "idle")
             /\ got' = [got EXCEPT ![p] = None]
             /\ UNCHANGED <<disk, lock, inside, unloadable, todo, proc, env>>

-----------------------------------------------------------------------------
\* The process dies; the operating system releases its lock.
Crash(p) ==
  /\ pc[p] # "idle"
  /\ Goto(p, "idle") /\ LeaveLock(p)
  /\ todo' = [todo EXCEPT ![p] = {}]
  /\ got' = [got EXCEPT ![p] = None]
  /\ UNCHANGED <<disk, proc, env>>

\* Sources or compiler change and the processes S start again.
Upgrade(S, v) ==
  /\ S = Procs \/ "overlap" \in faults
  /\ \A p \in S : pc[p] = "idle"
  /\ version' = [p \in Procs |-> IF p \in S THEN v ELSE version[p]]
  /\ UNCHANGED <<disk, lock, pc, mode, kernel, inside, unloadable, todo, got, env>>

BreakLock ==
  /\ "break" \in faults /\ ~broken /\ lock # None
  /\ broken' = TRUE /\ lock' = None
  /\ UNCHANGED <<faults, disk, readonly, version, pc, mode, kernel, inside, unloadable, todo, got>>

BecomeReadOnly ==
  /\ "readonly" \in faults /\ ~readonly
  /\ readonly' = TRUE
  /\ UNCHANGED <<faults, disk, lock, broken, version, pc, mode, kernel, inside, unloadable, todo, got>>

Step(p) ==
  \/ \E k \in Kernels, m \in {"build", "persist"} : Call(p, k, m)
  \/ Exists(p) \/ ReadMeta(p) \/ LoadCached(p) \/ LoadFails(p) \/ Acquire(p)
  \/ JitDisabled(p) \/ CheckMeta(p) \/ ListFiles(p) \/ RemoveFile(p) \/ Wiped(p) \/ Compile(p)
  \/ ReplaceObject(p) \/ ReplaceMeta(p) \/ ExportFails(p)
  \/ LoadExists(p) \/ LoadFromDisk(p) \/ Return(p) \/ Crash(p)

Next == \/ \E p \in Procs : Step(p)
        \/ \E S \in SUBSET Procs, v \in Versions : Upgrade(S, v)
        \/ BreakLock \/ BecomeReadOnly

Spec == Init /\ [][Next]_vars

-----------------------------------------------------------------------------
PcType == {"idle", "exists", "meta", "load", "acquire", "check", "list", "wipe",
           "compile", "export", "commit", "return", "reload", "done"}

TypeOK ==
  /\ faults \in FaultSets
  /\ disk \in [Files -> Versions \cup {None}]
  /\ readonly \in BOOLEAN /\ broken \in BOOLEAN
  /\ lock \in Procs \cup {None}
  /\ version \in [Procs -> Versions]
  /\ pc \in [Procs -> PcType]
  /\ mode \in [Procs -> {"build", "persist"}]
  /\ kernel \in [Procs -> Kernels]
  /\ inside \in [Procs -> BOOLEAN] /\ unloadable \in [Procs -> BOOLEAN]
  /\ todo \in [Procs -> SUBSET Files]
  /\ got \in [Procs -> Versions \cup {None, Error}]

\* All files are v's or not there.
AllOf(v) == \A f \in Files : disk[f] \in {v, None}

\* The commit marker vouches for every object next to it, whichever wipe or
\* export is interrupted at whichever file: what is written between the two
\* os.replace of _export and during rmtree never counts as an entry of another
\* version.
CommitMarker == disk[Meta] # None => AllOf(disk[Meta])

\* Where a process is in the block under the lock.
Locked == {"check", "list", "wipe", "export", "commit", "return", "reload"}
UnderLock(p) == pc[p] \in Locked \/ (pc[p] = "compile" /\ mode[p] = "build")
Unlocked == {"idle", "acquire", "done"}

\* Without "overlap" all processes are of one version; without "break" one at
\* most is under the lock.
OneVersion == "overlap" \notin faults => \A p, q \in Procs : version[p] = version[q]
MutualExclusion == /\ \A p \in Procs : lock = p => inside[p]
                   /\ ~broken => \A p \in Procs : inside[p] => lock = p
                   /\ broken => "break" \in faults
                   /\ readonly => "readonly" \in faults
InsideWhereLocked == \A p \in Procs : /\ UnderLock(p) => inside[p]
                                      /\ pc[p] \in Unlocked => ~inside[p]
                                      /\ pc[p] = "compile" => (inside[p] <=> mode[p] = "build")
                                      /\ mode[p] = "persist" /\ pc[p] \in {"exists", "meta"} => ~inside[p]
                                      /\ pc[p] \in {"load", "return", "reload"} => mode[p] = "build"

\* While p wipes, what is not its own is still on its list; from then on
\* everything on disk is its own.
Wiping(p) == pc[p] = "wipe" => \A f \in Files : disk[f] \in {version[p], None} \/ f \in todo[p]
AfterTheWipe(p) == \/ pc[p] \in {"export", "commit", "return", "reload"}
                   \/ pc[p] = "compile" /\ mode[p] = "build"
Clean == \A p \in Procs : ~readonly => Wiping(p) /\ (AfterTheWipe(p) => AllOf(version[p]))

\* The inductive invariant of CuteDslCache_proofs.
IInv == /\ TypeOK /\ OneVersion /\ MutualExclusion /\ InsideWhereLocked
        /\ Clean /\ CommitMarker

\* Whatever path a call takes, a process is handed the kernel made from its own
\* sources, with no lock around try_load and the lock file deleted at any time.
OwnVersion == faults \cap {"overlap", "readonly"} = {} =>
                \A p \in Procs : got[p] \in {version[p], None, Error}

\* Design doc 2.4: "makes each kernel compile at most once across processes",
\* and an "unloadable artifact ... reads as a miss, falling through to build()".
\* Under an intact lock, build_and_load compiles a kernel that the cache holds
\* only if it has itself failed to load this object since it took the lock.
CompiledOnce ==
  \A p \in Procs : pc[p] = "compile" /\ mode[p] = "build" /\ ~broken
                     => ~(MetaMatches(p) /\ Object(p) = version[p]) \/ unloadable[p]

\* Docstring of build(): "Persistence failures degrade gracefully: the
\* in-process kernel is kept for load(); only the disk write is lost."
PersistenceFailureIsGraceful ==
  faults = {"readonly"} => \A p \in Procs : got[p] \in {version[p], None, Error}

\* Every step on the directory is a step of the cache the readers are promised.
Abstract == INSTANCE KernelCache
  WITH version <- disk[Meta],
       entries <- [k \in Kernels |-> IF disk[Meta] = None THEN None ELSE disk[k]]

\* CuteDslCache implements KernelCache: no interleaving of wipes, exports,
\* crashes and broken locks ever lets entries of two versions count together.
RefinesKernelCache == Abstract!Spec
=============================================================================
