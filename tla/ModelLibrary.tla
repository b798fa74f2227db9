----------------------------- MODULE ModelLibrary -----------------------------
(***************************************************************************)
(* The model catalog and who changes it (app/model_library_service.py,      *)
(* app/model_library_routes.py, app/model_manager.py): models.json, the     *)
(* catalog in memory, the index of user-owned models and the cached         *)
(* official manifest.                                                       *)
(*                                                                         *)
(* Each change runs in a worker thread under _catalog_lock and takes        *)
(* several writes; a write may fail (a full disk) and the server may die    *)
(* between two of them.  A definition is 0 (absent), the revision of the    *)
(* official one, Custom (same source, edited by the user) or Local (a       *)
(* model imported from a directory).  Whether a model is active is the      *)
(* lifecycle's matter and a choice here.                                    *)
(***************************************************************************)
EXTENDS Integers, Sequences, FiniteSets

CONSTANTS
  LibIds,
  Jobs,          \* worker threads that change the catalog
  MaxRevision    \* bound: official manifests published

Nobody == "nobody"

ASSUME LibraryAssumption ==
  IsFiniteSet(LibIds) /\ IsFiniteSet(Jobs) /\ Nobody \notin Jobs /\ MaxRevision \in Nat \ {0}

VARIABLES
  libFile,     \* models.json
  libMem,      \* manager.catalog
  libUsers,    \* model-library-user.json
  libDirs,     \* complete directories in the managed models root
  libCache,    \* revision of model-library-manifest.json, 0: none
  published,   \* revision of the official manifest
  libLock,     \* the job that holds _catalog_lock
  jobs,
  refreshing,  \* the job that holds the route's refresh_lock
  accepted,    \* history: models whose registration was reported as done
  owned,       \* history: of these, the ones imported or adopted by the user
  forgotten    \* history: of these, the ones that a failed import's rollback touched

libDisk == <<libFile, libUsers, libDirs, libCache>>
libHistory == <<accepted, owned, forgotten>>
libVars == <<libDisk, libMem, published, libLock, jobs, refreshing, libHistory>>

Custom == MaxRevision + 1
Local == MaxRevision + 2
NoJob == [op |-> "none", pc |-> "idle", ids |-> {}, rev |-> 0, plan |-> <<>>,
          staged |-> <<>>, file |-> <<>>, users |-> {}]
Ops == {"defs", "adopt", "copy", "refresh"}

Catalogs == [LibIds -> 0 .. Local]

LibTypeOK ==
  /\ libFile \in Catalogs /\ libMem \in Catalogs
  /\ libUsers \subseteq LibIds /\ libDirs \subseteq LibIds
  /\ libCache \in 0 .. MaxRevision /\ published \in 1 .. MaxRevision
  /\ libLock \in Jobs \cup {Nobody} /\ refreshing \in Jobs \cup {Nobody}
  /\ \A j \in Jobs : jobs[j].pc \in {"idle", "download", "copying", "wait", "writing", "cleanup", "rollback", "cache"}
  /\ \A j \in Jobs : /\ jobs[j].pc = "writing" <=> libLock = j
                     /\ refreshing = j => jobs[j].op = "refresh"
  /\ accepted \subseteq LibIds /\ owned \subseteq accepted

LibInit ==
  /\ libFile \in [LibIds -> {0, 1}] /\ libMem = libFile
  /\ libUsers = {} /\ libDirs \in SUBSET {i \in LibIds : libFile[i] = 0} /\ libCache = 0
  /\ published = 1 /\ libLock = Nobody /\ refreshing = Nobody
  /\ jobs = [j \in Jobs |-> NoJob]
  /\ accepted = {} /\ owned = {} /\ forgotten = {}

-----------------------------------------------------------------------------
(* Starting a request.                                                      *)

Begin(j, job) == jobs[j].pc = "idle" /\ jobs' = [jobs EXCEPT ![j] = job]

\* POST /register: one step of the event loop, its failed save is undone in memory.
RegisterModel(i) ==
  /\ libLock = Nobody /\ libMem[i] = 0
  /\ \/ /\ libMem' = [libMem EXCEPT ![i] = Custom] /\ libFile' = libMem'
        /\ accepted' = accepted \cup {i}
     \/ UNCHANGED <<libMem, libFile, accepted>>
  /\ UNCHANGED <<libUsers, libDirs, libCache, published, libLock, jobs, refreshing, owned, forgotten>>

StartDefinitions(j, ids) ==
  /\ Begin(j, [NoJob EXCEPT !.op = "defs", !.pc = "wait", !.ids = ids])
  /\ UNCHANGED <<libDisk, libMem, published, libLock, refreshing, libHistory>>

StartAdopt(j, i) ==
  /\ i \in libDirs
  /\ Begin(j, [NoJob EXCEPT !.op = "adopt", !.pc = "wait", !.ids = {i}])
  /\ UNCHANGED <<libDisk, libMem, published, libLock, refreshing, libHistory>>

\* The import looks at the catalog and the target before it copies, without the lock.
StartCopy(j, i) ==
  /\ libMem[i] = 0 /\ i \notin libDirs
  /\ Begin(j, [NoJob EXCEPT !.op = "copy", !.pc = "copying", !.ids = {i}])
  /\ UNCHANGED <<libDisk, libMem, published, libLock, refreshing, libHistory>>

CopyEnds(j, ok) ==
  /\ jobs[j].pc = "copying"
  /\ jobs' = [jobs EXCEPT ![j] = IF ok THEN [@ EXCEPT !.pc = "wait"] ELSE NoJob]
  /\ UNCHANGED <<libDisk, libMem, published, libLock, refreshing, libHistory>>

\* POST /refresh, one at a time: an answer that came late must not replace a newer one.
RefreshAnytime == TRUE
RefreshFree == refreshing = Nobody

StartRefresh(j) ==
  /\ RefreshFree
  /\ Begin(j, [NoJob EXCEPT !.op = "refresh", !.pc = "download"])
  /\ refreshing' = j
  /\ UNCHANGED <<libDisk, libMem, published, libLock, libHistory>>

\* A lock that is not released when the request fails.
KeepRefresh(j) == refreshing' = refreshing
EndRefresh(j) == refreshing' = IF refreshing = j THEN Nobody ELSE refreshing

Downloaded(j, ok) ==
  /\ jobs[j].pc = "download"
  /\ \/ /\ ok
        /\ jobs' = [jobs EXCEPT ![j] = [@ EXCEPT !.pc = "wait", !.rev = published]]
        /\ UNCHANGED refreshing
     \/ ~ok /\ jobs' = [jobs EXCEPT ![j] = NoJob] /\ EndRefresh(j)
  /\ UNCHANGED <<libDisk, libMem, published, libLock, libHistory>>

PublishManifest ==
  /\ published < MaxRevision /\ published' = published + 1
  /\ UNCHANGED <<libDisk, libMem, libLock, jobs, refreshing, libHistory>>

-----------------------------------------------------------------------------
(* The locked part: checks, then the writes of the operation's plan.        *)

Plan(op) == CASE op = "defs"    -> <<"save", "users", "reload">>
              [] op = "refresh" -> <<"save", "reload">>
              [] OTHER          -> <<"users", "save", "reload">>

\* A refresh keeps what the user owns, what has another source and what is active.
OverwritesSameSource(i, active) == libMem[i] \notin {0, Local} /\ i \notin active
Replaceable(i, active) == OverwritesSameSource(i, active) /\ i \notin libUsers
\* A manifest taken for the whole catalog would drop what it does not replace.
MergedFromScratch(rev, active) ==
  [i \in LibIds |-> IF libMem[i] = 0 \/ Replaceable(i, active) THEN rev ELSE 0]
MergedManifest(rev, active) ==
  [i \in LibIds |-> IF libMem[i] = 0 \/ Replaceable(i, active) THEN rev ELSE libMem[i]]

NewCatalog(j, active) ==
  CASE jobs[j].op = "defs"    -> [i \in LibIds |-> IF i \in jobs[j].ids THEN Custom ELSE libMem[i]]
    [] jobs[j].op = "refresh" -> MergedManifest(jobs[j].rev, active)
    [] OTHER                  -> [i \in LibIds |-> IF i \in jobs[j].ids THEN Local ELSE libMem[i]]

\* The checks made again now that the lock is held.
RefusedBeforeOnly(j, active, overwrite) ==
  /\ jobs[j].op = "defs"
  /\ \E i \in jobs[j].ids : libMem[i] \notin {0, Custom} /\ (i \in active \/ ~overwrite)
Refused(j, active, overwrite) ==
  \/ RefusedBeforeOnly(j, active, overwrite)
  \/ jobs[j].op \in {"adopt", "copy"} /\ \E i \in jobs[j].ids : libMem[i] # 0
  \/ jobs[j].op = "copy" /\ jobs[j].ids \cap libDirs # {}

\* Takes the lock, checks, and captures what a failure has to restore.  When the
\* catalog stays as it is, an import still claims its models and a refresh does nothing.
EnterLock(j) ==
  /\ jobs[j].pc = "wait" /\ libLock = Nobody
  /\ \E active \in SUBSET LibIds, overwrite \in BOOLEAN :
       LET staged == NewCatalog(j, active)
           plan == IF staged # libMem THEN Plan(jobs[j].op)
                   ELSE IF jobs[j].op = "refresh" THEN <<>> ELSE <<"users">> IN
       IF Refused(j, active, overwrite)
       THEN jobs' = [jobs EXCEPT ![j] = NoJob] /\ UNCHANGED <<libLock, libDirs>>
       ELSE /\ jobs' = [jobs EXCEPT ![j] = [@ EXCEPT !.pc = "writing", !.staged = staged, !.plan = plan,
                                                     !.file = libMem, !.users = libUsers]]
            /\ libLock' = j
            /\ libDirs' = IF jobs[j].op = "copy" THEN libDirs \cup jobs[j].ids ELSE libDirs
  /\ UNCHANGED <<libFile, libUsers, libCache, libMem, published, refreshing, libHistory>>

WriteStep(j) ==
  /\ jobs[j].pc = "writing" /\ jobs[j].plan # <<>>
  /\ LET step == Head(jobs[j].plan) IN
     /\ libFile' = IF step = "save" THEN jobs[j].staged ELSE libFile
     /\ libUsers' = IF step = "users" THEN libUsers \cup jobs[j].ids ELSE libUsers
     /\ libMem' = IF step = "reload" THEN libFile ELSE libMem
  /\ jobs' = [jobs EXCEPT ![j].plan = Tail(@)]
  /\ UNCHANGED <<libDirs, libCache, published, libLock, refreshing, libHistory>>

\* The lock is released and the request reported as done.
LeaveLock(j) ==
  /\ jobs[j].pc = "writing" /\ jobs[j].plan = <<>>
  /\ libLock' = Nobody
  /\ jobs' = [jobs EXCEPT ![j] = IF @.op = "refresh" THEN [@ EXCEPT !.pc = "cache"] ELSE NoJob]
  /\ accepted' = accepted \cup jobs[j].ids /\ owned' = owned \cup jobs[j].ids
  /\ forgotten' = forgotten \cup (IF jobs[j].op = "adopt" THEN jobs[j].ids \ libDirs ELSE {})
  /\ UNCHANGED <<libDisk, libMem, published, refreshing>>

\* The manifest is cached once it is applied; a failed replacement keeps the old one.
UpdateCache(j, ok) ==
  /\ jobs[j].pc = "cache"
  /\ libCache' = IF ok THEN jobs[j].rev ELSE libCache
  /\ jobs' = [jobs EXCEPT ![j] = NoJob] /\ EndRefresh(j)
  /\ UNCHANGED <<libFile, libUsers, libDirs, libMem, published, libLock, libHistory>>

-----------------------------------------------------------------------------
(* A write fails.                                                           *)

RestoreUsersOnly(j) == libUsers' = jobs[j].users /\ UNCHANGED <<libFile, libMem>>
Restore(j) == libUsers' = jobs[j].users /\ libFile' = jobs[j].file /\ libMem' = jobs[j].file

\* Imports of definitions, adoptions and refreshes roll back before they let the lock go.
FailLocked(j) ==
  /\ jobs[j].pc = "writing" /\ jobs[j].plan # <<>> /\ Head(jobs[j].plan) # "reload"
  /\ jobs[j].op # "copy"
  /\ Restore(j)
  /\ libLock' = Nobody /\ jobs' = [jobs EXCEPT ![j] = NoJob] /\ EndRefresh(j)
  /\ UNCHANGED <<libDirs, libCache, published, libHistory>>

\* The import of a converted model leaves the lock first, removes its copy, and takes
\* the lock again to restore what it had captured.
FailCopy(j) ==
  /\ jobs[j].pc = "writing" /\ jobs[j].plan # <<>> /\ Head(jobs[j].plan) # "reload"
  /\ jobs[j].op = "copy"
  /\ libLock' = Nobody /\ jobs' = [jobs EXCEPT ![j].pc = "cleanup"]
  /\ UNCHANGED <<libDisk, libMem, published, refreshing, libHistory>>

RemoveCopy(j) ==
  /\ jobs[j].pc = "cleanup"
  /\ libDirs' = libDirs \ jobs[j].ids
  /\ jobs' = [jobs EXCEPT ![j].pc = "rollback"]
  /\ forgotten' = forgotten \cup (jobs[j].ids \cap owned)
  /\ UNCHANGED <<libFile, libUsers, libCache, libMem, published, libLock, refreshing, accepted, owned>>

RollBackCopy(j) ==
  /\ jobs[j].pc = "rollback" /\ libLock = Nobody
  /\ Restore(j)
  /\ forgotten' = forgotten \cup {i \in accepted : libFile[i] # jobs[j].file[i]}
                            \cup (owned \ jobs[j].users)
  /\ jobs' = [jobs EXCEPT ![j] = NoJob]
  /\ UNCHANGED <<libDirs, libCache, published, libLock, refreshing, accepted, owned>>

\* The server dies and starts again with what is on disk.
RestartLibrary ==
  /\ libMem' = libFile
  /\ libLock' = Nobody /\ refreshing' = Nobody /\ jobs' = [j \in Jobs |-> NoJob]
  /\ UNCHANGED <<libDisk, published, libHistory>>

LibNext ==
  \/ \E i \in LibIds : RegisterModel(i)
  \/ \E j \in Jobs :
       \/ \E ids \in SUBSET LibIds \ {{}} : StartDefinitions(j, ids)
       \/ \E i \in LibIds : StartAdopt(j, i) \/ StartCopy(j, i)
       \/ \E ok \in BOOLEAN : CopyEnds(j, ok) \/ Downloaded(j, ok) \/ UpdateCache(j, ok)
       \/ StartRefresh(j) \/ EnterLock(j) \/ WriteStep(j) \/ LeaveLock(j)
       \/ FailLocked(j) \/ FailCopy(j) \/ RemoveCopy(j) \/ RollBackCopy(j)
  \/ PublishManifest \/ RestartLibrary

LibSpec == LibInit /\ [][LibNext]_libVars

-----------------------------------------------------------------------------
(* Properties.                                                              *)

\* Between two changes the catalog in memory is the one on disk, however they ended.
MemoryIsTheFile == libLock = Nobody => libMem = libFile

\* A registration that was reported as done survives refreshes, failed requests and
\* restarts: only the rollback of a failed import may have erased it.
RegistrationsKept == \A i \in accepted \ forgotten : libFile[i] # 0

\* What the user imported stays the user's: never the official definition again, still in
\* the index, and its files still there.
UserModelsKept ==
  \A i \in owned \ forgotten :
    /\ libFile[i] \in {Custom, Local} /\ i \in libUsers
    /\ libFile[i] = Local => i \in libDirs

\* The cached manifest is never replaced by an older one.
CacheMovesForward == [][libCache' >= libCache]_libVars

\* refresh_official: "rather than restoring a stale snapshot that could erase an unrelated
\* registration": no failure erases what another request had registered.
NoFailureErasesARegistration == \A i \in accepted : libFile[i] # 0

\* The catalog in memory and on disk, the registrations and the user's own models agree.
LibrarySafe == MemoryIsTheFile /\ RegistrationsKept /\ UserModelsKept
===============================================================================
