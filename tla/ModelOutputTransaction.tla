----------------------- MODULE ModelOutputTransaction -----------------------
(***************************************************************************)
(* Transactional publication of one converted model directory:              *)
(* runtime/model_output_transaction.py, entered by every conversion through *)
(* runtime/model_converter.py, _run_model_export_command.                   *)
(*                                                                         *)
(* Converter processes compete for the lock file; the holder resolves what  *)
(* an interrupted predecessor left, exports into the staging directory,     *)
(* validates it, moves the live directory aside and renames staging over    *)
(* it.  A rename is atomic and may fail for good; the removal of a tree is  *)
(* not atomic and may stop half way; the process may be killed between any  *)
(* two steps (terminated by the application, power loss) or an exception    *)
(* such as KeyboardInterrupt may leave any step (the code catches           *)
(* BaseException).                                                          *)
(*                                                                         *)
(* A directory is Absent, Partial (it exists and does not validate) or      *)
(* holds one complete artifact.  Symbolic links, refused before any change, *)
(* and the bounded retries of one rename are left out.                      *)
(***************************************************************************)
EXTENDS Naturals

CONSTANTS Procs,      \* converter processes
          Artifacts,  \* complete, validated model outputs
          Absent, Partial, NoProc

ASSUME TransactionAssumption ==
  /\ Absent \notin Artifacts /\ Partial \notin Artifacts /\ Absent # Partial
  /\ NoProc \notin Procs

Contents == Artifacts \cup {Absent, Partial}

VARIABLES
  final,    \* the live model directory
  staging,  \* .<name>.inferbridge-staging
  backup,   \* .<name>.inferbridge-backup
  lock,     \* the holder of .<name>.inferbridge.lock
  pc,       \* the next step of each converter
  moved,    \* previous_moved, a local of _publish_staged_output
  live      \* history: the artifact the transactions owe the user

outputFiles == <<final, staging, backup>>
outputVars == <<outputFiles, lock, pc, moved, live>>

Steps == {"idle", "recover", "recover_drop", "recover_clear", "recover_restore",
          "clear_staging", "export", "validate", "move_aside", "publish", "published",
          "drop_backup", "rollback_clear", "rollback_restore", "abort", "release"}

OutputTypeOK ==
  /\ final \in Contents /\ staging \in Contents /\ backup \in Contents
  /\ lock \in Procs \cup {NoProc}
  /\ pc \in [Procs -> Steps]
  /\ moved \in [Procs -> BOOLEAN]
  /\ live \in Artifacts \cup {Absent}

\* validate_openvino_model_dir(dir, thorough=True).ready
Ready(content) == content \in Artifacts

\* What a removal that raises may leave behind.
HalfRemoved(content) == IF content = Absent THEN {Absent} ELSE {content, Partial}

Usable(f, b) == IF Ready(f) THEN f ELSE IF Ready(b) THEN b ELSE Absent

\* A model directory may predate the first transaction, complete or not.
OutputInit ==
  /\ final \in Contents
  /\ staging = Absent /\ backup = Absent
  /\ lock = NoProc
  /\ pc = [p \in Procs |-> "idle"]
  /\ moved = [p \in Procs |-> FALSE]
  /\ live = Usable(final, Absent)

Goto(p, step) == pc' = [pc EXCEPT ![p] = step]

-----------------------------------------------------------------------------
\* Regression form of Enter: the lock does not exclude another process.
EnterUnlocked(p) ==
  /\ pc[p] = "idle"
  /\ lock' = p
  /\ moved' = [moved EXCEPT ![p] = FALSE]
  /\ live' = IF Ready(final) THEN final ELSE live
  /\ Goto(p, "recover")
  /\ UNCHANGED outputFiles

\* Regression form of Enter: whatever the live directory holds is a model.
EnterAdoptsAnything(p) ==
  /\ pc[p] = "idle" /\ lock = NoProc
  /\ lock' = p
  /\ moved' = [moved EXCEPT ![p] = FALSE]
  /\ live' = final
  /\ Goto(p, "recover")
  /\ UNCHANGED outputFiles

\* _model_output_lock: a held lock raises at once, which changes nothing.
Enter(p) ==
  /\ pc[p] = "idle" /\ lock = NoProc
  /\ lock' = p
  /\ moved' = [moved EXCEPT ![p] = FALSE]
  /\ live' = IF Ready(final) THEN final ELSE live
  /\ Goto(p, "recover")
  /\ UNCHANGED outputFiles

\* Regression form of RecoverDecide: an existing backup is always stale.
RecoverDecideDropsBackup(p) ==
  /\ pc[p] = "recover"
  /\ Goto(p, IF backup = Absent THEN "clear_staging" ELSE "recover_drop")
  /\ UNCHANGED <<outputFiles, lock, moved, live>>

\* Regression form of RecoverDecide: leftovers of a crash are left for later.
RecoverDecideNever(p) ==
  /\ pc[p] = "recover"
  /\ Goto(p, "clear_staging")
  /\ UNCHANGED <<outputFiles, lock, moved, live>>

\* _recover_stale_backup: which of the two directories is the model.
RecoverDecide(p) ==
  /\ pc[p] = "recover"
  /\ Goto(p, IF backup = Absent THEN "clear_staging"
             ELSE IF Ready(final) \/ ~Ready(backup) THEN "recover_drop"
             ELSE "recover_clear")
  /\ UNCHANGED <<outputFiles, lock, moved, live>>

\* _recover_stale_backup: _remove_path(backup_dir)
RecoverDrop(p) ==
  /\ pc[p] = "recover_drop"
  /\ \/ backup' = Absent /\ Goto(p, "clear_staging")
     \/ backup' \in HalfRemoved(backup) /\ Goto(p, "release")
  /\ UNCHANGED <<final, staging, lock, moved, live>>

\* _recover_stale_backup: _remove_path(final_dir)
RecoverClear(p) ==
  /\ pc[p] = "recover_clear"
  /\ \/ final' = Absent /\ Goto(p, "recover_restore")
     \/ final' \in HalfRemoved(final) /\ Goto(p, "release")
  /\ UNCHANGED <<staging, backup, lock, moved, live>>

\* _recover_stale_backup: _replace_path(backup_dir, final_dir)
RecoverRestore(p) ==
  /\ pc[p] = "recover_restore"
  /\ \/ /\ final' = backup /\ backup' = Absent
        /\ Goto(p, "clear_staging")
     \/ UNCHANGED <<final, backup>> /\ Goto(p, "release")
  /\ UNCHANGED <<staging, lock, moved, live>>

\* staged_model_output: _remove_path(staging), before the try block
ClearStaging(p) ==
  /\ pc[p] = "clear_staging"
  /\ \/ staging' = Absent /\ Goto(p, "export")
     \/ staging' \in HalfRemoved(staging) /\ Goto(p, "release")
  /\ UNCHANGED <<final, backup, lock, moved, live>>

\* The with body: optimum-cli writes into staging, then succeeds or fails.
\* A new output is none of the artifacts at hand.
Export(p) ==
  /\ pc[p] = "export"
  /\ \/ staging' = Partial /\ Goto(p, "export")
     \/ staging' \in Artifacts \ {final, backup, live} /\ Goto(p, "validate")
     \/ UNCHANGED staging /\ Goto(p, "validate")
     \/ UNCHANGED staging /\ Goto(p, "abort")
  /\ UNCHANGED <<final, backup, lock, moved, live>>

\* Regression form of ValidateOutput: a zero exit status is taken for completeness.
ValidateTrustsExitStatus(p) ==
  /\ pc[p] = "validate"
  /\ Goto(p, IF final # Absent THEN "move_aside" ELSE "publish")
  /\ UNCHANGED <<outputFiles, lock, moved, live>>

\* _publish_staged_output: the staged model must validate.
ValidateOutput(p) ==
  /\ pc[p] = "validate"
  /\ Goto(p, IF ~Ready(staging) THEN "abort"
             ELSE IF final # Absent THEN "move_aside" ELSE "publish")
  /\ UNCHANGED <<outputFiles, lock, moved, live>>

\* _replace_path(final_dir, backup_dir); previous_moved = True
MoveAside(p) ==
  /\ pc[p] = "move_aside"
  /\ \/ /\ backup' = final /\ final' = Absent
        /\ moved' = [moved EXCEPT ![p] = TRUE]
        /\ Goto(p, "publish")
     \/ UNCHANGED <<final, backup, moved>> /\ Goto(p, "abort")
  /\ UNCHANGED <<staging, lock, live>>

\* _replace_path(staging_dir, final_dir)
Publish(p) ==
  /\ pc[p] = "publish"
  /\ \/ /\ final' = staging /\ staging' = Absent
        /\ Goto(p, "published")
     \/ UNCHANGED <<final, staging>> /\ Goto(p, "rollback_clear")
  /\ UNCHANGED <<backup, lock, moved, live>>

\* The try block is left: the new artifact is the model from here on.
Commit(p) ==
  /\ pc[p] = "published"
  /\ live' = IF Ready(final) THEN final ELSE live
  /\ Goto(p, IF moved[p] THEN "drop_backup" ELSE "release")
  /\ UNCHANGED <<outputFiles, lock, moved>>

\* _remove_path(backup_dir); an OSError is only logged.
DropBackup(p) ==
  /\ pc[p] = "drop_backup"
  /\ backup' \in {Absent} \cup HalfRemoved(backup)
  /\ Goto(p, "release")
  /\ UNCHANGED <<final, staging, lock, moved, live>>

\* except BaseException: _remove_path(final_dir), errors suppressed
RollbackClear(p) ==
  /\ pc[p] = "rollback_clear"
  /\ final' \in {Absent} \cup HalfRemoved(final)
  /\ Goto(p, IF moved[p] /\ backup # Absent THEN "rollback_restore" ELSE "abort")
  /\ UNCHANGED <<staging, backup, lock, moved, live>>

\* except BaseException: _replace_path(backup_dir, final_dir), OSError logged.
\* A directory cannot be renamed over what is left of another.
RollbackRestore(p) ==
  /\ pc[p] = "rollback_restore"
  /\ \/ /\ final = Absent
        /\ final' = backup /\ backup' = Absent
     \/ UNCHANGED <<final, backup>>
  /\ Goto(p, "abort")
  /\ UNCHANGED <<staging, lock, moved, live>>

\* staged_model_output, except BaseException: _remove_path(staging), errors logged
Abort(p) ==
  /\ pc[p] = "abort"
  /\ staging' \in {Absent} \cup HalfRemoved(staging)
  /\ Goto(p, "release")
  /\ UNCHANGED <<final, backup, lock, moved, live>>

\* _model_output_lock: _release_file_lock
Release(p) ==
  /\ pc[p] = "release"
  /\ lock' = NoProc
  /\ Goto(p, "idle")
  /\ UNCHANGED <<outputFiles, moved, live>>

\* Where an exception raised between two statements leads: before the try block
\* only the lock is released; inside it staging is removed; around the renaming of
\* staging the publication is rolled back, unless the try block that does so has
\* not been entered.
Unwind(step) ==
  {to \in {"release", "abort", "rollback_clear"} :
     \/ to = "release" /\ step \in {"recover", "recover_drop", "recover_clear",
                                    "recover_restore", "clear_staging", "abort"}
     \/ to = "abort" /\ step \in {"export", "validate", "move_aside", "publish",
                                  "drop_backup", "rollback_clear", "rollback_restore"}
     \/ to = "rollback_clear" /\ step \in {"publish", "published"}}

\* KeyboardInterrupt or another asynchronous exception.
InterruptExport(p) ==
  /\ \E step \in Unwind(pc[p]) : Goto(p, step)
  /\ UNCHANGED <<outputFiles, lock, moved, live>>

\* The process is killed; the operating system drops its file lock.
Crash(p) ==
  /\ pc[p] # "idle"
  /\ lock' = NoProc
  /\ Goto(p, "idle")
  /\ UNCHANGED <<outputFiles, moved, live>>

Step(p) ==
  \/ Enter(p) \/ RecoverDecide(p) \/ RecoverDrop(p) \/ RecoverClear(p) \/ RecoverRestore(p)
  \/ ClearStaging(p) \/ Export(p) \/ ValidateOutput(p) \/ MoveAside(p) \/ Publish(p) \/ Commit(p)
  \/ DropBackup(p) \/ RollbackClear(p) \/ RollbackRestore(p) \/ Abort(p) \/ Release(p)
  \/ InterruptExport(p) \/ Crash(p)

OutputNext == \E p \in Procs : Step(p)

OutputSpec == OutputInit /\ [][OutputNext]_outputVars

-----------------------------------------------------------------------------
(* Properties.                                                              *)

\* No two processes are inside a transaction on the same directory: neither
\* clears the staging directory the other exports into (_model_output_lock).
OneTransaction == \A p, q \in Procs : pc[p] # "idle" /\ pc[q] # "idle" => p = q

\* The artifact the transactions owe is on disk, live or as the backup the next
\* transaction restores, at every point where a process may die or fail
\* (_publish_staged_output, _recover_stale_backup).
LiveSurvives == live # Absent => final = live \/ backup = live

\* The long export runs with the owed model runnable in the live directory, no
\* backup left that the renaming could collide with: whatever an interrupted
\* predecessor left has been resolved (_recover_stale_backup).
ExportStartsRestored ==
  \A p \in Procs :
    pc[p] \in {"export", "validate", "move_aside"} =>
      backup = Absent /\ (live # Absent => final = live)

\* Publication implements the abstract artifact: what is usable or restorable
\* changes only by publishing a validated output or by going back to the owed
\* one, in every interleaving of failures and kills (staged_model_output).
A == INSTANCE ModelArtifact WITH artifact <- Usable(final, backup), owed <- live
Refines == A!Spec

\* Whatever crashes, failures and second converters come between the renames, the model
\* directory and its backup never lose what is owed (the three invariants above).
TransactionSafe == OneTransaction /\ LiveSurvives /\ ExportStartsRestored
=============================================================================
