-------------------------- MODULE ModelFilesProofs --------------------------
(***************************************************************************)
(* Proofs about the files of the models.                                    *)
(*                                                                          *)
(* ModelOutputTransaction, for every set of processes and artifacts: mutual *)
(* exclusion, the survival of the owed artifact, the state an export starts *)
(* in, and the refinement of ModelArtifact.                                 *)
(*                                                                          *)
(* StorageGuards, for any set of models and of users of temporary engines.  *)
(* The shared sets say exactly who is at work (Guards), the counts of       *)
(* temporary engines are true, and zero wherever a guard is set             *)
(* (MarkedMeansUnused), and with both every step keeps the four promises of *)
(* StorageSafe.                                                             *)
(***************************************************************************)
EXTENDS ModelOutputTransaction, StorageGuards, FiniteSetTheorems, TLAPS

-----------------------------------------------------------------------------
(* The transaction that replaces a model.                                   *)
\* Being inside a transaction is holding the lock.
LockInv == \A p \in Procs : pc[p] # "idle" => lock = p

\* A complete backup is one the transactions owe, or owed before final was adopted.
BackupInv == Ready(backup) => live # Absent

BackupIsOwed == (live # Absent => backup = live) /\ (Ready(backup) => backup = live)
FinalIsOwed == (live # Absent => final = live) /\ (Ready(final) => final = live)

\* What holds of the directories at each step of the lock's holder.
StepInv(p) ==
  /\ pc[p] = "recover" => (Ready(final) => final = live)
  /\ pc[p] = "recover_drop" => FinalIsOwed
  /\ pc[p] = "recover_clear" => ~Ready(final) /\ Ready(backup)
  /\ pc[p] = "recover_restore" => final = Absent /\ Ready(backup)
  /\ pc[p] \in {"clear_staging", "export", "validate", "move_aside"} =>
       backup = Absent /\ FinalIsOwed
  /\ pc[p] \in {"move_aside", "publish"} => Ready(staging)
  /\ pc[p] = "publish" => final = Absent
  /\ pc[p] = "published" => Ready(final)
  /\ pc[p] \in {"publish", "published", "rollback_clear", "rollback_restore"} => BackupIsOwed
  /\ pc[p] = "drop_backup" => Ready(final) /\ final = live

IndInv ==
  /\ OutputTypeOK
  /\ LockInv
  /\ LiveSurvives
  /\ BackupInv
  /\ \A p \in Procs : StepInv(p)

-----------------------------------------------------------------------------
\* The initial directories satisfy the invariant (_model_output_lock is free,
\* nothing is staged).
LEMMA InitInd == OutputInit => IndInv
  BY TransactionAssumption
  DEF OutputInit, IndInv, OutputTypeOK, LockInv, LiveSurvives, BackupInv, StepInv, Usable, Ready, Contents, Steps

\* A step of the lock's holder inside a transaction: the invariant then only has
\* to be shown of the holder, every other process being idle (_model_output_lock).
LEMMA HolderStep ==
  ASSUME IndInv, NEW p \in Procs, pc[p] # "idle",
         NEW step \in Steps, Goto(p, step), lock' = lock,
         moved' = moved \/ moved' = [moved EXCEPT ![p] = TRUE],
         final' \in Contents, staging' \in Contents, backup' \in Contents,
         live' \in Artifacts \cup {Absent},
         LiveSurvives', BackupInv', StepInv(p)'
  PROVE  IndInv'
<1>1. \A q \in Procs : q # p => pc[q] = "idle" /\ pc'[q] = "idle"
  BY DEF IndInv, LockInv, OutputTypeOK, Goto
<1>2. pc'[p] = step /\ pc' \in [Procs -> Steps]
  BY DEF IndInv, OutputTypeOK, Goto
<1>3. OutputTypeOK'
  BY <1>2 DEF IndInv, OutputTypeOK
<1>4. LockInv'
  BY <1>1 DEF IndInv, LockInv
<1>5. ASSUME NEW q \in Procs PROVE StepInv(q)'
  <2>1. CASE q = p
    BY <2>1
  <2>2. CASE q # p
    BY <1>1, <2>2 DEF StepInv
  <2>3. QED BY <2>1, <2>2
<1>6. QED
  BY <1>3, <1>4, <1>5 DEF IndInv

\* Leaving the transaction, by releasing the lock or by being killed, moves no
\* file and leaves every process idle (Release, Crash).
LEMMA LeaveStep ==
  ASSUME IndInv, NEW p \in Procs, pc[p] # "idle", lock' = NoProc, Goto(p, "idle"),
         UNCHANGED <<outputFiles, moved, live>>
  PROVE  IndInv'
<1>1. \A q \in Procs : pc'[q] = "idle"
  BY DEF IndInv, LockInv, OutputTypeOK, Goto
<1>2. OutputTypeOK'
  BY DEF IndInv, OutputTypeOK, Goto, outputFiles, Steps
<1>3. LockInv' /\ LiveSurvives' /\ BackupInv' /\ \A q \in Procs : StepInv(q)'
  BY <1>1 DEF IndInv, LockInv, LiveSurvives, BackupInv, StepInv, outputFiles
<1>4. QED
  BY <1>2, <1>3 DEF IndInv

\* Every step of a converter preserves the invariant.
LEMMA NextInd == IndInv /\ [OutputNext]_outputVars => IndInv'
<1> SUFFICES ASSUME IndInv, [OutputNext]_outputVars PROVE IndInv'
  OBVIOUS
<1> USE TransactionAssumption
<1>1. CASE UNCHANGED outputVars
  BY <1>1 DEF outputVars, outputFiles, IndInv, OutputTypeOK, LockInv, LiveSurvives, BackupInv, StepInv,
              FinalIsOwed, BackupIsOwed, Ready
<1>2. CASE OutputNext
  <2> PICK p \in Procs : Step(p)
    BY <1>2 DEF OutputNext
  <2>inv. OutputTypeOK /\ LiveSurvives /\ BackupInv /\ StepInv(p)
    BY DEF IndInv
  <2>enter. CASE Enter(p)
    <3>1. \A q \in Procs : q # p => pc[q] = "idle" /\ pc'[q] = "idle"
      BY <2>enter DEF IndInv, LockInv, OutputTypeOK, Enter, Goto
    <3>2. pc'[p] = "recover"
      BY <2>enter, <2>inv DEF OutputTypeOK, Enter, Goto
    <3>3. OutputTypeOK'
      BY <2>enter, <2>inv DEF OutputTypeOK, Enter, Goto, outputFiles, Steps, Ready, Contents
    <3>4. LockInv'
      BY <2>enter, <3>1 DEF LockInv, Enter
    <3>5. LiveSurvives' /\ BackupInv'
      BY <2>enter, <2>inv DEF LiveSurvives, BackupInv, Enter, outputFiles, Ready
    <3>6. ASSUME NEW q \in Procs PROVE StepInv(q)'
      <4>1. CASE q = p
        BY <4>1, <3>2, <2>enter DEF StepInv, Enter, outputFiles, Ready
      <4>2. CASE q # p
        BY <4>2, <3>1 DEF StepInv
      <4>3. QED BY <4>1, <4>2
    <3>7. QED
      BY <3>3, <3>4, <3>5, <3>6 DEF IndInv
  <2>recoverdecide. CASE RecoverDecide(p)
    <3> USE DEF Ready, HalfRemoved, Contents, outputFiles
    <3>1. pc[p] # "idle" /\ lock' = lock
      BY <2>recoverdecide DEF RecoverDecide
    <3>2. PICK step \in Steps : Goto(p, step)
      BY <2>recoverdecide DEF RecoverDecide, Steps
    <3>3. pc'[p] = step
      BY <3>2, <2>inv DEF Goto, OutputTypeOK
    <3>4. /\ moved' = moved \/ moved' = [moved EXCEPT ![p] = TRUE]
          /\ final' \in Contents /\ staging' \in Contents /\ backup' \in Contents
          /\ live' \in Artifacts \cup {Absent}
      BY <2>recoverdecide, <2>inv DEF RecoverDecide, OutputTypeOK
    <3>5. LiveSurvives' /\ BackupInv'
      BY <2>recoverdecide, <2>inv
      DEF RecoverDecide, OutputTypeOK, LiveSurvives, BackupInv, StepInv, FinalIsOwed,
          BackupIsOwed
    <3>6. StepInv(p)'
      BY <2>recoverdecide, <2>inv
      DEF RecoverDecide, Goto, OutputTypeOK, LiveSurvives, BackupInv, StepInv, FinalIsOwed,
          BackupIsOwed
    <3>7. QED
      BY <3>1, <3>2, <3>4, <3>5, <3>6, HolderStep
  <2>recoverdrop. CASE RecoverDrop(p)
    <3> USE DEF Ready, HalfRemoved, Contents, outputFiles
    <3>1. pc[p] # "idle" /\ lock' = lock
      BY <2>recoverdrop DEF RecoverDrop
    <3>2. PICK step \in Steps : Goto(p, step)
      BY <2>recoverdrop DEF RecoverDrop, Steps
    <3>3. pc'[p] = step
      BY <3>2, <2>inv DEF Goto, OutputTypeOK
    <3>4. /\ moved' = moved \/ moved' = [moved EXCEPT ![p] = TRUE]
          /\ final' \in Contents /\ staging' \in Contents /\ backup' \in Contents
          /\ live' \in Artifacts \cup {Absent}
      BY <2>recoverdrop, <2>inv DEF RecoverDrop, OutputTypeOK
    <3>5. LiveSurvives' /\ BackupInv'
      BY <2>recoverdrop, <2>inv
      DEF RecoverDrop, OutputTypeOK, LiveSurvives, BackupInv, StepInv, FinalIsOwed, BackupIsOwed
    <3>6. StepInv(p)'
      BY <2>recoverdrop, <2>inv
      DEF RecoverDrop, Goto, OutputTypeOK, LiveSurvives, BackupInv, StepInv, FinalIsOwed,
          BackupIsOwed
    <3>7. QED
      BY <3>1, <3>2, <3>4, <3>5, <3>6, HolderStep
  <2>recoverclear. CASE RecoverClear(p)
    <3> USE DEF Ready, HalfRemoved, Contents, outputFiles
    <3>1. pc[p] # "idle" /\ lock' = lock
      BY <2>recoverclear DEF RecoverClear
    <3>2. PICK step \in Steps : Goto(p, step)
      BY <2>recoverclear DEF RecoverClear, Steps
    <3>3. pc'[p] = step
      BY <3>2, <2>inv DEF Goto, OutputTypeOK
    <3>4. /\ moved' = moved \/ moved' = [moved EXCEPT ![p] = TRUE]
          /\ final' \in Contents /\ staging' \in Contents /\ backup' \in Contents
          /\ live' \in Artifacts \cup {Absent}
      BY <2>recoverclear, <2>inv DEF RecoverClear, OutputTypeOK
    <3>5. LiveSurvives' /\ BackupInv'
      BY <2>recoverclear, <2>inv
      DEF RecoverClear, OutputTypeOK, LiveSurvives, BackupInv, StepInv, FinalIsOwed,
          BackupIsOwed
    <3>6. StepInv(p)'
      BY <2>recoverclear, <2>inv
      DEF RecoverClear, Goto, OutputTypeOK, LiveSurvives, BackupInv, StepInv, FinalIsOwed,
          BackupIsOwed
    <3>7. QED
      BY <3>1, <3>2, <3>4, <3>5, <3>6, HolderStep
  <2>recoverrestore. CASE RecoverRestore(p)
    <3> USE DEF Ready, HalfRemoved, Contents, outputFiles
    <3>1. pc[p] # "idle" /\ lock' = lock
      BY <2>recoverrestore DEF RecoverRestore
    <3>2. PICK step \in Steps : Goto(p, step)
      BY <2>recoverrestore DEF RecoverRestore, Steps
    <3>3. pc'[p] = step
      BY <3>2, <2>inv DEF Goto, OutputTypeOK
    <3>4. /\ moved' = moved \/ moved' = [moved EXCEPT ![p] = TRUE]
          /\ final' \in Contents /\ staging' \in Contents /\ backup' \in Contents
          /\ live' \in Artifacts \cup {Absent}
      BY <2>recoverrestore, <2>inv DEF RecoverRestore, OutputTypeOK
    <3>5. LiveSurvives' /\ BackupInv'
      BY <2>recoverrestore, <2>inv
      DEF RecoverRestore, OutputTypeOK, LiveSurvives, BackupInv, StepInv, FinalIsOwed,
          BackupIsOwed
    <3>6. StepInv(p)'
      BY <2>recoverrestore, <2>inv
      DEF RecoverRestore, Goto, OutputTypeOK, LiveSurvives, BackupInv, StepInv, FinalIsOwed,
          BackupIsOwed
    <3>7. QED
      BY <3>1, <3>2, <3>4, <3>5, <3>6, HolderStep
  <2>clearstaging. CASE ClearStaging(p)
    <3> USE DEF Ready, HalfRemoved, Contents, outputFiles
    <3>1. pc[p] # "idle" /\ lock' = lock
      BY <2>clearstaging DEF ClearStaging
    <3>2. PICK step \in Steps : Goto(p, step)
      BY <2>clearstaging DEF ClearStaging, Steps
    <3>3. pc'[p] = step
      BY <3>2, <2>inv DEF Goto, OutputTypeOK
    <3>4. /\ moved' = moved \/ moved' = [moved EXCEPT ![p] = TRUE]
          /\ final' \in Contents /\ staging' \in Contents /\ backup' \in Contents
          /\ live' \in Artifacts \cup {Absent}
      BY <2>clearstaging, <2>inv DEF ClearStaging, OutputTypeOK
    <3>5. LiveSurvives' /\ BackupInv'
      BY <2>clearstaging, <2>inv
      DEF ClearStaging, OutputTypeOK, LiveSurvives, BackupInv, StepInv, FinalIsOwed,
          BackupIsOwed
    <3>6. StepInv(p)'
      BY <2>clearstaging, <2>inv
      DEF ClearStaging, Goto, OutputTypeOK, LiveSurvives, BackupInv, StepInv, FinalIsOwed,
          BackupIsOwed
    <3>7. QED
      BY <3>1, <3>2, <3>4, <3>5, <3>6, HolderStep
  <2>export. CASE Export(p)
    <3> USE DEF Ready, HalfRemoved, Contents, outputFiles
    <3>1. pc[p] # "idle" /\ lock' = lock
      BY <2>export DEF Export
    <3>2. PICK step \in Steps : Goto(p, step)
      BY <2>export DEF Export, Steps
    <3>3. pc'[p] = step
      BY <3>2, <2>inv DEF Goto, OutputTypeOK
    <3>4. /\ moved' = moved \/ moved' = [moved EXCEPT ![p] = TRUE]
          /\ final' \in Contents /\ staging' \in Contents /\ backup' \in Contents
          /\ live' \in Artifacts \cup {Absent}
      BY <2>export, <2>inv DEF Export, OutputTypeOK
    <3>5. LiveSurvives' /\ BackupInv'
      BY <2>export, <2>inv
      DEF Export, OutputTypeOK, LiveSurvives, BackupInv, StepInv, FinalIsOwed, BackupIsOwed
    <3>6. StepInv(p)'
      BY <2>export, <2>inv
      DEF Export, Goto, OutputTypeOK, LiveSurvives, BackupInv, StepInv, FinalIsOwed,
          BackupIsOwed
    <3>7. QED
      BY <3>1, <3>2, <3>4, <3>5, <3>6, HolderStep
  <2>validate. CASE ValidateOutput(p)
    <3> USE DEF Ready, HalfRemoved, Contents, outputFiles
    <3>1. pc[p] # "idle" /\ lock' = lock
      BY <2>validate DEF ValidateOutput
    <3>2. PICK step \in Steps : Goto(p, step)
      BY <2>validate DEF ValidateOutput, Steps
    <3>3. pc'[p] = step
      BY <3>2, <2>inv DEF Goto, OutputTypeOK
    <3>4. /\ moved' = moved \/ moved' = [moved EXCEPT ![p] = TRUE]
          /\ final' \in Contents /\ staging' \in Contents /\ backup' \in Contents
          /\ live' \in Artifacts \cup {Absent}
      BY <2>validate, <2>inv DEF ValidateOutput, OutputTypeOK
    <3>5. LiveSurvives' /\ BackupInv'
      BY <2>validate, <2>inv
      DEF ValidateOutput, OutputTypeOK, LiveSurvives, BackupInv, StepInv, FinalIsOwed, BackupIsOwed
    <3>6. StepInv(p)'
      BY <2>validate, <2>inv
      DEF ValidateOutput, Goto, OutputTypeOK, LiveSurvives, BackupInv, StepInv, FinalIsOwed,
          BackupIsOwed
    <3>7. QED
      BY <3>1, <3>2, <3>4, <3>5, <3>6, HolderStep
  <2>moveaside. CASE MoveAside(p)
    <3> USE DEF Ready, HalfRemoved, Contents, outputFiles
    <3>1. pc[p] # "idle" /\ lock' = lock
      BY <2>moveaside DEF MoveAside
    <3>2. PICK step \in Steps : Goto(p, step)
      BY <2>moveaside DEF MoveAside, Steps
    <3>3. pc'[p] = step
      BY <3>2, <2>inv DEF Goto, OutputTypeOK
    <3>4. /\ moved' = moved \/ moved' = [moved EXCEPT ![p] = TRUE]
          /\ final' \in Contents /\ staging' \in Contents /\ backup' \in Contents
          /\ live' \in Artifacts \cup {Absent}
      BY <2>moveaside, <2>inv DEF MoveAside, OutputTypeOK
    <3>5. LiveSurvives' /\ BackupInv'
      BY <2>moveaside, <2>inv
      DEF MoveAside, OutputTypeOK, LiveSurvives, BackupInv, StepInv, FinalIsOwed, BackupIsOwed
    <3>6. StepInv(p)'
      BY <2>moveaside, <2>inv
      DEF MoveAside, Goto, OutputTypeOK, LiveSurvives, BackupInv, StepInv, FinalIsOwed,
          BackupIsOwed
    <3>7. QED
      BY <3>1, <3>2, <3>4, <3>5, <3>6, HolderStep
  <2>publish. CASE Publish(p)
    <3> USE DEF Ready, HalfRemoved, Contents, outputFiles
    <3>1. pc[p] # "idle" /\ lock' = lock
      BY <2>publish DEF Publish
    <3>2. PICK step \in Steps : Goto(p, step)
      BY <2>publish DEF Publish, Steps
    <3>3. pc'[p] = step
      BY <3>2, <2>inv DEF Goto, OutputTypeOK
    <3>4. /\ moved' = moved \/ moved' = [moved EXCEPT ![p] = TRUE]
          /\ final' \in Contents /\ staging' \in Contents /\ backup' \in Contents
          /\ live' \in Artifacts \cup {Absent}
      BY <2>publish, <2>inv DEF Publish, OutputTypeOK
    <3>5. LiveSurvives' /\ BackupInv'
      BY <2>publish, <2>inv
      DEF Publish, OutputTypeOK, LiveSurvives, BackupInv, StepInv, FinalIsOwed, BackupIsOwed
    <3>6. StepInv(p)'
      BY <2>publish, <2>inv
      DEF Publish, Goto, OutputTypeOK, LiveSurvives, BackupInv, StepInv, FinalIsOwed,
          BackupIsOwed
    <3>7. QED
      BY <3>1, <3>2, <3>4, <3>5, <3>6, HolderStep
  <2>commit. CASE Commit(p)
    <3> USE DEF Ready, HalfRemoved, Contents, outputFiles
    <3>1. pc[p] # "idle" /\ lock' = lock
      BY <2>commit DEF Commit
    <3>2. PICK step \in Steps : Goto(p, step)
      BY <2>commit DEF Commit, Steps
    <3>3. pc'[p] = step
      BY <3>2, <2>inv DEF Goto, OutputTypeOK
    <3>4. /\ moved' = moved \/ moved' = [moved EXCEPT ![p] = TRUE]
          /\ final' \in Contents /\ staging' \in Contents /\ backup' \in Contents
          /\ live' \in Artifacts \cup {Absent}
      BY <2>commit, <2>inv DEF Commit, OutputTypeOK
    <3>5. LiveSurvives' /\ BackupInv'
      BY <2>commit, <2>inv
      DEF Commit, OutputTypeOK, LiveSurvives, BackupInv, StepInv, FinalIsOwed, BackupIsOwed
    <3>6. StepInv(p)'
      BY <2>commit, <2>inv
      DEF Commit, Goto, OutputTypeOK, LiveSurvives, BackupInv, StepInv, FinalIsOwed,
          BackupIsOwed
    <3>7. QED
      BY <3>1, <3>2, <3>4, <3>5, <3>6, HolderStep
  <2>dropbackup. CASE DropBackup(p)
    <3> USE DEF Ready, HalfRemoved, Contents, outputFiles
    <3>1. pc[p] # "idle" /\ lock' = lock
      BY <2>dropbackup DEF DropBackup
    <3>2. PICK step \in Steps : Goto(p, step)
      BY <2>dropbackup DEF DropBackup, Steps
    <3>3. pc'[p] = step
      BY <3>2, <2>inv DEF Goto, OutputTypeOK
    <3>4. /\ moved' = moved \/ moved' = [moved EXCEPT ![p] = TRUE]
          /\ final' \in Contents /\ staging' \in Contents /\ backup' \in Contents
          /\ live' \in Artifacts \cup {Absent}
      BY <2>dropbackup, <2>inv DEF DropBackup, OutputTypeOK
    <3>5. LiveSurvives' /\ BackupInv'
      BY <2>dropbackup, <2>inv
      DEF DropBackup, OutputTypeOK, LiveSurvives, BackupInv, StepInv, FinalIsOwed, BackupIsOwed
    <3>6. StepInv(p)'
      BY <2>dropbackup, <2>inv
      DEF DropBackup, Goto, OutputTypeOK, LiveSurvives, BackupInv, StepInv, FinalIsOwed,
          BackupIsOwed
    <3>7. QED
      BY <3>1, <3>2, <3>4, <3>5, <3>6, HolderStep
  <2>rollbackclear. CASE RollbackClear(p)
    <3> USE DEF Ready, HalfRemoved, Contents, outputFiles
    <3>1. pc[p] # "idle" /\ lock' = lock
      BY <2>rollbackclear DEF RollbackClear
    <3>2. PICK step \in Steps : Goto(p, step)
      BY <2>rollbackclear DEF RollbackClear, Steps
    <3>3. pc'[p] = step
      BY <3>2, <2>inv DEF Goto, OutputTypeOK
    <3>4. /\ moved' = moved \/ moved' = [moved EXCEPT ![p] = TRUE]
          /\ final' \in Contents /\ staging' \in Contents /\ backup' \in Contents
          /\ live' \in Artifacts \cup {Absent}
      BY <2>rollbackclear, <2>inv DEF RollbackClear, OutputTypeOK
    <3>5. LiveSurvives' /\ BackupInv'
      BY <2>rollbackclear, <2>inv
      DEF RollbackClear, OutputTypeOK, LiveSurvives, BackupInv, StepInv, FinalIsOwed,
          BackupIsOwed
    <3>6. StepInv(p)'
      BY <2>rollbackclear, <2>inv
      DEF RollbackClear, Goto, OutputTypeOK, LiveSurvives, BackupInv, StepInv, FinalIsOwed,
          BackupIsOwed
    <3>7. QED
      BY <3>1, <3>2, <3>4, <3>5, <3>6, HolderStep
  <2>rollbackrestore. CASE RollbackRestore(p)
    <3> USE DEF Ready, HalfRemoved, Contents, outputFiles
    <3>1. pc[p] # "idle" /\ lock' = lock
      BY <2>rollbackrestore DEF RollbackRestore
    <3>2. PICK step \in Steps : Goto(p, step)
      BY <2>rollbackrestore DEF RollbackRestore, Steps
    <3>3. pc'[p] = step
      BY <3>2, <2>inv DEF Goto, OutputTypeOK
    <3>4. /\ moved' = moved \/ moved' = [moved EXCEPT ![p] = TRUE]
          /\ final' \in Contents /\ staging' \in Contents /\ backup' \in Contents
          /\ live' \in Artifacts \cup {Absent}
      BY <2>rollbackrestore, <2>inv DEF RollbackRestore, OutputTypeOK
    <3>5. LiveSurvives' /\ BackupInv'
      BY <2>rollbackrestore, <2>inv
      DEF RollbackRestore, OutputTypeOK, LiveSurvives, BackupInv, StepInv, FinalIsOwed,
          BackupIsOwed
    <3>6. StepInv(p)'
      BY <2>rollbackrestore, <2>inv
      DEF RollbackRestore, Goto, OutputTypeOK, LiveSurvives, BackupInv, StepInv, FinalIsOwed,
          BackupIsOwed
    <3>7. QED
      BY <3>1, <3>2, <3>4, <3>5, <3>6, HolderStep
  <2>abort. CASE Abort(p)
    <3> USE DEF Ready, HalfRemoved, Contents, outputFiles
    <3>1. pc[p] # "idle" /\ lock' = lock
      BY <2>abort DEF Abort
    <3>2. PICK step \in Steps : Goto(p, step)
      BY <2>abort DEF Abort, Steps
    <3>3. pc'[p] = step
      BY <3>2, <2>inv DEF Goto, OutputTypeOK
    <3>4. /\ moved' = moved \/ moved' = [moved EXCEPT ![p] = TRUE]
          /\ final' \in Contents /\ staging' \in Contents /\ backup' \in Contents
          /\ live' \in Artifacts \cup {Absent}
      BY <2>abort, <2>inv DEF Abort, OutputTypeOK
    <3>5. LiveSurvives' /\ BackupInv'
      BY <2>abort, <2>inv
      DEF Abort, OutputTypeOK, LiveSurvives, BackupInv, StepInv, FinalIsOwed, BackupIsOwed
    <3>6. StepInv(p)'
      BY <2>abort, <2>inv
      DEF Abort, Goto, OutputTypeOK, LiveSurvives, BackupInv, StepInv, FinalIsOwed, BackupIsOwed
    <3>7. QED
      BY <3>1, <3>2, <3>4, <3>5, <3>6, HolderStep
  <2>release. CASE Release(p)
    BY <2>release, LeaveStep DEF Release, Goto
  <2>crash. CASE Crash(p)
    BY <2>crash, LeaveStep DEF Crash
  <2>interrupt. CASE InterruptExport(p)
    <3>1. PICK step \in Unwind(pc[p]) : Goto(p, step)
      BY <2>interrupt DEF InterruptExport
    <3>2. pc[p] # "idle" /\ step \in Steps
      BY <3>1 DEF Unwind, Steps
    <3>3. pc'[p] = step
      BY <3>1, <2>inv DEF Goto, OutputTypeOK
    <3>4. LiveSurvives' /\ BackupInv'
      BY <2>interrupt, <2>inv DEF InterruptExport, outputFiles, LiveSurvives, BackupInv, Ready
    <3>5. StepInv(p)'
      BY <2>interrupt, <2>inv, <3>1, <3>3
      DEF InterruptExport, outputFiles, StepInv, BackupIsOwed, FinalIsOwed, Unwind, Ready
    <3>6. QED
      BY <2>interrupt, <2>inv, <3>1, <3>2, <3>4, <3>5, HolderStep DEF InterruptExport, outputFiles, OutputTypeOK
  <2> QED
    BY <2>enter, <2>recoverdecide, <2>recoverdrop, <2>recoverclear, <2>recoverrestore, <2>clearstaging, <2>export, <2>validate, <2>moveaside, <2>publish, <2>commit, <2>dropbackup, <2>rollbackclear, <2>rollbackrestore, <2>abort, <2>release, <2>interrupt, <2>crash
    DEF Step
<1> QED
  BY <1>1, <1>2

-----------------------------------------------------------------------------
\* The strengthened invariant holds of every reachable state of a model
\* directory (staged_model_output as a whole).
THEOREM TransactionInvariant == OutputSpec => []IndInv
<1>1. OutputInit => IndInv
  BY InitInd
<1>2. IndInv /\ [OutputNext]_outputVars => IndInv'
  BY NextInd
<1>3. QED
  BY <1>1, <1>2, PTL DEF OutputSpec

\* Directory contents, lock holder and steps keep their types.
THEOREM OutputTypeCorrect == OutputSpec => []OutputTypeOK
<1>1. IndInv => OutputTypeOK
  BY DEF IndInv
<1>2. QED
  BY <1>1, TransactionInvariant, PTL

\* The lock file admits one process at a time (_model_output_lock).
THEOREM MutualExclusion == OutputSpec => []OneTransaction
<1>1. IndInv => OneTransaction
  BY DEF IndInv, LockInv, OneTransaction
<1>2. QED
  BY <1>1, TransactionInvariant, PTL

\* The owed artifact is on disk at every point a process may be killed
\* (_publish_staged_output, _recover_stale_backup).
THEOREM OwedArtifactSurvives == OutputSpec => []LiveSurvives
<1>1. IndInv => LiveSurvives
  BY DEF IndInv
<1>2. QED
  BY <1>1, TransactionInvariant, PTL

\* An export starts with the owed model live and no stale backup
\* (_recover_stale_backup).
THEOREM ExportFindsModelRestored == OutputSpec => []ExportStartsRestored
<1>1. IndInv => ExportStartsRestored
  BY DEF IndInv, StepInv, FinalIsOwed, ExportStartsRestored
<1>2. QED
  BY <1>1, TransactionInvariant, PTL

-----------------------------------------------------------------------------
\* Every step of the transaction publishes, adopts, withdraws or changes nothing
\* a user of the artifact can see.
LEMMA StepRefines == IndInv /\ [OutputNext]_outputVars => [A!Next]_(A!vars)
<1> SUFFICES ASSUME IndInv, [OutputNext]_outputVars PROVE [A!Next]_(A!vars)
  OBVIOUS
<1> USE TransactionAssumption
<1> USE DEF A!Next, A!vars, A!Publish, A!Adopt, A!Withdraw, Usable, Ready, outputFiles
<1>1. CASE UNCHANGED outputVars
  BY <1>1 DEF outputVars
<1>2. CASE OutputNext
  <2> PICK p \in Procs : Step(p)
    BY <1>2 DEF OutputNext
  <2>inv. OutputTypeOK /\ LiveSurvives /\ BackupInv /\ StepInv(p)
    BY DEF IndInv
  <2> USE DEF OutputTypeOK, Contents
  <2>enter. CASE Enter(p)
    BY <2>enter, <2>inv DEF Enter
  <2>commit. CASE Commit(p)
    BY <2>commit, <2>inv DEF Commit
  <2>recoverdecide. CASE RecoverDecide(p)
    BY <2>recoverdecide DEF RecoverDecide
  <2>clearstaging. CASE ClearStaging(p)
    BY <2>clearstaging DEF ClearStaging
  <2>export. CASE Export(p)
    BY <2>export DEF Export
  <2>validate. CASE ValidateOutput(p)
    BY <2>validate DEF ValidateOutput
  <2>abort. CASE Abort(p)
    BY <2>abort DEF Abort
  <2>release. CASE Release(p)
    BY <2>release DEF Release
  <2>interrupt. CASE InterruptExport(p)
    BY <2>interrupt DEF InterruptExport
  <2>crash. CASE Crash(p)
    BY <2>crash DEF Crash
  <2>recoverdrop. CASE RecoverDrop(p)
    BY <2>recoverdrop, <2>inv
    DEF RecoverDrop, StepInv, LiveSurvives, BackupInv, FinalIsOwed, BackupIsOwed,
        HalfRemoved
  <2>recoverclear. CASE RecoverClear(p)
    BY <2>recoverclear, <2>inv
    DEF RecoverClear, StepInv, LiveSurvives, BackupInv, FinalIsOwed, BackupIsOwed,
        HalfRemoved
  <2>recoverrestore. CASE RecoverRestore(p)
    BY <2>recoverrestore, <2>inv
    DEF RecoverRestore, StepInv, LiveSurvives, BackupInv, FinalIsOwed, BackupIsOwed,
        HalfRemoved
  <2>moveaside. CASE MoveAside(p)
    BY <2>moveaside, <2>inv
    DEF MoveAside, StepInv, LiveSurvives, BackupInv, FinalIsOwed, BackupIsOwed,
        HalfRemoved
  <2>publish. CASE Publish(p)
    BY <2>publish, <2>inv
    DEF Publish, StepInv, LiveSurvives, BackupInv, FinalIsOwed, BackupIsOwed,
        HalfRemoved
  <2>dropbackup. CASE DropBackup(p)
    BY <2>dropbackup, <2>inv
    DEF DropBackup, StepInv, LiveSurvives, BackupInv, FinalIsOwed, BackupIsOwed,
        HalfRemoved
  <2>rollbackclear. CASE RollbackClear(p)
    BY <2>rollbackclear, <2>inv
    DEF RollbackClear, StepInv, LiveSurvives, BackupInv, FinalIsOwed, BackupIsOwed,
        HalfRemoved
  <2>rollbackrestore. CASE RollbackRestore(p)
    BY <2>rollbackrestore, <2>inv
    DEF RollbackRestore, StepInv, LiveSurvives, BackupInv, FinalIsOwed, BackupIsOwed,
        HalfRemoved
  <2> QED
    BY <2>enter, <2>recoverdecide, <2>recoverdrop, <2>recoverclear, <2>recoverrestore, <2>clearstaging, <2>export, <2>validate, <2>moveaside, <2>publish, <2>commit, <2>dropbackup, <2>rollbackclear, <2>rollbackrestore, <2>abort, <2>release, <2>interrupt, <2>crash
    DEF Step
<1> QED
  BY <1>1, <1>2

\* Publication implements the abstract artifact, for every number of processes.
THEOREM TransactionRefinesArtifact == OutputSpec => Refines
<1>1. OutputInit => A!Init
  BY TransactionAssumption DEF OutputInit, A!Init, Usable, Ready, Contents
<1>2. IndInv /\ [OutputNext]_outputVars => [A!Next]_(A!vars)
  BY StepRefines
<1>3. QED
  BY <1>1, <1>2, TransactionInvariant, PTL DEF OutputSpec, Refines, A!Spec

\* One transaction at a time, the owed artifact on disk and a restored model before
\* an export, together.
THEOREM TransactionIsSafe == OutputSpec => []TransactionSafe
BY MutualExclusion, OwedArtifactSurvives, ExportFindsModelRestored, PTL DEF TransactionSafe

-----------------------------------------------------------------------------
(* The guards of a storage cleanup.                                         *)
\* The models each actor has marked.
Scope == IF cleaner.pc = "idle" THEN {} ELSE Related(cleaner.m, cleaner.action)
Deleting == IF deleter.pc \in {"marked", "removing"} THEN {deleter.m} ELSE {}
Recovering == IF recoverer.pc = "removing" THEN {recoverer.m} ELSE {}

\* Every model an actor names is one of the models.
Named ==
  /\ cleaner.pc # "idle" => cleaner.m \in Models /\ cleaner.action \in ModelActions \cup GlobalActions
  /\ deleter.pc # "idle" => deleter.m \in Models
  /\ recoverer.pc # "idle" => recoverer.m \in Models
  /\ recoverer.pc = "idle" => recoverer.m = NoModel
  /\ health.pc = "validating" => health.m \in Models
  /\ \A u \in Users : borrowed[u].pc = "open" => borrowed[u].m \in Models

Guards ==
  /\ cleaning = Scope \cup Deleting /\ mutating = Deleting \cup Recovering
  /\ Scope \cap mutating = {} /\ Deleting \cap Recovering = {}
  /\ global <=> cleaner.pc # "idle" /\ cleaner.action \in GlobalActions
  /\ global => mutating = {}

OpenOf(m) == {u \in Users : borrowed[u] = [pc |-> "open", m |-> m]}
Validating(m) == IF health.pc = "validating" /\ health.m = m THEN 1 ELSE 0

\* Where a guard is set, no temporary engine is counted.
MarkedMeansUnused == \A m \in Models : global \/ m \in cleaning \cup mutating => temporary[m] = 0

StorageIInv ==
  /\ StorageTypeOK /\ Named /\ Guards /\ EveryTemporaryEngineCounted /\ MarkedMeansUnused
  /\ RemovalUndisturbed /\ MaintenanceIsExclusive

LEMMA OpenFinite == \A m \in Models : IsFiniteSet(OpenOf(m))
<1> TAKE m \in Models
<1>1. OpenOf(m) \subseteq Users
  BY DEF OpenOf
<1>2. QED
  BY <1>1, FS_Subset, StorageAssumption

\* A count is true after a step that opens and closes nothing.
LEMMA CountKept ==
  ASSUME EveryTemporaryEngineCounted, borrowed' = borrowed, temporary' = temporary,
         \A m \in Models : Validating(m)' = Validating(m)
  PROVE  EveryTemporaryEngineCounted'
BY DEF EveryTemporaryEngineCounted, Validating

LEMMA StorageInitIInv == StorageInit => StorageIInv
<1> SUFFICES ASSUME StorageInit PROVE StorageIInv
  OBVIOUS
<1> USE DEF StorageInit, NoCleanup, NoHealth, Idle
<1>1. StorageTypeOK
  BY DEF StorageTypeOK
<1>2. Named /\ Guards
  BY DEF Named, Guards, Scope, Deleting, Recovering
<1>3. EveryTemporaryEngineCounted /\ MarkedMeansUnused
  <2>1. \A m \in Models : {u \in Users : borrowed[u] = [pc |-> "open", m |-> m]} = {}
    OBVIOUS
  <2>2. Cardinality({}) = 0
    BY FS_EmptySet
  <2>3. \A m \in Models : temporary[m] = 0
    OBVIOUS
  <2>4. EveryTemporaryEngineCounted
    BY <2>1, <2>2, <2>3 DEF EveryTemporaryEngineCounted
  <2>5. QED
    BY <2>3, <2>4 DEF MarkedMeansUnused
<1>4. RemovalUndisturbed /\ MaintenanceIsExclusive
  BY DEF RemovalUndisturbed, MaintenanceIsExclusive, MaintenanceActive, CleanerRemoves, DeleterRemoves
<1>5. QED
  BY <1>1, <1>2, <1>3, <1>4 DEF StorageIInv

\* Types, and the range of the counts.
LEMMA TypeStep == StorageIInv /\ [StorageNext]_storageVars => StorageTypeOK'
<1> SUFFICES ASSUME StorageIInv, [StorageNext]_storageVars PROVE StorageTypeOK'
  OBVIOUS
<1> USE DEF StorageIInv, guards, lifecycle
<1>1. ASSUME NEW m \in Models, NEW kind \in {"load", "convert"}, Schedule(m, kind) PROVE StorageTypeOK'
  BY <1>1 DEF Schedule, StorageTypeOK
<1>2. ASSUME NEW m \in Models, NEW kind \in {"load", "convert"}, OperationEnds(m, kind)
      PROVE  StorageTypeOK'
  BY <1>2 DEF OperationEnds, StorageTypeOK
<1>3. ASSUME NEW m \in Models, UnloadModel(m) PROVE StorageTypeOK'
  BY <1>3 DEF UnloadModel, StorageTypeOK
<1>4. ASSUME NEW m \in Models, DeleteStarts(m) PROVE StorageTypeOK'
  BY <1>4 DEF DeleteStarts, StorageTypeOK
<1>5. ASSUME NEW m \in Models, RecoverBegins(m) PROVE StorageTypeOK'
  BY <1>5 DEF RecoverBegins, StorageTypeOK
<1>6. ASSUME NEW m \in Models, Validate(m) PROVE StorageTypeOK'
  <2>1. UNCHANGED <<ops, inMemory, cleaning, global, mutating, borrowed, cleaner, deleter, recoverer>>
    BY <1>6 DEF Validate
  <2>2. health' \in [pc : {"idle", "clearing", "ready", "validating"}, m : Models \cup {NoModel},
                   todo : SUBSET Models, cancelled : BOOLEAN]
    <3>1. health \in [pc : {"idle", "clearing", "ready", "validating"}, m : Models \cup {NoModel},
                   todo : SUBSET Models, cancelled : BOOLEAN]
      BY DEF StorageTypeOK
    <3>2. \/ health' = [health EXCEPT !.todo = health.todo \ {m}]
          \/ health' = [health EXCEPT !.pc = "validating", !.m = m]
      BY <1>6 DEF Validate
    <3>3. health.todo \ {m} \in SUBSET Models /\ m \in Models \cup {NoModel}
      BY <3>1
    <3>4. CASE health' = [health EXCEPT !.todo = health.todo \ {m}]
      BY <3>1, <3>3, <3>4
    <3>5. CASE health' = [health EXCEPT !.pc = "validating", !.m = m]
      BY <3>1, <3>3, <3>5
    <3>6. QED
      BY <3>2, <3>4, <3>5
  <2>3. temporary' \in [Models -> Nat]
    BY <1>6 DEF Validate, CountUp, StorageTypeOK
  <2>4. QED
    BY <2>1, <2>2, <2>3 DEF StorageTypeOK
<1>7. ASSUME NEW u \in Users, Return(u) PROVE StorageTypeOK'
  BY <1>7 DEF Return, CountDown, StorageTypeOK, Named
<1>8. ASSUME NEW u \in Users, ReturnAgain(u) PROVE StorageTypeOK'
  BY <1>8 DEF ReturnAgain, StorageTypeOK, Idle
<1>9. ASSUME NEW u \in Users, NEW m \in Models, Borrow(u, m) PROVE StorageTypeOK'
  BY <1>9 DEF Borrow, CountUp, StorageTypeOK
<1>10. ASSUME NEW m \in Models, NEW action \in ModelActions \cup GlobalActions, EnterScope(m, action)
       PROVE  StorageTypeOK'
  <2>1. UNCHANGED <<ops, inMemory, mutating, temporary, borrowed, deleter, recoverer, health>>
    BY <1>10 DEF EnterScope
  <2>2. cleaning' \subseteq Models /\ global' \in BOOLEAN
    BY <1>10 DEF EnterScope, Related, StorageTypeOK
  <2>3. cleaner' = [pc |-> "checking", m |-> m, action |-> action]
    BY <1>10 DEF EnterScope
  <2>4. QED
    BY <2>1, <2>2, <2>3 DEF StorageTypeOK
<1>11. ASSUME StartRemoval PROVE StorageTypeOK'
  BY <1>11 DEF StartRemoval, StorageTypeOK
<1>12. ASSUME RejectCleanup PROVE StorageTypeOK'
  BY <1>12 DEF RejectCleanup, LeaveScope, NoCleanup, StorageTypeOK
<1>13. ASSUME CleanupRemoved PROVE StorageTypeOK'
  BY <1>13 DEF CleanupRemoved, LeaveScope, NoCleanup, StorageTypeOK
<1>14. ASSUME DeleteMarks PROVE StorageTypeOK'
  BY <1>14 DEF DeleteMarks, StorageTypeOK, Idle, Named
<1>15. ASSUME DeleteLooks PROVE StorageTypeOK'
  BY <1>15 DEF DeleteLooks, Unmark, StorageTypeOK, Idle
<1>16. ASSUME DeleteRemoved PROVE StorageTypeOK'
  BY <1>16 DEF DeleteRemoved, Unmark, StorageTypeOK, Idle
<1>17. ASSUME NEW convert \in BOOLEAN, RecoverEnds(convert) PROVE StorageTypeOK'
  BY <1>17 DEF RecoverEnds, StorageTypeOK, Idle, Named
<1>18. ASSUME NEW ms \in SUBSET Models, NEW clear \in BOOLEAN, MaintenanceBegins(ms, clear)
       PROVE  StorageTypeOK'
  BY <1>18 DEF MaintenanceBegins, NoHealth, CleanupLockFree, StorageActive, StorageTypeOK
<1>19. ASSUME CacheCleared PROVE StorageTypeOK'
  BY <1>19 DEF CacheCleared, StorageTypeOK
<1>20. ASSUME CancelMaintenance PROVE StorageTypeOK'
  BY <1>20 DEF CancelMaintenance, StorageTypeOK, NoModel
<1>21. ASSUME Validated PROVE StorageTypeOK'
  <2>1. UNCHANGED <<ops, inMemory, cleaning, global, mutating, borrowed, cleaner, deleter, recoverer>>
    BY <1>21 DEF Validated
  <2>2. health' \in [pc : {"idle", "clearing", "ready", "validating"}, m : Models \cup {NoModel},
                   todo : SUBSET Models, cancelled : BOOLEAN]
    <3>1. health \in [pc : {"idle", "clearing", "ready", "validating"}, m : Models \cup {NoModel},
                   todo : SUBSET Models, cancelled : BOOLEAN]
      BY DEF StorageTypeOK
    <3>2. \/ health' = NoHealth
          \/ health' = [health EXCEPT !.pc = "ready", !.m = NoModel, !.todo = health.todo \ {health.m}]
      BY <1>21 DEF Validated
    <3>3. health.todo \ {health.m} \in SUBSET Models /\ NoModel \in Models \cup {NoModel}
      BY <3>1
    <3>4. CASE health' = NoHealth
      BY <3>4 DEF NoHealth
    <3>5. CASE health' = [health EXCEPT !.pc = "ready", !.m = NoModel, !.todo = health.todo \ {health.m}]
      BY <3>1, <3>3, <3>5
    <3>6. QED
      BY <3>2, <3>4, <3>5
  <2>3. temporary' \in [Models -> Nat]
    BY <1>21 DEF Validated, CountDown, StorageTypeOK, Named
  <2>4. QED
    BY <2>1, <2>2, <2>3 DEF StorageTypeOK
<1>22. ASSUME MaintenanceEnds PROVE StorageTypeOK'
  BY <1>22 DEF MaintenanceEnds, NoHealth, StorageTypeOK
<1>23. CASE UNCHANGED storageVars
  BY <1>23 DEF storageVars, StorageTypeOK
<1>24. QED
  BY <1>1, <1>2, <1>3, <1>4, <1>5, <1>6, <1>7, <1>8, <1>9, <1>10, <1>11, <1>12, <1>13, <1>14,
       <1>15, <1>16, <1>17, <1>18, <1>19, <1>20, <1>21, <1>22, <1>23 DEF StorageNext

\* Actors name models.
LEMMA NamedStep == StorageIInv /\ [StorageNext]_storageVars => Named'
<1> SUFFICES ASSUME StorageIInv, [StorageNext]_storageVars PROVE Named'
  OBVIOUS
<1> USE DEF StorageIInv, guards, lifecycle
<1>1. ASSUME NEW m \in Models, NEW kind \in {"load", "convert"}, Schedule(m, kind) PROVE Named'
  BY <1>1 DEF Schedule, Named
<1>2. ASSUME NEW m \in Models, NEW kind \in {"load", "convert"}, OperationEnds(m, kind) PROVE Named'
  BY <1>2 DEF OperationEnds, Named
<1>3. ASSUME NEW m \in Models, UnloadModel(m) PROVE Named'
  BY <1>3 DEF UnloadModel, Named
<1>4. ASSUME NEW m \in Models, DeleteStarts(m) PROVE Named'
  BY <1>4 DEF DeleteStarts, Named
<1>5. ASSUME NEW m \in Models, RecoverBegins(m) PROVE Named'
  BY <1>5 DEF RecoverBegins, Named
<1>6. ASSUME NEW m \in Models, Validate(m) PROVE Named'
  BY <1>6 DEF Validate, StorageTypeOK, Named
<1>7. ASSUME NEW u \in Users, Return(u) PROVE Named'
  BY <1>7 DEF Return, Named
<1>8. ASSUME NEW u \in Users, ReturnAgain(u) PROVE Named'
  BY <1>8 DEF ReturnAgain, Named, Idle
<1>9. ASSUME NEW u \in Users, NEW m \in Models, Borrow(u, m) PROVE Named'
  BY <1>9 DEF Borrow, Named
<1>10. ASSUME NEW m \in Models, NEW action \in ModelActions \cup GlobalActions, EnterScope(m, action)
       PROVE  Named'
  BY <1>10 DEF EnterScope, Named
<1>11. ASSUME StartRemoval PROVE Named'
  BY <1>11 DEF StartRemoval, Named
<1>12. ASSUME RejectCleanup PROVE Named'
  BY <1>12 DEF RejectCleanup, LeaveScope, NoCleanup, Named
<1>13. ASSUME CleanupRemoved PROVE Named'
  BY <1>13 DEF CleanupRemoved, LeaveScope, NoCleanup, Named
<1>14. ASSUME DeleteMarks PROVE Named'
  BY <1>14 DEF DeleteMarks, StorageTypeOK, Named, Idle
<1>15. ASSUME DeleteLooks PROVE Named'
  BY <1>15 DEF DeleteLooks, StorageTypeOK, Named, Idle
<1>16. ASSUME DeleteRemoved PROVE Named'
  BY <1>16 DEF DeleteRemoved, Named, Idle
<1>17. ASSUME NEW convert \in BOOLEAN, RecoverEnds(convert) PROVE Named'
  BY <1>17 DEF RecoverEnds, Named, Idle
<1>18. ASSUME NEW ms \in SUBSET Models, NEW clear \in BOOLEAN, MaintenanceBegins(ms, clear) PROVE Named'
  BY <1>18 DEF MaintenanceBegins, Named
<1>19. ASSUME CacheCleared PROVE Named'
  BY <1>19 DEF CacheCleared, Named
<1>20. ASSUME CancelMaintenance PROVE Named'
  BY <1>20 DEF CancelMaintenance, Named
<1>21. ASSUME Validated PROVE Named'
  BY <1>21 DEF Validated, NoHealth, Named
<1>22. ASSUME MaintenanceEnds PROVE Named'
  BY <1>22 DEF MaintenanceEnds, NoHealth, Named
<1>23. CASE UNCHANGED storageVars
  BY <1>23 DEF storageVars, Named
<1>24. QED
  BY <1>1, <1>2, <1>3, <1>4, <1>5, <1>6, <1>7, <1>8, <1>9, <1>10, <1>11, <1>12, <1>13, <1>14,
       <1>15, <1>16, <1>17, <1>18, <1>19, <1>20, <1>21, <1>22, <1>23 DEF StorageNext

\* Every mark belongs to the actor that set it, and to no other.
LEMMA GuardsStep == StorageIInv /\ [StorageNext]_storageVars => Guards'
<1> SUFFICES ASSUME StorageIInv, [StorageNext]_storageVars PROVE Guards'
  OBVIOUS
<1> USE DEF StorageIInv, guards, lifecycle
<1>1. ASSUME NEW m \in Models, NEW kind \in {"load", "convert"}, Schedule(m, kind) PROVE Guards'
  BY <1>1 DEF Schedule, Guards, Scope, Deleting, Recovering
<1>2. ASSUME NEW m \in Models, NEW kind \in {"load", "convert"}, OperationEnds(m, kind) PROVE Guards'
  BY <1>2 DEF OperationEnds, Guards, Scope, Deleting, Recovering
<1>3. ASSUME NEW m \in Models, UnloadModel(m) PROVE Guards'
  BY <1>3 DEF UnloadModel, Guards, Scope, Deleting, Recovering
<1>4. ASSUME NEW m \in Models, DeleteStarts(m) PROVE Guards'
  BY <1>4 DEF DeleteStarts, Guards, Scope, Deleting, Recovering
<1>5. ASSUME NEW m \in Models, RecoverBegins(m) PROVE Guards'
  BY <1>5 DEF RecoverBegins, MutationConflict, CleanupBlocks, Guards, Scope, Deleting, Recovering
<1>6. ASSUME NEW m \in Models, Validate(m) PROVE Guards'
  BY <1>6 DEF Validate, Guards, Scope, Deleting, Recovering
<1>7. ASSUME NEW u \in Users, Return(u) PROVE Guards'
  BY <1>7 DEF Return, Guards, Scope, Deleting, Recovering
<1>8. ASSUME NEW u \in Users, ReturnAgain(u) PROVE Guards'
  BY <1>8 DEF ReturnAgain, Guards, Scope, Deleting, Recovering
<1>9. ASSUME NEW u \in Users, NEW m \in Models, Borrow(u, m) PROVE Guards'
  BY <1>9 DEF Borrow, Guards, Scope, Deleting, Recovering
<1>10. ASSUME NEW m \in Models, NEW action \in ModelActions \cup GlobalActions, EnterScope(m, action)
       PROVE  Guards'
  BY <1>10 DEF EnterScope, CleanupLockFree, ScopeConflict, StorageTypeOK, Guards, Scope, Deleting,
       Recovering, ModelActions, GlobalActions, Idle, NoCleanup, NoHealth
<1>11. ASSUME StartRemoval PROVE Guards'
  BY <1>11 DEF StartRemoval, Guards, Scope, Deleting, Recovering
<1>12. ASSUME RejectCleanup PROVE Guards'
  BY <1>12 DEF RejectCleanup, LeaveScope, NoCleanup, Guards, Scope, Deleting, Recovering
<1>13. ASSUME CleanupRemoved PROVE Guards'
  BY <1>13 DEF CleanupRemoved, LeaveScope, NoCleanup, Guards, Scope, Deleting, Recovering
<1>14. ASSUME DeleteMarks PROVE Guards'
  BY <1>14 DEF DeleteMarks, MutationConflict, CleanupBlocks, StorageTypeOK, Guards, Scope,
       Deleting, Recovering, Idle
<1>15. ASSUME DeleteLooks PROVE Guards'
  BY <1>15 DEF DeleteLooks, Unmark, StorageTypeOK, Guards, Scope, Deleting, Recovering, Idle
<1>16. ASSUME DeleteRemoved PROVE Guards'
  BY <1>16 DEF DeleteRemoved, Unmark, Guards, Scope, Deleting, Recovering, Idle
<1>17. ASSUME NEW convert \in BOOLEAN, RecoverEnds(convert) PROVE Guards'
  BY <1>17 DEF RecoverEnds, Guards, Scope, Deleting, Recovering, Idle
<1>18. ASSUME NEW ms \in SUBSET Models, NEW clear \in BOOLEAN, MaintenanceBegins(ms, clear)
       PROVE  Guards'
  BY <1>18 DEF MaintenanceBegins, Guards, Scope, Deleting, Recovering
<1>19. ASSUME CacheCleared PROVE Guards'
  BY <1>19 DEF CacheCleared, Guards, Scope, Deleting, Recovering
<1>20. ASSUME CancelMaintenance PROVE Guards'
  BY <1>20 DEF CancelMaintenance, Guards, Scope, Deleting, Recovering
<1>21. ASSUME Validated PROVE Guards'
  BY <1>21 DEF Validated, Guards, Scope, Deleting, Recovering
<1>22. ASSUME MaintenanceEnds PROVE Guards'
  BY <1>22 DEF MaintenanceEnds, Guards, Scope, Deleting, Recovering
<1>23. CASE UNCHANGED storageVars
  BY <1>23 DEF storageVars, Guards, Scope, Deleting, Recovering
<1>24. QED
  BY <1>1, <1>2, <1>3, <1>4, <1>5, <1>6, <1>7, <1>8, <1>9, <1>10, <1>11, <1>12, <1>13, <1>14,
       <1>15, <1>16, <1>17, <1>18, <1>19, <1>20, <1>21, <1>22, <1>23 DEF StorageNext

\* Nothing is scheduled or loaded where files are being removed.
LEMMA UndisturbedStep == StorageIInv /\ [StorageNext]_storageVars => RemovalUndisturbed'
<1> SUFFICES ASSUME StorageIInv, [StorageNext]_storageVars PROVE RemovalUndisturbed'
  OBVIOUS
<1> USE DEF StorageIInv, guards, lifecycle
<1>1. ASSUME NEW m \in Models, NEW kind \in {"load", "convert"}, Schedule(m, kind)
      PROVE  RemovalUndisturbed'
  BY <1>1 DEF Schedule, Blocked, CleanupBlocks, StorageTypeOK, Guards, RemovalUndisturbed, Scope,
       Deleting, CleanerRemoves, DeleterRemoves, ModelActions
<1>2. ASSUME NEW m \in Models, NEW kind \in {"load", "convert"}, OperationEnds(m, kind)
      PROVE  RemovalUndisturbed'
  BY <1>2 DEF OperationEnds, RemovalUndisturbed, CleanerRemoves, DeleterRemoves
<1>3. ASSUME NEW m \in Models, UnloadModel(m) PROVE RemovalUndisturbed'
  BY <1>3 DEF UnloadModel, RemovalUndisturbed, CleanerRemoves, DeleterRemoves
<1>4. ASSUME NEW m \in Models, DeleteStarts(m) PROVE RemovalUndisturbed'
  BY <1>4 DEF DeleteStarts, RemovalUndisturbed, CleanerRemoves, DeleterRemoves
<1>5. ASSUME NEW m \in Models, RecoverBegins(m) PROVE RemovalUndisturbed'
  BY <1>5 DEF RecoverBegins, RemovalUndisturbed, CleanerRemoves, DeleterRemoves
<1>6. ASSUME NEW m \in Models, Validate(m) PROVE RemovalUndisturbed'
  BY <1>6 DEF Validate, RemovalUndisturbed, CleanerRemoves, DeleterRemoves
<1>7. ASSUME NEW u \in Users, Return(u) PROVE RemovalUndisturbed'
  BY <1>7 DEF Return, RemovalUndisturbed, CleanerRemoves, DeleterRemoves
<1>8. ASSUME NEW u \in Users, ReturnAgain(u) PROVE RemovalUndisturbed'
  BY <1>8 DEF ReturnAgain, RemovalUndisturbed, CleanerRemoves, DeleterRemoves
<1>9. ASSUME NEW u \in Users, NEW m \in Models, Borrow(u, m) PROVE RemovalUndisturbed'
  BY <1>9 DEF Borrow, RemovalUndisturbed, CleanerRemoves, DeleterRemoves
<1>10. ASSUME NEW m \in Models, NEW action \in ModelActions \cup GlobalActions, EnterScope(m, action)
       PROVE  RemovalUndisturbed'
  BY <1>10 DEF EnterScope, RemovalUndisturbed, CleanerRemoves, DeleterRemoves
<1>11. ASSUME StartRemoval PROVE RemovalUndisturbed'
  BY <1>11 DEF StartRemoval, ActivityRejected, Preparing, AllIdle, Named, RemovalUndisturbed,
       CleanerRemoves, DeleterRemoves, Related, ModelActions
<1>12. ASSUME RejectCleanup PROVE RemovalUndisturbed'
  BY <1>12 DEF RejectCleanup, LeaveScope, NoCleanup, RemovalUndisturbed, CleanerRemoves, DeleterRemoves
<1>13. ASSUME CleanupRemoved PROVE RemovalUndisturbed'
  BY <1>13 DEF CleanupRemoved, LeaveScope, NoCleanup, RemovalUndisturbed, CleanerRemoves, DeleterRemoves
<1>14. ASSUME DeleteMarks PROVE RemovalUndisturbed'
  BY <1>14 DEF DeleteMarks, StorageTypeOK, RemovalUndisturbed, CleanerRemoves, DeleterRemoves, Idle
<1>15. ASSUME DeleteLooks PROVE RemovalUndisturbed'
  BY <1>15 DEF DeleteLooks, StorageTypeOK, RemovalUndisturbed, CleanerRemoves, DeleterRemoves, Idle
<1>16. ASSUME DeleteRemoved PROVE RemovalUndisturbed'
  BY <1>16 DEF DeleteRemoved, RemovalUndisturbed, CleanerRemoves, DeleterRemoves, Idle
<1>17. ASSUME NEW convert \in BOOLEAN, RecoverEnds(convert) PROVE RemovalUndisturbed'
  BY <1>17 DEF RecoverEnds, Blocked, CleanupBlocks, StorageTypeOK, Guards, RemovalUndisturbed,
       Scope, Deleting, CleanerRemoves, DeleterRemoves, ModelActions
<1>18. ASSUME NEW ms \in SUBSET Models, NEW clear \in BOOLEAN, MaintenanceBegins(ms, clear)
       PROVE  RemovalUndisturbed'
  BY <1>18 DEF MaintenanceBegins, RemovalUndisturbed, CleanerRemoves, DeleterRemoves
<1>19. ASSUME CacheCleared PROVE RemovalUndisturbed'
  BY <1>19 DEF CacheCleared, RemovalUndisturbed, CleanerRemoves, DeleterRemoves
<1>20. ASSUME CancelMaintenance PROVE RemovalUndisturbed'
  BY <1>20 DEF CancelMaintenance, RemovalUndisturbed, CleanerRemoves, DeleterRemoves
<1>21. ASSUME Validated PROVE RemovalUndisturbed'
  BY <1>21 DEF Validated, RemovalUndisturbed, CleanerRemoves, DeleterRemoves
<1>22. ASSUME MaintenanceEnds PROVE RemovalUndisturbed'
  BY <1>22 DEF MaintenanceEnds, RemovalUndisturbed, CleanerRemoves, DeleterRemoves
<1>23. CASE UNCHANGED storageVars
  BY <1>23 DEF storageVars, RemovalUndisturbed, CleanerRemoves, DeleterRemoves
<1>24. QED
  BY <1>1, <1>2, <1>3, <1>4, <1>5, <1>6, <1>7, <1>8, <1>9, <1>10, <1>11, <1>12, <1>13, <1>14,
       <1>15, <1>16, <1>17, <1>18, <1>19, <1>20, <1>21, <1>22, <1>23 DEF StorageNext

\* Engines are counted one by one, and counted down once.
LEMMA CountedStep == StorageIInv /\ [StorageNext]_storageVars => EveryTemporaryEngineCounted'
<1> SUFFICES ASSUME StorageIInv, [StorageNext]_storageVars PROVE EveryTemporaryEngineCounted'
  OBVIOUS
<1> USE DEF StorageIInv, guards, lifecycle
<1>1. ASSUME NEW m \in Models, NEW kind \in {"load", "convert"}, Schedule(m, kind)
      PROVE  EveryTemporaryEngineCounted'
  BY <1>1, CountKept DEF Schedule, Validating
<1>2. ASSUME NEW m \in Models, NEW kind \in {"load", "convert"}, OperationEnds(m, kind)
      PROVE  EveryTemporaryEngineCounted'
  BY <1>2, CountKept DEF OperationEnds, Validating
<1>3. ASSUME NEW m \in Models, UnloadModel(m) PROVE EveryTemporaryEngineCounted'
  BY <1>3, CountKept DEF UnloadModel, Validating
<1>4. ASSUME NEW m \in Models, DeleteStarts(m) PROVE EveryTemporaryEngineCounted'
  BY <1>4, CountKept DEF DeleteStarts, Validating
<1>5. ASSUME NEW m \in Models, RecoverBegins(m) PROVE EveryTemporaryEngineCounted'
  BY <1>5, CountKept DEF RecoverBegins, Validating
<1>6. ASSUME NEW m \in Models, Validate(m) PROVE EveryTemporaryEngineCounted'
  <2>1. CASE ~AllIdle \/ TemporaryConflict(m)
    <3>1. temporary' = temporary /\ borrowed' = borrowed
      BY <1>6, <2>1 DEF Validate
    <3>2. health'.pc = health.pc /\ health'.m = health.m
      BY <1>6, <2>1 DEF Validate, StorageTypeOK
    <3>3. QED
      BY <3>1, <3>2, CountKept DEF Validating
  <2>2. CASE ~(~AllIdle \/ TemporaryConflict(m))
    <3>1. SUFFICES ASSUME NEW k \in Models
                  PROVE  temporary'[k] = Cardinality(OpenOf(k)') + Validating(k)'
      BY DEF EveryTemporaryEngineCounted, OpenOf, Validating
    <3>2. /\ temporary[k] = Cardinality(OpenOf(k)) + Validating(k) /\ temporary[k] \in Nat
          /\ Cardinality(OpenOf(k)) \in Nat
      BY OpenFinite, FS_CardinalityType DEF EveryTemporaryEngineCounted, OpenOf, Validating
    <3>3. /\ health.pc = "ready" /\ health'.pc = "validating" /\ health'.m = m /\ borrowed' = borrowed
          /\ temporary' = [temporary EXCEPT ![m] = temporary[m] + 1]
      BY <1>6, <2>2 DEF Validate, CountUp, StorageTypeOK
    <3>4. OpenOf(k)' = OpenOf(k) /\ Validating(k) = 0 /\ Validating(k)' = IF k = m THEN 1 ELSE 0
      BY <3>3 DEF OpenOf, Validating
    <3>5. temporary'[k] = IF k = m THEN temporary[k] + 1 ELSE temporary[k]
      BY <3>3 DEF StorageTypeOK
    <3>6. QED
      BY <3>2, <3>4, <3>5
  <2>3. QED
    BY <2>1, <2>2
<1>7. ASSUME NEW u \in Users, Return(u) PROVE EveryTemporaryEngineCounted'
  <2>1. SUFFICES ASSUME NEW k \in Models
                PROVE  temporary'[k] = Cardinality(OpenOf(k)') + Validating(k)'
    BY DEF EveryTemporaryEngineCounted, OpenOf, Validating
  <2>2. temporary[k] = Cardinality(OpenOf(k)) + Validating(k) /\ temporary[k] \in Nat
    BY DEF EveryTemporaryEngineCounted, OpenOf, Validating, StorageTypeOK
  <2>3. IsFiniteSet(OpenOf(k)) /\ Cardinality(OpenOf(k)) \in Nat
    BY OpenFinite, FS_CardinalityType
  <2>4. /\ borrowed[u].pc = "open" /\ borrowed' = [borrowed EXCEPT ![u].pc = "closed"]
        /\ CountDown(borrowed[u].m) /\ Validating(k)' = Validating(k)
    BY <1>7 DEF Return, Validating
  <2>5. borrowed[u].m \in Models
    BY <2>4 DEF Named
  <2>6. CASE k = borrowed[u].m
    <3>1. OpenOf(k)' = OpenOf(k) \ {u} /\ u \in OpenOf(k)
      BY <2>4, <2>6 DEF OpenOf, StorageTypeOK
    <3>2. Cardinality(OpenOf(k)') = Cardinality(OpenOf(k)) - 1 /\ Cardinality(OpenOf(k)) > 0
      BY <2>3, <3>1, FS_RemoveElement, FS_EmptySet
    <3>3. Validating(k) \in Nat
      BY DEF Validating
    <3>4. temporary[k] > 0
      BY <2>2, <2>3, <3>2, <3>3
    <3>5. temporary'[k] = temporary[k] - 1
      BY <2>2, <2>4, <2>6, <3>4 DEF CountDown, StorageTypeOK
    <3>6. QED
      BY <2>2, <2>3, <2>4, <3>2, <3>3, <3>5
  <2>7. CASE k # borrowed[u].m
    <3>1. OpenOf(k)' = OpenOf(k)
      BY <2>4, <2>7 DEF OpenOf
    <3>2. temporary'[k] = temporary[k]
      BY <2>4, <2>7 DEF CountDown
    <3>3. QED
      BY <2>2, <2>4, <3>1, <3>2
  <2>8. QED
    BY <2>6, <2>7
<1>8. ASSUME NEW u \in Users, ReturnAgain(u) PROVE EveryTemporaryEngineCounted'
  <2>1. SUFFICES ASSUME NEW k \in Models
                PROVE  temporary'[k] = Cardinality(OpenOf(k)') + Validating(k)'
    BY DEF EveryTemporaryEngineCounted, OpenOf, Validating
  <2>2. temporary[k] = Cardinality(OpenOf(k)) + Validating(k) /\ temporary[k] \in Nat
    BY DEF EveryTemporaryEngineCounted, OpenOf, Validating, StorageTypeOK
  <2>3. IsFiniteSet(OpenOf(k)) /\ Cardinality(OpenOf(k)) \in Nat
    BY OpenFinite, FS_CardinalityType
  <2>4. /\ borrowed[u].pc = "closed" /\ borrowed' = [borrowed EXCEPT ![u] = Idle]
        /\ temporary' = temporary /\ Validating(k)' = Validating(k)
    BY <1>8 DEF ReturnAgain, Validating
  <2>5. OpenOf(k)' = OpenOf(k)
    BY <2>4 DEF OpenOf, Idle
  <2>6. QED
    BY <2>2, <2>4, <2>5
<1>9. ASSUME NEW u \in Users, NEW m \in Models, Borrow(u, m) PROVE EveryTemporaryEngineCounted'
  <2>1. SUFFICES ASSUME NEW k \in Models
                PROVE  temporary'[k] = Cardinality(OpenOf(k)') + Validating(k)'
    BY DEF EveryTemporaryEngineCounted, OpenOf, Validating
  <2>2. temporary[k] = Cardinality(OpenOf(k)) + Validating(k) /\ temporary[k] \in Nat
    BY DEF EveryTemporaryEngineCounted, OpenOf, Validating, StorageTypeOK
  <2>3. IsFiniteSet(OpenOf(k)) /\ Cardinality(OpenOf(k)) \in Nat
    BY OpenFinite, FS_CardinalityType
  <2>4. /\ borrowed[u].pc = "idle" /\ borrowed' = [borrowed EXCEPT ![u] = [pc |-> "open", m |-> m]]
        /\ temporary' = [temporary EXCEPT ![m] = temporary[m] + 1] /\ Validating(k)' = Validating(k)
    BY <1>9 DEF Borrow, CountUp, Validating
  <2>5. CASE k = m
    <3>1. OpenOf(k)' = OpenOf(k) \cup {u} /\ u \notin OpenOf(k)
      BY <2>4, <2>5 DEF OpenOf, StorageTypeOK
    <3>2. Cardinality(OpenOf(k)') = Cardinality(OpenOf(k)) + 1
      BY <2>3, <3>1, FS_AddElement
    <3>3. temporary'[k] = temporary[k] + 1
      BY <2>4, <2>5 DEF StorageTypeOK
    <3>4. Validating(k) \in Nat
      BY DEF Validating
    <3>5. QED
      BY <2>2, <2>3, <2>4, <3>2, <3>3, <3>4
  <2>6. CASE k # m
    <3>1. OpenOf(k)' = OpenOf(k)
      BY <2>4, <2>6 DEF OpenOf
    <3>2. temporary'[k] = temporary[k]
      BY <2>4, <2>6
    <3>3. QED
      BY <2>2, <2>4, <3>1, <3>2
  <2>7. QED
    BY <2>5, <2>6
<1>10. ASSUME NEW m \in Models, NEW action \in ModelActions \cup GlobalActions, EnterScope(m, action)
       PROVE  EveryTemporaryEngineCounted'
  BY <1>10, CountKept DEF EnterScope, Validating
<1>11. ASSUME StartRemoval PROVE EveryTemporaryEngineCounted'
  BY <1>11, CountKept DEF StartRemoval, Validating
<1>12. ASSUME RejectCleanup PROVE EveryTemporaryEngineCounted'
  BY <1>12, CountKept DEF RejectCleanup, Validating
<1>13. ASSUME CleanupRemoved PROVE EveryTemporaryEngineCounted'
  BY <1>13, CountKept DEF CleanupRemoved, Validating
<1>14. ASSUME DeleteMarks PROVE EveryTemporaryEngineCounted'
  BY <1>14, CountKept DEF DeleteMarks, Validating
<1>15. ASSUME DeleteLooks PROVE EveryTemporaryEngineCounted'
  BY <1>15, CountKept DEF DeleteLooks, Unmark, Validating
<1>16. ASSUME DeleteRemoved PROVE EveryTemporaryEngineCounted'
  BY <1>16, CountKept DEF DeleteRemoved, Unmark, Validating
<1>17. ASSUME NEW convert \in BOOLEAN, RecoverEnds(convert) PROVE EveryTemporaryEngineCounted'
  BY <1>17, CountKept DEF RecoverEnds, Validating
<1>18. ASSUME NEW ms \in SUBSET Models, NEW clear \in BOOLEAN, MaintenanceBegins(ms, clear)
       PROVE  EveryTemporaryEngineCounted'
  BY <1>18, CountKept DEF MaintenanceBegins, CleanupLockFree, Validating
<1>19. ASSUME CacheCleared PROVE EveryTemporaryEngineCounted'
  BY <1>19, CountKept DEF CacheCleared, Validating
<1>20. ASSUME CancelMaintenance PROVE EveryTemporaryEngineCounted'
  BY <1>20, CountKept DEF CancelMaintenance, Validating
<1>21. ASSUME Validated PROVE EveryTemporaryEngineCounted'
  <2>1. SUFFICES ASSUME NEW k \in Models
                PROVE  temporary'[k] = Cardinality(OpenOf(k)') + Validating(k)'
    BY DEF EveryTemporaryEngineCounted, OpenOf, Validating
  <2>2. temporary[k] = Cardinality(OpenOf(k)) + Validating(k) /\ temporary[k] \in Nat
    BY DEF EveryTemporaryEngineCounted, OpenOf, Validating, StorageTypeOK
  <2>3. IsFiniteSet(OpenOf(k)) /\ Cardinality(OpenOf(k)) \in Nat
    BY OpenFinite, FS_CardinalityType
  <2>4. health.pc = "validating" /\ CountDown(health.m) /\ borrowed' = borrowed /\ health.m \in Models
    BY <1>21 DEF Validated, Named
  <2>5. health'.pc # "validating"
    BY <1>21 DEF Validated, NoHealth
  <2>6. OpenOf(k)' = OpenOf(k) /\ Validating(k)' = 0 /\ Validating(k) = IF k = health.m THEN 1 ELSE 0
    BY <2>4, <2>5 DEF OpenOf, Validating
  <2>7. temporary'[k] = IF k = health.m THEN temporary[k] - 1 ELSE temporary[k]
    BY <2>2, <2>3, <2>4, <2>6 DEF CountDown, StorageTypeOK
  <2>8. QED
    BY <2>2, <2>3, <2>6, <2>7
<1>22. ASSUME MaintenanceEnds PROVE EveryTemporaryEngineCounted'
  BY <1>22, CountKept DEF MaintenanceEnds, NoHealth, Validating
<1>23. CASE UNCHANGED storageVars
  BY <1>23 DEF storageVars, EveryTemporaryEngineCounted
<1>24. QED
  BY <1>1, <1>2, <1>3, <1>4, <1>5, <1>6, <1>7, <1>8, <1>9, <1>10, <1>11, <1>12, <1>13, <1>14,
       <1>15, <1>16, <1>17, <1>18, <1>19, <1>20, <1>21, <1>22, <1>23 DEF StorageNext

\* A guard is set only where no engine is counted, and keeps engines away.
LEMMA UnusedStep == StorageIInv /\ [StorageNext]_storageVars => MarkedMeansUnused'
<1> SUFFICES ASSUME StorageIInv, [StorageNext]_storageVars PROVE MarkedMeansUnused'
  OBVIOUS
<1> USE DEF StorageIInv, guards, lifecycle
<1>1. ASSUME NEW m \in Models, NEW kind \in {"load", "convert"}, Schedule(m, kind)
      PROVE  MarkedMeansUnused'
  BY <1>1 DEF Schedule, MarkedMeansUnused
<1>2. ASSUME NEW m \in Models, NEW kind \in {"load", "convert"}, OperationEnds(m, kind)
      PROVE  MarkedMeansUnused'
  BY <1>2 DEF OperationEnds, MarkedMeansUnused
<1>3. ASSUME NEW m \in Models, UnloadModel(m) PROVE MarkedMeansUnused'
  BY <1>3 DEF UnloadModel, MarkedMeansUnused
<1>4. ASSUME NEW m \in Models, DeleteStarts(m) PROVE MarkedMeansUnused'
  BY <1>4 DEF DeleteStarts, MarkedMeansUnused
<1>5. ASSUME NEW m \in Models, RecoverBegins(m) PROVE MarkedMeansUnused'
  BY <1>5 DEF RecoverBegins, MutationConflict, StorageTypeOK, MarkedMeansUnused
<1>6. ASSUME NEW m \in Models, Validate(m) PROVE MarkedMeansUnused'
  BY <1>6 DEF Validate, TemporaryConflict, CleanupBlocks, CountUp, StorageTypeOK, MarkedMeansUnused
<1>7. ASSUME NEW u \in Users, Return(u) PROVE MarkedMeansUnused'
  BY <1>7 DEF Return, CountDown, MarkedMeansUnused
<1>8. ASSUME NEW u \in Users, ReturnAgain(u) PROVE MarkedMeansUnused'
  BY <1>8 DEF ReturnAgain, MarkedMeansUnused
<1>9. ASSUME NEW u \in Users, NEW m \in Models, Borrow(u, m) PROVE MarkedMeansUnused'
  BY <1>9 DEF Borrow, CountUp, TemporaryConflict, CleanupBlocks, MarkedMeansUnused
<1>10. ASSUME NEW m \in Models, NEW action \in ModelActions \cup GlobalActions, EnterScope(m, action)
       PROVE  MarkedMeansUnused'
  BY <1>10 DEF EnterScope, ScopeConflict, StorageTypeOK, MarkedMeansUnused
<1>11. ASSUME StartRemoval PROVE MarkedMeansUnused'
  BY <1>11 DEF StartRemoval, MarkedMeansUnused
<1>12. ASSUME RejectCleanup PROVE MarkedMeansUnused'
  BY <1>12 DEF RejectCleanup, LeaveScope, MarkedMeansUnused
<1>13. ASSUME CleanupRemoved PROVE MarkedMeansUnused'
  BY <1>13 DEF CleanupRemoved, LeaveScope, MarkedMeansUnused
<1>14. ASSUME DeleteMarks PROVE MarkedMeansUnused'
  BY <1>14 DEF DeleteMarks, MutationConflict, StorageTypeOK, MarkedMeansUnused
<1>15. ASSUME DeleteLooks PROVE MarkedMeansUnused'
  BY <1>15 DEF DeleteLooks, Unmark, MarkedMeansUnused
<1>16. ASSUME DeleteRemoved PROVE MarkedMeansUnused'
  BY <1>16 DEF DeleteRemoved, Unmark, MarkedMeansUnused
<1>17. ASSUME NEW convert \in BOOLEAN, RecoverEnds(convert) PROVE MarkedMeansUnused'
  BY <1>17 DEF RecoverEnds, MarkedMeansUnused
<1>18. ASSUME NEW ms \in SUBSET Models, NEW clear \in BOOLEAN, MaintenanceBegins(ms, clear)
       PROVE  MarkedMeansUnused'
  BY <1>18 DEF MaintenanceBegins, MarkedMeansUnused
<1>19. ASSUME CacheCleared PROVE MarkedMeansUnused'
  BY <1>19 DEF CacheCleared, MarkedMeansUnused
<1>20. ASSUME CancelMaintenance PROVE MarkedMeansUnused'
  BY <1>20 DEF CancelMaintenance, MarkedMeansUnused
<1>21. ASSUME Validated PROVE MarkedMeansUnused'
  BY <1>21 DEF Validated, CountDown, MarkedMeansUnused
<1>22. ASSUME MaintenanceEnds PROVE MarkedMeansUnused'
  BY <1>22 DEF MaintenanceEnds, MarkedMeansUnused
<1>23. CASE UNCHANGED storageVars
  BY <1>23 DEF storageVars, MarkedMeansUnused
<1>24. QED
  BY <1>1, <1>2, <1>3, <1>4, <1>5, <1>6, <1>7, <1>8, <1>9, <1>10, <1>11, <1>12, <1>13, <1>14,
       <1>15, <1>16, <1>17, <1>18, <1>19, <1>20, <1>21, <1>22, <1>23 DEF StorageNext

\* Maintenance begins alone and stays alone.
LEMMA ExclusiveStep == StorageIInv /\ [StorageNext]_storageVars => MaintenanceIsExclusive'
<1> SUFFICES ASSUME StorageIInv, [StorageNext]_storageVars PROVE MaintenanceIsExclusive'
  OBVIOUS
<1> USE DEF StorageIInv, guards, lifecycle
<1>1. ASSUME NEW m \in Models, NEW kind \in {"load", "convert"}, Schedule(m, kind)
      PROVE  MaintenanceIsExclusive'
  BY <1>1 DEF Schedule, Blocked, MaintenanceActive, MaintenanceIsExclusive
<1>2. ASSUME NEW m \in Models, NEW kind \in {"load", "convert"}, OperationEnds(m, kind)
      PROVE  MaintenanceIsExclusive'
  BY <1>2 DEF OperationEnds, MaintenanceIsExclusive, MaintenanceActive, AllIdle, Preparing
<1>3. ASSUME NEW m \in Models, UnloadModel(m) PROVE MaintenanceIsExclusive'
  BY <1>3 DEF UnloadModel, MaintenanceIsExclusive, MaintenanceActive, AllIdle
<1>4. ASSUME NEW m \in Models, DeleteStarts(m) PROVE MaintenanceIsExclusive'
  BY <1>4 DEF DeleteStarts, MaintenanceActive, MaintenanceIsExclusive
<1>5. ASSUME NEW m \in Models, RecoverBegins(m) PROVE MaintenanceIsExclusive'
  BY <1>5 DEF RecoverBegins, MaintenanceActive, MaintenanceIsExclusive
<1>6. ASSUME NEW m \in Models, Validate(m) PROVE MaintenanceIsExclusive'
  BY <1>6 DEF Validate, AllIdle, Preparing, MaintenanceIsExclusive, MaintenanceActive
<1>7. ASSUME NEW u \in Users, Return(u) PROVE MaintenanceIsExclusive'
  BY <1>7 DEF Return, MaintenanceIsExclusive, MaintenanceActive
<1>8. ASSUME NEW u \in Users, ReturnAgain(u) PROVE MaintenanceIsExclusive'
  BY <1>8 DEF ReturnAgain, MaintenanceIsExclusive, MaintenanceActive, AllIdle, Preparing, Idle
<1>9. ASSUME NEW u \in Users, NEW m \in Models, Borrow(u, m) PROVE MaintenanceIsExclusive'
  BY <1>9 DEF Borrow, MaintenanceActive, MaintenanceIsExclusive
<1>10. ASSUME NEW m \in Models, NEW action \in ModelActions \cup GlobalActions, EnterScope(m, action)
       PROVE  MaintenanceIsExclusive'
  BY <1>10 DEF EnterScope, CleanupLockFree, MaintenanceIsExclusive, MaintenanceActive
<1>11. ASSUME StartRemoval PROVE MaintenanceIsExclusive'
  BY <1>11 DEF StartRemoval, MaintenanceIsExclusive, MaintenanceActive
<1>12. ASSUME RejectCleanup PROVE MaintenanceIsExclusive'
  BY <1>12 DEF RejectCleanup, MaintenanceIsExclusive, MaintenanceActive
<1>13. ASSUME CleanupRemoved PROVE MaintenanceIsExclusive'
  BY <1>13 DEF CleanupRemoved, MaintenanceIsExclusive, MaintenanceActive
<1>14. ASSUME DeleteMarks PROVE MaintenanceIsExclusive'
  BY <1>14 DEF DeleteMarks, MaintenanceIsExclusive, MaintenanceActive, AllIdle, Preparing
<1>15. ASSUME DeleteLooks PROVE MaintenanceIsExclusive'
  BY <1>15 DEF DeleteLooks, MaintenanceIsExclusive, MaintenanceActive, AllIdle, Preparing
<1>16. ASSUME DeleteRemoved PROVE MaintenanceIsExclusive'
  BY <1>16 DEF DeleteRemoved, MaintenanceIsExclusive, MaintenanceActive, AllIdle, Preparing
<1>17. ASSUME NEW convert \in BOOLEAN, RecoverEnds(convert) PROVE MaintenanceIsExclusive'
  BY <1>17 DEF RecoverEnds, MaintenanceActive, MaintenanceIsExclusive
<1>18. ASSUME NEW ms \in SUBSET Models, NEW clear \in BOOLEAN, MaintenanceBegins(ms, clear)
       PROVE  MaintenanceIsExclusive'
  <2>1. AllIdle /\ ~StorageActive /\ cleaner.pc = "idle"
    BY <1>18 DEF MaintenanceBegins, CleanupLockFree
  <2>2. recoverer.pc = "idle"
    BY <2>1 DEF StorageActive, Guards, Recovering, StorageTypeOK
  <2>3. \A u \in Users : borrowed[u].pc # "open"
    <3>1. SUFFICES ASSUME NEW u \in Users, borrowed[u].pc = "open" PROVE FALSE
      OBVIOUS
    <3>2. borrowed[u].m \in Models /\ u \in OpenOf(borrowed[u].m)
      BY <3>1 DEF Named, OpenOf, StorageTypeOK
    <3>3. IsFiniteSet(OpenOf(borrowed[u].m))
      BY <3>2, OpenFinite
    <3>4. Cardinality(OpenOf(borrowed[u].m)) \in Nat /\ Cardinality(OpenOf(borrowed[u].m)) # 0
      BY <3>2, <3>3, FS_CardinalityType, FS_EmptySet
    <3>5. temporary[borrowed[u].m] = Cardinality(OpenOf(borrowed[u].m)) + Validating(borrowed[u].m)
      BY <3>2 DEF EveryTemporaryEngineCounted, OpenOf, Validating
    <3>6. temporary[borrowed[u].m] > 0
      BY <3>4, <3>5 DEF Validating
    <3>7. QED
      BY <2>1, <3>2, <3>6 DEF StorageActive
  <2>4. QED
    BY <1>18, <2>1, <2>2, <2>3 DEF MaintenanceBegins, MaintenanceIsExclusive, AllIdle, Preparing
<1>19. ASSUME CacheCleared PROVE MaintenanceIsExclusive'
  BY <1>19 DEF CacheCleared, MaintenanceIsExclusive, MaintenanceActive, AllIdle, Preparing
<1>20. ASSUME CancelMaintenance PROVE MaintenanceIsExclusive'
  BY <1>20 DEF CancelMaintenance, MaintenanceIsExclusive, MaintenanceActive, AllIdle, Preparing
<1>21. ASSUME Validated PROVE MaintenanceIsExclusive'
  BY <1>21 DEF Validated, MaintenanceIsExclusive, MaintenanceActive, AllIdle, Preparing
<1>22. ASSUME MaintenanceEnds PROVE MaintenanceIsExclusive'
  BY <1>22 DEF MaintenanceEnds, NoHealth, MaintenanceIsExclusive, MaintenanceActive
<1>23. CASE UNCHANGED storageVars
  BY <1>23 DEF storageVars, MaintenanceIsExclusive, MaintenanceActive, AllIdle, Preparing
<1>24. QED
  BY <1>1, <1>2, <1>3, <1>4, <1>5, <1>6, <1>7, <1>8, <1>9, <1>10, <1>11, <1>12, <1>13, <1>14,
       <1>15, <1>16, <1>17, <1>18, <1>19, <1>20, <1>21, <1>22, <1>23 DEF StorageNext

LEMMA StorageInvariant == StorageSpec => []StorageIInv
<1>1. StorageIInv /\ [StorageNext]_storageVars => StorageIInv'
  BY TypeStep, NamedStep, GuardsStep, CountedStep, UnusedStep, UndisturbedStep,
       ExclusiveStep DEF StorageIInv
<1>2. QED
  BY <1>1, StorageInitIInv, PTL DEF StorageSpec

\* The types of the shared sets, counts and actors.
THEOREM StorageTypeCorrect == StorageSpec => []StorageTypeOK
<1>1. StorageIInv => StorageTypeOK
  BY DEF StorageIInv
<1>2. QED
  BY <1>1, StorageInvariant, PTL

\* Cleanup, deletion, recovery, maintenance and temporary engines keep out of each
\* other's way, however their steps interleave (cleanup_scope, _external_mutation,
\* temporary engines, runtime-health maintenance).
THEOREM StorageIsSafe == StorageSpec => []StorageSafe
<1>1. StorageIInv => StorageSafe
  <2> SUFFICES ASSUME StorageIInv PROVE StorageSafe
    OBVIOUS
  <2> USE DEF StorageIInv
  <2>1. DeleterRemoves \subseteq Deleting /\ RecovererRemoves = Recovering
    BY DEF DeleterRemoves, Deleting, RecovererRemoves, Recovering
  <2>2. CleanerRemoves \subseteq Scope \/ global
    BY DEF CleanerRemoves, Scope, Guards, GlobalActions
  <2>3. CleanerRemoves \subseteq Models /\ Deleting \subseteq Models /\ Recovering \subseteq Models
    BY DEF CleanerRemoves, Related, Deleting, Recovering, Named
  <2>4. OneRemoverPerModel
    BY <2>1, <2>2 DEF OneRemoverPerModel, Guards
  <2>5. \A m \in CleanerRemoves \cup DeleterRemoves \cup RecovererRemoves : m \in Models /\ temporary[m] = 0
    BY <2>1, <2>2, <2>3 DEF Guards, MarkedMeansUnused
  <2>6. TemporaryEngineKeepsItsFiles
    <3>1. SUFFICES ASSUME NEW m \in CleanerRemoves \cup DeleterRemoves \cup RecovererRemoves
                  PROVE  /\ \A u \in Users : borrowed[u].pc = "open" => borrowed[u].m # m
                         /\ health.pc = "validating" => health.m # m
      BY DEF TemporaryEngineKeepsItsFiles
    <3>2. Cardinality(OpenOf(m)) + Validating(m) = 0 /\ Cardinality(OpenOf(m)) \in Nat
      BY <2>5, OpenFinite, FS_CardinalityType DEF EveryTemporaryEngineCounted, OpenOf, Validating
    <3>3. OpenOf(m) = {} /\ Validating(m) = 0
      BY <2>5, <3>2, OpenFinite, FS_EmptySet DEF Validating
    <3>4. QED
      BY <3>3 DEF OpenOf, Validating, StorageTypeOK
  <2>7. QED
    BY <2>4, <2>6 DEF StorageSafe
<1>2. QED
  BY <1>1, StorageInvariant, PTL
==============================================================================
