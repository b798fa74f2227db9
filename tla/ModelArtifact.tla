--------------------------- MODULE ModelArtifact ----------------------------
(***************************************************************************)
(* What transactional publication promises about one converted model,      *)
(* whatever files it moves and wherever it is interrupted                   *)
(* (runtime/model_output_transaction.py, the module's and                   *)
(* staged_model_output's docstrings): there is always one artifact that can *)
(* be used or restored, it changes only when a validated replacement is     *)
(* published, and a publication that is undone brings back exactly the      *)
(* artifact that was owed before it.                                        *)
(***************************************************************************)
CONSTANTS Artifacts, Absent

VARIABLES
  artifact,  \* the artifact that can be used, or restored, now
  owed       \* the artifact an interrupted or failed publication goes back to

vars == <<artifact, owed>>

Init == artifact \in Artifacts \cup {Absent} /\ owed = artifact

\* A validated replacement becomes the usable artifact.
Publish == artifact' \in Artifacts /\ owed' = owed

\* The usable artifact becomes the one later transactions owe.
Adopt == artifact # Absent /\ owed' = artifact /\ artifact' = artifact

\* The publication in progress is undone.
Withdraw == artifact' = owed /\ owed' = owed

Next == Publish \/ Adopt \/ Withdraw

Spec == Init /\ [][Next]_vars

\* An artifact that is owed is never lost.
OwedIsKept == owed # Absent => artifact # Absent
=============================================================================
