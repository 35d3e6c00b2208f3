-------------------------- MODULE MCDescriptionJobs --------------------------
(* Instances of DescriptionJobs for the model checker.                     *)
EXTENDS DescriptionJobs, TLC

UploadSymmetry == Permutations(Uploads)

\* Everything but the history variables, for runs whose properties read none.
NoHistory == <<photo, job, upload, objects, ledgers, month, queue, pc, task, claim, fault>>
==============================================================================
