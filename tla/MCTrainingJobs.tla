---------------------------- MODULE MCTrainingJobs ----------------------------
(* TrainingJobs for TLC: two local jobs and a notebook job. *)
EXTENDS TrainingJobs

CONSTANTS l1, l2, n1, u1, u2, p1
=============================================================================
