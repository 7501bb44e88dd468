---------------------------- MODULE MCStoryRoom ----------------------------
(***************************************************************************)
(* Small instances of StoryRoom for TLC.  Jobs have random names, so the   *)
(* safety runs may permute them.                                           *)
(***************************************************************************)
EXTENDS StoryRoom, TLC

CONSTANTS admin, player, key, j1, j2, w1

MCUsers == {admin, player}
MCAdmins == {admin}
MCKeys == {key}
MCJobs2 == {j1, j2}
MCWorkers1 == {w1}

MCImportSizes == {2}

MCFewStatuses == {"active", "archived"}

JobSymmetry == Permutations(JobIds)

============================================================================
