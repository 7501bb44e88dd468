---------------------------- MODULE MCWorldWrite ----------------------------
(***************************************************************************)
(* Small instances of WorldWrite for TLC.  Run ids are made of the time    *)
(* and a hash, and never compared by size.                                 *)
(***************************************************************************)
EXTENDS WorldWrite, TLC

CONSTANTS d1, p1, p2, r1, r2, r3

MCIds == {d1}
MCProcs1 == {p1}
MCProcs2 == {p1, p2}
MCRuns3 == {r1, r2, r3}

RunSymmetry == Permutations(Runs)
RunProcSymmetry == Permutations(Runs) \cup Permutations(Procs)

=============================================================================
