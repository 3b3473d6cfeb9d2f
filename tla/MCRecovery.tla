----------------------------- MODULE MCRecovery -----------------------------
(* Two processes, for the lock, and two starts: Init has what earlier      *)
(* mounts left behind, one start is killed or changes files, the other     *)
(* scans.  Two files, so that a scan can fail between them.                *)
EXTENDS Recovery

CONSTANTS p1, p2, f1, f2

MCProcs == {p1, p2}
MCFiles == {f1}
MCTwoFiles == {f1, f2}
==============================================================================
