----------------------------- MODULE MCWritePath -----------------------------
(* One file, so that the two handlers meet on it: that is where dirty      *)
(* bits, versions and the open set can disagree.                           *)
EXTENDS WritePath

CONSTANTS f1, h1, h2

MCFiles == {f1}
MCHandles == {h1, h2}
==============================================================================
