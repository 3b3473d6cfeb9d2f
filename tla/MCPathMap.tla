------------------------------ MODULE MCPathMap ------------------------------
(* Two component names and three levels give a folder with a subfolder and *)
(* files below both, a rename onto an occupied tree, and renames into and  *)
(* out of a tree; four inode numbers let an entry be forgotten and         *)
(* interned again while others are live.                                   *)
EXTENDS PathMap

CONSTANTS a, b

MCNames == {a, b}
==============================================================================
