---------------------------- MODULE MCHandleNames ----------------------------
(* Two names: two files in one folder and the name of another, free: the   *)
(* folder and what lies in it can be renamed at the same time, each out of *)
(* the other's way or into it.  Three names, for one rename at a time: two *)
(* files of the same name in two folders, of which one can be renamed away *)
(* and the other take its place.                                           *)
EXTENDS HandleNames, TLC

CONSTANTS d, e, f, x, y, h1, r1, r2

MCFiles == {x, y}
MCHandles == {h1}
TwoNames == {d, e}
OneFolder == (x :> <<d, e>>) @@ (y :> <<d, d>>)
TwoRenames == {r1, r2}
AllRaces == {"open", "fsync", "release", "lost"}
ThreeNames == {d, e, f}
TwoFolders == (x :> <<d, f>>) @@ (y :> <<e, f>>)
OneRename == {r1}
FsyncRace == {"fsync"}
RenameSymmetry == Permutations(TwoRenames)
==============================================================================
