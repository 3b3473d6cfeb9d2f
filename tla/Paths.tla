-------------------------------- MODULE Paths --------------------------------
(***************************************************************************)
(* Remote paths, as path_map.rs and fuse_fs.rs take them apart.  A path is *)
(* the sequence of its components; the root, "" in the code, is << >>.     *)
(* The code's tests `path == root || path.starts_with("{root}/")` are      *)
(* prefix tests on components.                                             *)
(***************************************************************************)
EXTENDS Naturals, Sequences

CONSTANTS
    Names,      \* the component names that occur
    MaxDepth    \* bound: the longest path, in components

ASSUME MaxDepthAssumption == MaxDepth \in Nat \ {0}

Root == << >>

Paths == UNION {[1..n -> Names] : n \in 0..MaxDepth}

\* `p` is `root` or lies below it.
AtOrBelow(p, root) ==
    /\ Len(root) <= Len(p)
    /\ \A i \in 1..Len(root) : p[i] = root[i]

\* The path that `p`, at or below `old`, has once `old` is called `new`.
Rebase(p, old, new) == new \o SubSeq(p, Len(old) + 1, Len(p))
==============================================================================
