------------------------------- MODULE PathMap -------------------------------
(***************************************************************************)
(* path_map.rs: the bidirectional inode <-> path map of the mount.  Every  *)
(* operation runs under the `paths` mutex of fuse_fs.rs, so each is one    *)
(* atomic action.  The callers decide the order: populate_from_list,       *)
(* lookup, mkdir and create intern; unlink and rmdir forget; rename moves. *)
(***************************************************************************)
EXTENDS Paths

CONSTANT MaxInode   \* bound on the u64 inode counter

ASSUME MaxInodeAssumption == MaxInode \in Nat \ {0}

VARIABLES
    next,            \* the next inode number to hand out
    path_to_inode,   \* both halves of the map: functions whose domains are
    inode_to_path    \* the interned paths and the live inodes

vars == <<next, path_to_inode, inode_to_path>>

ROOT_INODE == 1

Init ==
    /\ next = ROOT_INODE + 1
    /\ path_to_inode = [p \in {Root} |-> ROOT_INODE]
    /\ inode_to_path = [i \in {ROOT_INODE} |-> Root]

Interned == DOMAIN path_to_inode

\* Mutant: the counter is not advanced.
InternKeepsNext(path) ==
    /\ path \notin Interned
    /\ next <= MaxInode
    /\ path_to_inode' = [p \in Interned \cup {path} |->
                            IF p = path THEN next ELSE path_to_inode[p]]
    /\ inode_to_path' = [i \in DOMAIN inode_to_path \cup {next} |->
                            IF i = next THEN path ELSE inode_to_path[i]]
    /\ UNCHANGED next

(* A path already interned returns its inode: nothing changes.             *)
InternKnown(path) == path \in Interned /\ UNCHANGED vars

Intern(path) ==
    /\ path \notin Interned
    /\ next <= MaxInode
    /\ next' = next + 1
    /\ path_to_inode' = [p \in Interned \cup {path} |->
                            IF p = path THEN next ELSE path_to_inode[p]]
    /\ inode_to_path' = [i \in DOMAIN inode_to_path \cup {next} |->
                            IF i = next THEN path ELSE inode_to_path[i]]

\* Mutant: only one half of the mapping is dropped.
ForgetOneHalf(path) ==
    /\ path \in Interned
    /\ path_to_inode' = [p \in Interned \ {path} |-> path_to_inode[p]]
    /\ UNCHANGED <<next, inode_to_path>>

\* Mutant: the number of the entry interned last is given back.
ForgetRecycles(path) ==
    /\ path \in Interned
    /\ path_to_inode' = [p \in Interned \ {path} |-> path_to_inode[p]]
    /\ inode_to_path' = [i \in DOMAIN inode_to_path \ {path_to_inode[path]} |->
                            inode_to_path[i]]
    /\ next' = IF path_to_inode[path] = next - 1 THEN next - 1 ELSE next

ForgetUnknown(path) == path \notin Interned /\ UNCHANGED vars

Forget(path) ==
    /\ path \in Interned
    /\ path_to_inode' = [p \in Interned \ {path} |-> path_to_inode[p]]
    /\ inode_to_path' = [i \in DOMAIN inode_to_path \ {path_to_inode[path]} |->
                            inode_to_path[i]]
    /\ UNCHANGED next

\* Mutant: the entry moves, what lies below it stays.
MovingAlone(old) == {p \in Interned : p = old}

Moving(old) == {p \in Interned : AtOrBelow(p, old)}

\* Mutant: the destination is evicted, what lay below it stays.
StaleAlone(old, new) == {p \in Interned \ Moving(old) : p = new}

Stale(old, new) == {p \in Interned \ Moving(old) : AtOrBelow(p, new)}

Moved(old, new) == {Rebase(p, old, new) : p \in Moving(old)}

(* The early return: the kernel may rename a path never interned.          *)
RenameUnknown(old, new) == Moving(old) = {} /\ UNCHANGED vars

(* What lay at or below `new` is dropped, in both halves; what lies at or  *)
(* below `old` keeps its inode under its new path.                         *)
Rename(old, new) ==
    /\ Moving(old) # {}
    /\ Moved(old, new) \subseteq Paths
    /\ path_to_inode' =
           [p \in (Interned \ (Moving(old) \cup Stale(old, new))) \cup Moved(old, new) |->
               path_to_inode[IF p \in Moved(old, new) THEN Rebase(p, new, old) ELSE p]]
    /\ LET staleInodes == {path_to_inode[p] : p \in Stale(old, new)}
           movingInodes == {path_to_inode[p] : p \in Moving(old)}
       IN inode_to_path' =
              [i \in (DOMAIN inode_to_path \ staleInodes) \cup movingInodes |->
                  IF i \in movingInodes
                  THEN Rebase(CHOOSE p \in Moving(old) : path_to_inode[p] = i, old, new)
                  ELSE inode_to_path[i]]
    /\ UNCHANGED next

(* The kernel neither removes nor renames a mount's root.                  *)
Next ==
    \/ \E path \in Paths \ {Root} : Intern(path) \/ InternKnown(path)
    \/ \E path \in Paths \ {Root} : Forget(path) \/ ForgetUnknown(path)
    \/ \E old, new \in Paths \ {Root} : Rename(old, new) \/ RenameUnknown(old, new)

Spec == Init /\ [][Next]_vars

------------------------------------------------------------------------------
\* Types of the two halves; every live inode was handed out.
TypeOK ==
    /\ next \in Nat
    /\ DOMAIN path_to_inode \subseteq Paths
    /\ \A p \in DOMAIN path_to_inode : path_to_inode[p] \in Nat
    /\ DOMAIN inode_to_path \subseteq ROOT_INODE..(next - 1)
    /\ \A i \in DOMAIN inode_to_path : inode_to_path[i] \in Paths

(* The two HashMaps of `PathMap` stay inverse to each other whatever       *)
(* sequence of intern, forget and rename reaches them: a path_for after an *)
(* inode_for (or the reverse) never names another entry.                   *)
HalvesInverse ==
    /\ \A p \in DOMAIN path_to_inode :
          /\ path_to_inode[p] \in DOMAIN inode_to_path
          /\ inode_to_path[path_to_inode[p]] = p
    /\ \A i \in DOMAIN inode_to_path :
          /\ inode_to_path[i] \in DOMAIN path_to_inode
          /\ path_to_inode[inode_to_path[i]] = i

(* Inode numbers are never recycled (path_map.rs: "Inode numbers MUST NOT  *)
(* be recycled"): the counter never goes back, and a number that enters    *)
(* the map comes from the counter.                                         *)
NoRecycling ==
    [][/\ next <= next'
       /\ \A i \in DOMAIN inode_to_path' \ DOMAIN inode_to_path :
             next <= i /\ i < next']_vars

(* A rename moves whole trees: when the path of an inode changes, every    *)
(* inode that lay below it still lies at the same place below its new path.*)
TreesMoveWhole ==
    [][\A i \in DOMAIN inode_to_path \cap DOMAIN inode_to_path' :
          inode_to_path'[i] # inode_to_path[i] =>
             \A j \in DOMAIN inode_to_path :
                AtOrBelow(inode_to_path[j], inode_to_path[i]) =>
                   /\ j \in DOMAIN inode_to_path'
                   /\ inode_to_path'[j] =
                         Rebase(inode_to_path[j], inode_to_path[i], inode_to_path'[i])]_vars

(* The abstract table: the two halves are one injective table of inodes,   *)
(* and an inode number is used up once it was handed out.                  *)
Table == INSTANCE InodeTable WITH
    table <- inode_to_path,
    used <- {i \in 1..MaxInode : i < next}

(* `PathMap` implements that table: no caller can tell that path_for and   *)
(* inode_for are answered from two HashMaps.                               *)
ImplementsTable == Table!Spec
==============================================================================
