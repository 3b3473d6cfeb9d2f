------------------------------ MODULE InodeTable ------------------------------
(***************************************************************************)
(* What path_map.rs promises its callers: one table from live inodes to    *)
(* distinct paths.  A number, once given out, is used up for ever; a       *)
(* rename takes the whole tree below the old path along and evicts what    *)
(* the destination held.                                                   *)
(***************************************************************************)
EXTENDS Paths

CONSTANT MaxInode

VARIABLES
    table,   \* function: live inode -> path
    used     \* every inode number ever handed out

RootInode == 1

Init ==
    /\ table = [i \in {RootInode} |-> Root]
    /\ used = {RootInode}

Assign(i, path) ==
    /\ i \notin used
    /\ \A j \in DOMAIN table : table[j] # path
    /\ table' = [j \in DOMAIN table \cup {i} |-> IF j = i THEN path ELSE table[j]]
    /\ used' = used \cup {i}

Drop(i) ==
    /\ table' = [j \in DOMAIN table \ {i} |-> table[j]]
    /\ UNCHANGED used

Move(old, new) ==
    LET moves(i) == AtOrBelow(table[i], old)
        evicted(i) == ~moves(i) /\ AtOrBelow(table[i], new)
    IN /\ table' = [i \in {j \in DOMAIN table : ~evicted(j)} |->
                       IF moves(i) THEN Rebase(table[i], old, new) ELSE table[i]]
       /\ UNCHANGED used

Next ==
    \/ \E i \in 1..MaxInode, path \in Paths \ {Root} : Assign(i, path)
    \/ \E i \in DOMAIN table \ {RootInode} : Drop(i)
    \/ \E old, new \in Paths \ {Root} : Move(old, new)

Spec == Init /\ [][Next]_<<table, used>>
==============================================================================
