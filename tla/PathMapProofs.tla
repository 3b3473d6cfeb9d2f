---------------------------- MODULE PathMapProofs ----------------------------
(***************************************************************************)
(* Proofs about PathMap for any set of names, any depth of the tree and    *)
(* any number of inodes.  The inductive invariant is IInv: neither half is *)
(* described by the other alone, and a rename is only sound because a live *)
(* inode was handed out before.                                            *)
(***************************************************************************)
EXTENDS PathMap, SequenceTheorems, TLAPS

\* A path is a sequence of names.
LEMMA PathsAreSeqs == \A p \in Paths : p \in Seq(Names) /\ Len(p) \in Nat
<1> SUFFICES ASSUME NEW p \in Paths PROVE p \in Seq(Names) /\ Len(p) \in Nat
    OBVIOUS
<1>1. PICK n \in 0..MaxDepth : p \in [1..n -> Names]
    BY DEF Paths
<1>2. n \in Nat
    BY <1>1, MaxDepthAssumption
<1> QED
    BY <1>1, <1>2

\* What Rebase computes, component by component.
LEMMA RebaseProperties ==
    ASSUME NEW p \in Seq(Names), NEW old \in Seq(Names), NEW new \in Seq(Names),
           AtOrBelow(p, old)
    PROVE  /\ Rebase(p, old, new) \in Seq(Names)
           /\ Len(Rebase(p, old, new)) = Len(new) + Len(p) - Len(old)
           /\ \A i \in 1..Len(new) : Rebase(p, old, new)[i] = new[i]
           /\ \A i \in 1..(Len(p) - Len(old)) :
                 Rebase(p, old, new)[Len(new) + i] = p[Len(old) + i]
<1> DEFINE t == SubSeq(p, Len(old) + 1, Len(p))
<1>1. /\ Len(p) \in Nat /\ Len(old) \in Nat /\ Len(new) \in Nat
      /\ Len(old) <= Len(p)
      /\ \A i \in 1..Len(p) : p[i] \in Names
    BY LenProperties, ElementOfSeq DEF AtOrBelow
<1>2. /\ t \in Seq(Names)
      /\ Len(t) = Len(p) - Len(old)
      /\ \A i \in 1..(Len(p) - Len(old)) : t[i] = p[Len(old) + i]
  <2>1. \A i \in (Len(old) + 1)..Len(p) : p[i] \in Names
      BY <1>1
  <2>2. /\ t \in Seq(Names)
        /\ Len(t) = IF Len(old) + 1 <= Len(p) THEN Len(p) - (Len(old) + 1) + 1 ELSE 0
        /\ \A i \in 1..(Len(p) - (Len(old) + 1) + 1) : t[i] = p[Len(old) + 1 + i - 1]
      BY <1>1, <2>1, SubSeqProperties
  <2> QED
      BY <1>1, <2>2
<1>3. /\ new \o t \in Seq(Names)
      /\ Len(new \o t) = Len(new) + Len(t)
      /\ \A i \in 1..(Len(new) + Len(t)) :
            (new \o t)[i] = IF i <= Len(new) THEN new[i] ELSE t[i - Len(new)]
    BY <1>2, ConcatProperties
<1> HIDE DEF t
<1>4. Rebase(p, old, new) = new \o t
    BY DEF Rebase, t
<1> QED
    BY <1>1, <1>2, <1>3, <1>4

\* A rebased path lies at or below the new root.
LEMMA RebaseBelow ==
    ASSUME NEW p \in Seq(Names), NEW old \in Seq(Names), NEW new \in Seq(Names),
           AtOrBelow(p, old)
    PROVE  AtOrBelow(Rebase(p, old, new), new)
<1>1. Len(p) \in Nat /\ Len(old) \in Nat /\ Len(new) \in Nat /\ Len(old) <= Len(p)
    BY LenProperties DEF AtOrBelow
<1>2. /\ Len(Rebase(p, old, new)) = Len(new) + Len(p) - Len(old)
      /\ \A i \in 1..Len(new) : Rebase(p, old, new)[i] = new[i]
    BY RebaseProperties
<1> QED
    BY <1>1, <1>2 DEF AtOrBelow

\* Rebasing back restores the path: rename loses nothing of a path.
LEMMA RebaseBack ==
    ASSUME NEW p \in Seq(Names), NEW old \in Seq(Names), NEW new \in Seq(Names),
           AtOrBelow(p, old)
    PROVE  Rebase(Rebase(p, old, new), new, old) = p
<1> DEFINE q == Rebase(p, old, new)
           r == Rebase(q, new, old)
<1>1. /\ Len(p) \in Nat /\ Len(old) \in Nat /\ Len(new) \in Nat /\ Len(old) <= Len(p)
      /\ \A i \in 1..Len(old) : p[i] = old[i]
    BY LenProperties DEF AtOrBelow
<1>2. /\ q \in Seq(Names)
      /\ Len(q) = Len(new) + Len(p) - Len(old)
      /\ \A i \in 1..(Len(p) - Len(old)) : q[Len(new) + i] = p[Len(old) + i]
    BY RebaseProperties
<1>3. AtOrBelow(q, new)
    BY RebaseBelow
<1> HIDE DEF q
<1>4. /\ r \in Seq(Names)
      /\ Len(r) = Len(old) + Len(q) - Len(new)
      /\ \A i \in 1..Len(old) : r[i] = old[i]
      /\ \A i \in 1..(Len(q) - Len(new)) : r[Len(old) + i] = q[Len(new) + i]
    BY <1>2, <1>3, RebaseProperties
<1> HIDE DEF r
<1>5. Len(r) = Len(p)
    BY <1>1, <1>2, <1>4
<1>6. ASSUME NEW i \in 1..Len(r) PROVE r[i] = p[i]
  <2>1. CASE i <= Len(old)
      BY <2>1, <1>1, <1>4
  <2>2. CASE i > Len(old)
    <3>1. /\ i - Len(old) \in 1..(Len(p) - Len(old))
          /\ Len(q) - Len(new) = Len(p) - Len(old)
          /\ i = Len(old) + (i - Len(old))
        BY <2>2, <1>1, <1>2, <1>5
    <3>2. r[Len(old) + (i - Len(old))] = q[Len(new) + (i - Len(old))]
        BY <3>1, <1>4
    <3>3. q[Len(new) + (i - Len(old))] = p[Len(old) + (i - Len(old))]
        BY <3>1, <1>2
    <3> QED
        BY <3>1, <3>2, <3>3
  <2> QED
      BY <2>1, <2>2, <1>1, <1>5
<1>7. r = p
    BY <1>4, <1>5, <1>6, SeqEqual
<1> QED
    BY <1>7 DEF r, q

\* "At or below" is transitive.
LEMMA BelowTransitive ==
    ASSUME NEW p \in Seq(Names), NEW q \in Seq(Names), NEW r \in Seq(Names),
           AtOrBelow(p, q), AtOrBelow(q, r)
    PROVE  AtOrBelow(p, r)
<1>1. Len(p) \in Nat /\ Len(q) \in Nat /\ Len(r) \in Nat
    BY LenProperties
<1> QED
    BY <1>1 DEF AtOrBelow

\* Rebasing `p` directly, or along with an ancestor `q`, gives one path.
LEMMA RebaseAlong ==
    ASSUME NEW p \in Seq(Names), NEW q \in Seq(Names),
           NEW old \in Seq(Names), NEW new \in Seq(Names),
           AtOrBelow(p, q), AtOrBelow(q, old)
    PROVE  Rebase(p, q, Rebase(q, old, new)) = Rebase(p, old, new)
<1> DEFINE qn == Rebase(q, old, new)
           l == Rebase(p, q, qn)
           r == Rebase(p, old, new)
<1>1. /\ Len(p) \in Nat /\ Len(q) \in Nat /\ Len(old) \in Nat /\ Len(new) \in Nat
      /\ Len(old) <= Len(q) /\ Len(q) <= Len(p)
      /\ \A i \in 1..Len(q) : p[i] = q[i]
    BY LenProperties DEF AtOrBelow
<1>2. /\ qn \in Seq(Names)
      /\ Len(qn) = Len(new) + Len(q) - Len(old)
      /\ \A i \in 1..Len(new) : qn[i] = new[i]
      /\ \A i \in 1..(Len(q) - Len(old)) : qn[Len(new) + i] = q[Len(old) + i]
    BY RebaseProperties
<1> HIDE DEF qn
<1>3. /\ l \in Seq(Names)
      /\ Len(l) = Len(qn) + Len(p) - Len(q)
      /\ \A i \in 1..Len(qn) : l[i] = qn[i]
      /\ \A i \in 1..(Len(p) - Len(q)) : l[Len(qn) + i] = p[Len(q) + i]
    BY <1>2, RebaseProperties, ZenonT(30)
<1>4. /\ r \in Seq(Names)
      /\ Len(r) = Len(new) + Len(p) - Len(old)
      /\ \A i \in 1..Len(new) : r[i] = new[i]
      /\ \A i \in 1..(Len(p) - Len(old)) : r[Len(new) + i] = p[Len(old) + i]
  <2>1. AtOrBelow(p, old)
      BY BelowTransitive
  <2> QED
      BY <2>1, RebaseProperties, ZenonT(30)
<1> HIDE DEF l, r
<1>5. Len(l) = Len(r)
    BY <1>1, <1>2, <1>3, <1>4
<1>6. ASSUME NEW i \in 1..Len(l) PROVE l[i] = r[i]
  <2>1. CASE i <= Len(new)
      BY <2>1, <1>1, <1>2, <1>3, <1>4
  <2>2. CASE i > Len(new) /\ i <= Len(qn)
    <3> DEFINE k == i - Len(new)
    <3>1. /\ k \in 1..(Len(q) - Len(old)) /\ k \in 1..(Len(p) - Len(old))
          /\ i = Len(new) + k /\ Len(old) + k \in 1..Len(q) /\ i \in 1..Len(qn)
        BY <2>2, <1>1, <1>2
    <3> HIDE DEF k
    <3>2. l[i] = qn[Len(new) + k] /\ qn[Len(new) + k] = q[Len(old) + k]
        BY <3>1, <1>2, <1>3
    <3>3. r[i] = p[Len(old) + k] /\ p[Len(old) + k] = q[Len(old) + k]
        BY <3>1, <1>1, <1>4
    <3> QED
        BY <3>2, <3>3
  <2>3. CASE i > Len(qn)
    <3> DEFINE k == i - Len(qn)
               m == i - Len(new)
    <3>1. /\ k \in 1..(Len(p) - Len(q)) /\ i = Len(qn) + k
          /\ m \in 1..(Len(p) - Len(old)) /\ i = Len(new) + m
          /\ Len(q) + k = Len(old) + m
        BY <2>3, <1>1, <1>2, <1>3
    <3> HIDE DEF k, m
    <3>2. l[i] = p[Len(q) + k]
        BY <3>1, <1>3
    <3>3. r[i] = p[Len(old) + m]
        BY <3>1, <1>4
    <3> QED
        BY <3>1, <3>2, <3>3
  <2> QED
      BY <2>1, <2>2, <2>3, <1>1, <1>2, <1>3
<1>7. l = r
    BY <1>3, <1>4, <1>5, <1>6, SeqEqual
<1> QED
    BY <1>7 DEF l, r, qn

------------------------------------------------------------------------------
RootPinned == Root \in Interned /\ path_to_inode[Root] = ROOT_INODE

IInv == TypeOK /\ HalvesInverse /\ RootPinned

\* Renaming keeps the invariant, and does to the inode half exactly what
\* the abstract table's Move does to the table.
LEMMA RenameStep ==
    ASSUME IInv, NEW old \in Paths, NEW new \in Paths, old # Root, new # Root,
           Rename(old, new)
    PROVE  /\ IInv'
           /\ DOMAIN inode_to_path' =
                 {i \in DOMAIN inode_to_path :
                     \/ AtOrBelow(inode_to_path[i], old)
                     \/ ~AtOrBelow(inode_to_path[i], new)}
           /\ \A i \in DOMAIN inode_to_path' :
                 inode_to_path'[i] = IF AtOrBelow(inode_to_path[i], old)
                                     THEN Rebase(inode_to_path[i], old, new)
                                     ELSE inode_to_path[i]
<1> DEFINE M == Moving(old)
           S == Stale(old, new)
           V == Moved(old, new)
           SI == {path_to_inode[p] : p \in S}
           MI == {path_to_inode[p] : p \in M}
           D == Interned
           I == DOMAIN inode_to_path
<1>1. /\ old \in Seq(Names) /\ new \in Seq(Names)
      /\ \A p \in D : p \in Seq(Names)
    BY PathsAreSeqs DEF IInv, TypeOK, Interned
<1>2. /\ \A p \in D : path_to_inode[p] \in I /\ inode_to_path[path_to_inode[p]] = p
      /\ \A i \in I : inode_to_path[i] \in D /\ path_to_inode[inode_to_path[i]] = i
    BY DEF IInv, HalvesInverse, Interned
<1>3. /\ M = {p \in D : AtOrBelow(p, old)}
      /\ S = {p \in D : ~AtOrBelow(p, old) /\ AtOrBelow(p, new)}
      /\ V = {Rebase(p, old, new) : p \in M}
    BY DEF Moving, Stale, Moved
<1>4. ASSUME NEW p \in M
      PROVE  Rebase(Rebase(p, old, new), new, old) = p
    BY <1>1, <1>3, RebaseBack
<1>5. ASSUME NEW p \in M
      PROVE  AtOrBelow(Rebase(p, old, new), new)
    BY <1>1, <1>3, RebaseBelow
<1>6. /\ DOMAIN path_to_inode' = (D \ (M \cup S)) \cup V
      /\ \A p \in DOMAIN path_to_inode' :
            path_to_inode'[p] = path_to_inode[IF p \in V THEN Rebase(p, new, old) ELSE p]
      /\ DOMAIN inode_to_path' = (I \ SI) \cup MI
      /\ \A i \in DOMAIN inode_to_path' :
            inode_to_path'[i] =
               IF i \in MI
               THEN Rebase(CHOOSE p \in M : path_to_inode[p] = i, old, new)
               ELSE inode_to_path[i]
      /\ V \subseteq Paths
      /\ next' = next
    BY DEF Rename
<1> HIDE DEF M, S, V
<1>7. ASSUME NEW p \in M, NEW i, i = path_to_inode[p]
      PROVE  (CHOOSE q \in M : path_to_inode[q] = i) = p
    BY <1>2, <1>3, <1>7
<1>8. ASSUME NEW i \in MI
      PROVE  /\ i \in I
             /\ inode_to_path[i] \in M
             /\ AtOrBelow(inode_to_path[i], old)
             /\ inode_to_path'[i] = Rebase(inode_to_path[i], old, new)
  <2>1. PICK p \in M : i = path_to_inode[p]
      OBVIOUS
  <2>2. i \in I /\ inode_to_path[i] = p /\ AtOrBelow(p, old)
      BY <2>1, <1>2, <1>3
  <2>3. inode_to_path'[i] = Rebase(CHOOSE q \in M : path_to_inode[q] = i, old, new)
      BY <1>6
  <2>4. (CHOOSE q \in M : path_to_inode[q] = i) = p
      BY <2>1, <1>7
  <2> QED
      BY <2>2, <2>3, <2>4
<1>9. ASSUME NEW i \in I
      PROVE  /\ i \in MI <=> AtOrBelow(inode_to_path[i], old)
             /\ i \in SI <=> ~AtOrBelow(inode_to_path[i], old) /\ AtOrBelow(inode_to_path[i], new)
    BY <1>2, <1>3
<1>10. SI \subseteq I /\ MI \subseteq I
    BY <1>2, <1>3
<1>11. DOMAIN inode_to_path' =
          {i \in I : AtOrBelow(inode_to_path[i], old) \/ ~AtOrBelow(inode_to_path[i], new)}
    BY <1>6, <1>9, <1>10
<1>12. \A i \in DOMAIN inode_to_path' :
          inode_to_path'[i] = IF AtOrBelow(inode_to_path[i], old)
                              THEN Rebase(inode_to_path[i], old, new)
                              ELSE inode_to_path[i]
    BY <1>6, <1>8, <1>9, <1>11
<1>13. TypeOK'
  <2>1. DOMAIN path_to_inode' \subseteq Paths
      BY <1>6 DEF IInv, TypeOK, Interned
  <2>2. \A p \in DOMAIN path_to_inode' : path_to_inode'[p] \in Nat
    <3> SUFFICES ASSUME NEW p \in DOMAIN path_to_inode' PROVE path_to_inode'[p] \in Nat
        OBVIOUS
    <3>1. CASE p \in V
      <4>1. PICK q \in M : p = Rebase(q, old, new)
          BY <3>1, <1>3
      <4> QED
          BY <3>1, <4>1, <1>3, <1>4, <1>6 DEF IInv, TypeOK, Interned
    <3>2. CASE p \notin V
        BY <3>2, <1>6 DEF IInv, TypeOK, Interned
    <3> QED
        BY <3>1, <3>2
  <2>3. DOMAIN inode_to_path' \subseteq ROOT_INODE..(next' - 1)
      BY <1>6, <1>11 DEF IInv, TypeOK
  <2>4. \A i \in DOMAIN inode_to_path' : inode_to_path'[i] \in Paths
    <3> SUFFICES ASSUME NEW i \in DOMAIN inode_to_path' PROVE inode_to_path'[i] \in Paths
        OBVIOUS
    <3>1. CASE i \in MI
        BY <3>1, <1>3, <1>6, <1>8
    <3>2. CASE i \notin MI
        BY <3>2, <1>6 DEF IInv, TypeOK
    <3> QED
        BY <3>1, <3>2
  <2> QED
      BY <2>1, <2>2, <2>3, <2>4, <1>6 DEF IInv, TypeOK
<1>14. ASSUME NEW p \in DOMAIN path_to_inode'
       PROVE  /\ path_to_inode'[p] \in DOMAIN inode_to_path'
              /\ inode_to_path'[path_to_inode'[p]] = p
  <2>1. CASE p \in V
    <3>1. PICK q \in M : p = Rebase(q, old, new)
        BY <2>1, <1>3
    <3>2. path_to_inode'[p] = path_to_inode[q]
        BY <2>1, <3>1, <1>4, <1>6
    <3>3. path_to_inode[q] \in MI /\ inode_to_path[path_to_inode[q]] = q
        BY <1>2, <1>3
    <3> QED
        BY <3>1, <3>2, <3>3, <1>6, <1>8
  <2>2. CASE p \notin V
    <3>1. p \in D \ (M \cup S) /\ path_to_inode'[p] = path_to_inode[p]
        BY <2>2, <1>6
    <3>2. /\ path_to_inode[p] \in I /\ inode_to_path[path_to_inode[p]] = p
          /\ path_to_inode[p] \notin MI /\ path_to_inode[p] \notin SI
        BY <3>1, <1>2, <1>3, <1>9
    <3> QED
        BY <3>1, <3>2, <1>6
  <2> QED
      BY <2>1, <2>2
<1>15. ASSUME NEW i \in DOMAIN inode_to_path'
       PROVE  /\ inode_to_path'[i] \in DOMAIN path_to_inode'
              /\ path_to_inode'[inode_to_path'[i]] = i
  <2>0. i \in I /\ inode_to_path[i] \in D /\ path_to_inode[inode_to_path[i]] = i
      BY <1>2, <1>11
  <2>1. CASE i \in MI
    <3>1. /\ inode_to_path[i] \in M
          /\ inode_to_path'[i] = Rebase(inode_to_path[i], old, new)
          /\ inode_to_path'[i] \in V
        BY <2>1, <1>3, <1>8
    <3>2. Rebase(inode_to_path'[i], new, old) = inode_to_path[i]
        BY <3>1, <1>4
    <3> QED
        BY <2>0, <3>1, <3>2, <1>6
  <2>2. CASE i \notin MI
    <3>1. i \in I \ SI /\ inode_to_path'[i] = inode_to_path[i]
        BY <2>2, <1>6
    <3>2. ~AtOrBelow(inode_to_path[i], old) /\ ~AtOrBelow(inode_to_path[i], new)
        BY <2>2, <3>1, <1>9
    <3>3. inode_to_path[i] \notin V
        BY <3>2, <1>3, <1>5
    <3>4. inode_to_path[i] \in D \ (M \cup S)
        BY <2>0, <3>2, <1>3
    <3> QED
        BY <2>0, <3>1, <3>3, <3>4, <1>6
  <2> QED
      BY <2>1, <2>2
<1>16. RootPinned'
  <2>1. ~AtOrBelow(Root, old) /\ ~AtOrBelow(Root, new)
    <3>1. \A r \in Paths : r # Root => Len(r) > 0
        BY PathsAreSeqs, EmptySeq, LenProperties DEF Root
    <3>2. Len(Root) = 0
        BY DEF Root
    <3> QED
        BY <3>1, <3>2, PathsAreSeqs DEF AtOrBelow
  <2>2. Root \in D \ (M \cup S) /\ Root \notin V
      BY <2>1, <1>3, <1>5 DEF IInv, RootPinned
  <2> QED
      BY <2>2, <1>6 DEF IInv, RootPinned, Interned
<1>17. HalvesInverse'
    BY <1>14, <1>15 DEF HalvesInverse
<1> QED
    BY <1>11, <1>12, <1>13, <1>16, <1>17 DEF IInv

\* intern of a new path: the halves stay inverse, one fresh inode joins the table.
LEMMA InternStep ==
    ASSUME IInv, NEW path \in Paths, Intern(path)
    PROVE  IInv'
<1>1. next \notin DOMAIN inode_to_path /\ next \in Nat /\ ROOT_INODE <= next
  <2>1. ROOT_INODE \in Nat /\ next \in Nat
      BY DEF IInv, TypeOK, ROOT_INODE
  <2>2. path_to_inode[Root] \in ROOT_INODE..(next - 1)
      BY DEF IInv, TypeOK, HalvesInverse, RootPinned, Interned
  <2> QED
      BY <2>1, <2>2 DEF IInv, TypeOK
<1>2. /\ DOMAIN path_to_inode' = DOMAIN path_to_inode \cup {path}
      /\ \A p \in DOMAIN path_to_inode' :
            path_to_inode'[p] = IF p = path THEN next ELSE path_to_inode[p]
      /\ DOMAIN inode_to_path' = DOMAIN inode_to_path \cup {next}
      /\ \A i \in DOMAIN inode_to_path' :
            inode_to_path'[i] = IF i = next THEN path ELSE inode_to_path[i]
      /\ path \notin DOMAIN path_to_inode
      /\ next' = next + 1
    BY DEF Intern, Interned
<1>3. TypeOK'
    BY <1>1, <1>2 DEF IInv, TypeOK, ROOT_INODE
<1>4. HalvesInverse'
    BY <1>1, <1>2 DEF IInv, HalvesInverse
<1> QED
    BY <1>2, <1>3, <1>4 DEF IInv, RootPinned, Interned

\* forget of an interned path: the halves stay inverse, its inode leaves the table.
LEMMA ForgetStep ==
    ASSUME IInv, NEW path \in Paths, path # Root, Forget(path)
    PROVE  IInv'
<1>1. /\ DOMAIN path_to_inode' = DOMAIN path_to_inode \ {path}
      /\ \A p \in DOMAIN path_to_inode' : path_to_inode'[p] = path_to_inode[p]
      /\ DOMAIN inode_to_path' = DOMAIN inode_to_path \ {path_to_inode[path]}
      /\ \A i \in DOMAIN inode_to_path' : inode_to_path'[i] = inode_to_path[i]
      /\ path \in DOMAIN path_to_inode
      /\ next' = next
    BY DEF Forget, Interned
<1>2. TypeOK'
    BY <1>1 DEF IInv, TypeOK
<1>3. HalvesInverse'
    BY <1>1 DEF IInv, HalvesInverse
<1> QED
    BY <1>1, <1>2, <1>3 DEF IInv, RootPinned, Interned

(* IInv is inductive: it holds of PathMap::new and every operation keeps   *)
(* it.                                                                     *)
THEOREM InductiveInvariant == Spec => []IInv
<1>1. Init => IInv
  <2> SUFFICES ASSUME Init PROVE IInv
      OBVIOUS
  <2>1. Root \in Paths
    <3>1. Root \in [1..0 -> Names]
        BY DEF Root
    <3>2. 0 \in 0..MaxDepth
        BY MaxDepthAssumption
    <3> QED
        BY <3>1, <3>2 DEF Paths
  <2>2. TypeOK
      BY <2>1 DEF Init, TypeOK, ROOT_INODE
  <2>3. HalvesInverse /\ RootPinned
      BY DEF Init, HalvesInverse, RootPinned, Interned
  <2> QED
      BY <2>2, <2>3 DEF IInv
<1>2. IInv /\ [Next]_vars => IInv'
  <2> SUFFICES ASSUME IInv, [Next]_vars PROVE IInv'
      OBVIOUS
  <2>1. ASSUME NEW path \in Paths \ {Root}, Intern(path) PROVE IInv'
      BY <2>1, InternStep
  <2>2. ASSUME NEW path \in Paths \ {Root}, Forget(path) PROVE IInv'
      BY <2>2, ForgetStep
  <2>3. ASSUME NEW old \in Paths \ {Root}, NEW new \in Paths \ {Root}, Rename(old, new)
        PROVE  IInv'
      BY <2>3, RenameStep
  <2>4. CASE UNCHANGED vars
      BY <2>4 DEF vars, IInv, TypeOK, HalvesInverse, RootPinned, Interned
  <2> QED
      BY <2>1, <2>2, <2>3, <2>4
      DEF Next, InternKnown, ForgetUnknown, RenameUnknown
<1> QED
    BY <1>1, <1>2, PTL DEF Spec

(* Type correctness: every live inode was handed out by the counter.       *)
THEOREM TypeCorrect == Spec => []TypeOK
<1>1. IInv => TypeOK
    BY DEF IInv
<1> QED
    BY <1>1, InductiveInvariant, PTL

(* The two HashMaps of `PathMap` are inverse to each other in every state. *)
THEOREM HalvesAreInverse == Spec => []HalvesInverse
<1>1. IInv => HalvesInverse
    BY DEF IInv
<1> QED
    BY <1>1, InductiveInvariant, PTL

(* No inode number ever enters the map a second time.                      *)
THEOREM NoInodeRecycled == Spec => NoRecycling
<1>1. IInv /\ [Next]_vars =>
         [/\ next <= next'
          /\ \A i \in DOMAIN inode_to_path' \ DOMAIN inode_to_path :
                next <= i /\ i < next']_vars
  <2> SUFFICES ASSUME IInv, Next
               PROVE  /\ next <= next'
                      /\ \A i \in DOMAIN inode_to_path' \ DOMAIN inode_to_path :
                            next <= i /\ i < next'
      BY DEF vars
  <2>0. next \in Nat
      BY DEF IInv, TypeOK
  <2>1. ASSUME NEW path \in Paths \ {Root}, Intern(path)
        PROVE  /\ next' = next + 1
               /\ DOMAIN inode_to_path' = DOMAIN inode_to_path \cup {next}
      BY <2>1 DEF Intern
  <2>2. ASSUME NEW path \in Paths \ {Root}, Forget(path)
        PROVE  next' = next /\ DOMAIN inode_to_path' \subseteq DOMAIN inode_to_path
      BY <2>2 DEF Forget
  <2>3. ASSUME NEW old \in Paths \ {Root}, NEW new \in Paths \ {Root}, Rename(old, new)
        PROVE  next' = next /\ DOMAIN inode_to_path' \subseteq DOMAIN inode_to_path
    <3>1. next' = next
        BY <2>3 DEF Rename
    <3>2. DOMAIN inode_to_path' \subseteq DOMAIN inode_to_path
        BY <2>3, RenameStep
    <3> QED
        BY <3>1, <3>2
  <2>4. CASE UNCHANGED vars
      BY <2>0, <2>4 DEF vars
  <2> QED
      BY <2>0, <2>1, <2>2, <2>3, <2>4
      DEF Next, InternKnown, ForgetUnknown, RenameUnknown
<1> QED
    BY <1>1, InductiveInvariant, PTL DEF Spec, NoRecycling

(* A rename moves whole trees: what lay below an inode whose path changed  *)
(* lies at the same place below its new path.                              *)
THEOREM WholeTreesMove == Spec => TreesMoveWhole
<1> DEFINE Whole ==
        \A i \in DOMAIN inode_to_path \cap DOMAIN inode_to_path' :
           inode_to_path'[i] # inode_to_path[i] =>
              \A j \in DOMAIN inode_to_path :
                 AtOrBelow(inode_to_path[j], inode_to_path[i]) =>
                    /\ j \in DOMAIN inode_to_path'
                    /\ inode_to_path'[j] =
                          Rebase(inode_to_path[j], inode_to_path[i], inode_to_path'[i])
<1>1. IInv /\ [Next]_vars => [Whole]_vars
  <2> SUFFICES ASSUME IInv, Next PROVE Whole
      BY DEF vars
  <2>0. \A i \in DOMAIN inode_to_path : inode_to_path[i] \in Seq(Names)
      BY PathsAreSeqs DEF IInv, TypeOK
  <2>1. ASSUME NEW path \in Paths \ {Root}, Intern(path) PROVE Whole
    <3>1. next \notin DOMAIN inode_to_path
        BY DEF IInv, TypeOK, ROOT_INODE
    <3>2. \A i \in DOMAIN inode_to_path : inode_to_path'[i] = inode_to_path[i]
        BY <2>1, <3>1 DEF Intern
    <3> QED
        BY <3>2
  <2>2. ASSUME NEW path \in Paths \ {Root}, Forget(path) PROVE Whole
      BY <2>2 DEF Forget
  <2>3. ASSUME NEW old \in Paths \ {Root}, NEW new \in Paths \ {Root}, Rename(old, new)
        PROVE  Whole
    <3>1. /\ old \in Seq(Names) /\ new \in Seq(Names)
        BY PathsAreSeqs
    <3>2. /\ DOMAIN inode_to_path' =
                {i \in DOMAIN inode_to_path :
                    \/ AtOrBelow(inode_to_path[i], old)
                    \/ ~AtOrBelow(inode_to_path[i], new)}
          /\ \A i \in DOMAIN inode_to_path' :
                inode_to_path'[i] = IF AtOrBelow(inode_to_path[i], old)
                                    THEN Rebase(inode_to_path[i], old, new)
                                    ELSE inode_to_path[i]
        BY <2>3, RenameStep
    <3> SUFFICES ASSUME NEW i \in DOMAIN inode_to_path \cap DOMAIN inode_to_path',
                        inode_to_path'[i] # inode_to_path[i],
                        NEW j \in DOMAIN inode_to_path,
                        AtOrBelow(inode_to_path[j], inode_to_path[i])
                 PROVE  /\ j \in DOMAIN inode_to_path'
                        /\ inode_to_path'[j] =
                              Rebase(inode_to_path[j], inode_to_path[i], inode_to_path'[i])
        OBVIOUS
    <3>3. AtOrBelow(inode_to_path[i], old) /\ inode_to_path'[i] = Rebase(inode_to_path[i], old, new)
        BY <3>2
    <3>4. AtOrBelow(inode_to_path[j], old)
        BY <2>0, <3>1, <3>3, BelowTransitive
    <3>5. j \in DOMAIN inode_to_path' /\ inode_to_path'[j] = Rebase(inode_to_path[j], old, new)
        BY <3>2, <3>4
    <3> QED
        BY <2>0, <3>1, <3>3, <3>5, RebaseAlong
  <2>4. CASE UNCHANGED vars
      BY <2>4 DEF vars
  <2> QED
      BY <2>1, <2>2, <2>3, <2>4
      DEF Next, InternKnown, ForgetUnknown, RenameUnknown
<1> QED
    BY <1>1, InductiveInvariant, PTL DEF Spec, TreesMoveWhole

(* PathMap implements the one-table specification: initial states map to   *)
(* initial states, and every operation is an Assign, a Drop, a Move or a   *)
(* stutter.                                                                *)
THEOREM PathMapImplementsTable == Spec => ImplementsTable
<1> DEFINE used == {i \in 1..MaxInode : i < next}
<1>1. Init => Table!Init
    BY MaxInodeAssumption DEF Init, Table!Init, Table!RootInode, ROOT_INODE, Root, Table!Root
<1>2. IInv /\ [Next]_vars => [Table!Next]_<<inode_to_path, used>>
  <2> SUFFICES ASSUME IInv, Next
               PROVE  Table!Next \/ UNCHANGED <<inode_to_path, used>>
      BY DEF vars
  <2>0. next \in Nat
      BY DEF IInv, TypeOK
  <2>1. ASSUME NEW path \in Paths \ {Root}, Intern(path) PROVE Table!Next
    <3>1. next \in 1..MaxInode
      <4>1. path_to_inode[Root] \in ROOT_INODE..(next - 1)
          BY DEF IInv, TypeOK, HalvesInverse, RootPinned, Interned
      <4> QED
          BY <2>0, <2>1, <4>1, MaxInodeAssumption DEF Intern, ROOT_INODE
    <3>2. used' = used \cup {next}
        BY <2>0, <2>1, <3>1, MaxInodeAssumption DEF Intern
    <3>3. \A j \in DOMAIN inode_to_path : inode_to_path[j] # path
        BY <2>1 DEF IInv, HalvesInverse, Intern, Interned
    <3>4. Table!Assign(next, path)
        BY <2>0, <2>1, <3>2, <3>3 DEF Intern, Table!Assign
    <3> QED
        BY <3>1, <3>4 DEF Table!Next, Table!Paths, Table!Root, Paths, Root
  <2>2. ASSUME NEW path \in Paths \ {Root}, Forget(path) PROVE Table!Next
    <3>1. path_to_inode[path] \in DOMAIN inode_to_path \ {Table!RootInode}
        BY <2>2
        DEF Forget, IInv, HalvesInverse, RootPinned, Interned, ROOT_INODE, Table!RootInode
    <3>2. Table!Drop(path_to_inode[path])
        BY <2>2 DEF Forget, Table!Drop
    <3> QED
        BY <3>1, <3>2 DEF Table!Next
  <2>3. ASSUME NEW old \in Paths \ {Root}, NEW new \in Paths \ {Root}, Rename(old, new)
        PROVE  Table!Next
    <3> DEFINE kept == {i \in DOMAIN inode_to_path :
                           \/ AtOrBelow(inode_to_path[i], old)
                           \/ ~AtOrBelow(inode_to_path[i], new)}
    <3>1. /\ DOMAIN inode_to_path' = kept
          /\ \A i \in DOMAIN inode_to_path' :
                inode_to_path'[i] = IF AtOrBelow(inode_to_path[i], old)
                                    THEN Rebase(inode_to_path[i], old, new)
                                    ELSE inode_to_path[i]
        BY <2>3, RenameStep
    <3>2. inode_to_path' = [i \in DOMAIN inode_to_path' |-> inode_to_path'[i]]
        BY <2>3 DEF Rename
    <3>3. inode_to_path' = [i \in kept |-> IF AtOrBelow(inode_to_path[i], old)
                                          THEN Rebase(inode_to_path[i], old, new)
                                          ELSE inode_to_path[i]]
        BY <3>1, <3>2
    <3>4. kept = {j \in DOMAIN inode_to_path :
                     ~(/\ ~AtOrBelow(inode_to_path[j], old)
                       /\ AtOrBelow(inode_to_path[j], new))}
        OBVIOUS
    <3>5. used' = used
        BY <2>3 DEF Rename
    <3>6. Table!Move(old, new)
        BY <3>3, <3>4, <3>5
        DEF Table!Move, Table!AtOrBelow, Table!Rebase, AtOrBelow, Rebase
    <3> QED
        BY <3>6 DEF Table!Next, Table!Paths, Table!Root, Paths, Root
  <2>4. CASE UNCHANGED vars
      BY <2>4 DEF vars
  <2> QED
      BY <2>1, <2>2, <2>3, <2>4
      DEF Next, InternKnown, ForgetUnknown, RenameUnknown
<1> QED
    BY <1>1, <1>2, InductiveInvariant, PTL DEF Spec, ImplementsTable, Table!Spec
==============================================================================
