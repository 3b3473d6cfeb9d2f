-------------------------- MODULE HandleNamesProofs --------------------------
(***************************************************************************)
(* Theorems about HandleNames, for any tree, any set of files, any number  *)
(* of handles and of renames in flight, and whatever may happen around a   *)
(* rename.  What holds between renames only does so because of what holds  *)
(* within one: the inductive invariant says, for each stage of a rename,   *)
(* which views have followed it and which have yet to, and that no other   *)
(* rename pending with it touches them.                                    *)
(***************************************************************************)
EXTENDS HandleNames, SequenceTheorems, TLAPS

Clean == Files \ estranged

(* What OpenHandle and release's copy of it are about is a file.           *)
OnAFile == \A h \in Handles : phase[h] \in {"opened", "open", "upload"} => file[h] \in Files

(* What was checked before the verb was sent, and by the engine.           *)
RenameFits ==
    \A r \in Renames :
        /\ ren[r].stage \in {"idle", "verb"} => ren[r].moved = {}
        /\ ren[r].stage # "idle" => /\ ren[r].old # Root /\ ren[r].new # Root
                                    /\ ~AtOrBelow(ren[r].new, ren[r].old)

(* Pending renames that get in each other's way moved no clean file.       *)
Disjoint ==
    \A r, u \in Renames : \A f \in Clean :
        Pending(r) /\ Pending(u) /\ r # u /\ f \in ren[r].moved => ~InTheWay(r, u)

(* A pending rename has taken its files to the new path, and left none at  *)
(* the old one.                                                            *)
Moved ==
    \A r \in Renames : \A f \in Clean :
        Pending(r) =>
            /\ ~AtOrBelow(where[f], ren[r].old)
            /\ AtOrBelow(where[f], ren[r].new) <=> f \in ren[r].moved

(* `was` is the path from which rename r brought the file to `now`.        *)
Brought(r, was, now) ==
    AtOrBelow(was, ren[r].old) /\ now = Rebase(was, ren[r].old, ren[r].new)

(* PathMap lags behind the engine between the verb and its own update.     *)
InodesFollow ==
    \A f \in Clean :
        /\ \A r \in Renames : ren[r].stage = "paths" /\ f \in ren[r].moved =>
                               Brought(r, inodePath[f], where[f])
        /\ (\A r \in Renames : ren[r].stage = "paths" => f \notin ren[r].moved) =>
               inodePath[f] = where[f]

(* The handles lag behind it until they are updated, the last of all; one  *)
(* outside open_handles does not.                                          *)
HandlesFollow ==
    \A h \in Handles \ crossed : file[h] \in Clean =>
        /\ phase[h] \in {"opened", "upload"} => name[h] = where[file[h]]
        /\ phase[h] = "open" =>
              \/ name[h] = where[file[h]]
              \/ \E r \in Renames : /\ Pending(r) /\ file[h] \in ren[r].moved
                                     /\ Brought(r, name[h], where[file[h]])

IInv == TypeOK /\ OnAFile /\ RenameFits /\ Disjoint /\ Moved /\ InodesFollow /\ HandlesFollow

------------------------------------------------------------------------------
(* Facts about paths.                                                      *)
LEMMA PathsAreSeqs == \A p \in Paths : p \in Seq(Names) /\ Len(p) \in Nat
<1> SUFFICES ASSUME NEW p \in Paths PROVE p \in Seq(Names) /\ Len(p) \in Nat
  OBVIOUS
<1>1. PICK n \in 0..MaxDepth : p \in [1..n -> Names]
  BY DEF Paths
<1> QED BY <1>1, MaxDepthAssumption

LEMMA RootIsPath == Root \in Paths
<1>1. Root \in [1..0 -> Names] /\ 0 \in 0..MaxDepth
  BY MaxDepthAssumption DEF Root
<1> QED BY <1>1 DEF Paths

(* What a path at or below `old` becomes.                                  *)
LEMMA RebaseParts ==
    ASSUME NEW p \in Seq(Names), NEW old \in Seq(Names), NEW new \in Seq(Names),
           AtOrBelow(p, old)
    PROVE  /\ Len(Rebase(p, old, new)) = Len(new) + (Len(p) - Len(old))
           /\ \A i \in 1..Len(new) : Rebase(p, old, new)[i] = new[i]
           /\ \A i \in 1..(Len(p) - Len(old)) :
                 Rebase(p, old, new)[Len(new) + i] = p[Len(old) + i]
<1> DEFINE rest == SubSeq(p, Len(old) + 1, Len(p))
<1>1. /\ Len(p) \in Nat /\ Len(old) \in Nat /\ Len(new) \in Nat /\ Len(old) <= Len(p)
      /\ \A i \in (Len(old) + 1)..Len(p) : p[i] \in Names
  BY LenProperties, ElementOfSeq DEF AtOrBelow
<1>2. /\ rest \in Seq(Names)
      /\ Len(rest) = Len(p) - Len(old)
      /\ \A i \in 1..(Len(p) - Len(old)) : rest[i] = p[Len(old) + i]
  <2>1. /\ rest \in Seq(Names)
        /\ Len(rest) = IF Len(old) + 1 <= Len(p) THEN Len(p) - (Len(old) + 1) + 1 ELSE 0
        /\ \A i \in 1..(Len(p) - (Len(old) + 1) + 1) : rest[i] = p[Len(old) + 1 + i - 1]
    BY <1>1, SubSeqProperties
  <2> QED BY <1>1, <2>1
<1> HIDE DEF rest
<1>3. /\ Len(new \o rest) = Len(new) + Len(rest)
      /\ \A i \in 1..(Len(new) + Len(rest)) :
            (new \o rest)[i] = IF i <= Len(new) THEN new[i] ELSE rest[i - Len(new)]
  BY <1>2, ConcatProperties
<1>4. Rebase(p, old, new) = new \o rest
  BY DEF Rebase, rest
<1> QED BY <1>1, <1>2, <1>3, <1>4

LEMMA RebaseBelow ==
    ASSUME NEW p \in Seq(Names), NEW old \in Seq(Names), NEW new \in Seq(Names),
           AtOrBelow(p, old)
    PROVE  /\ AtOrBelow(Rebase(p, old, new), new)
           /\ new # Root => Rebase(p, old, new) # Root
<1>1. /\ Len(p) \in Nat /\ Len(old) \in Nat /\ Len(new) \in Nat /\ Len(old) <= Len(p)
      /\ new # Root => Len(new) > 0
  BY LenProperties DEF AtOrBelow, Root
<1>2. /\ Len(Rebase(p, old, new)) = Len(new) + (Len(p) - Len(old))
      /\ \A i \in 1..Len(new) : Rebase(p, old, new)[i] = new[i]
  BY RebaseParts
<1>3. Len(Root) = 0
  BY DEF Root
<1> QED BY <1>1, <1>2, <1>3 DEF AtOrBelow

(* Two paths below `old` stay two paths.                                   *)
LEMMA RebaseInjective ==
    ASSUME NEW p \in Seq(Names), NEW q \in Seq(Names), NEW old \in Seq(Names),
           NEW new \in Seq(Names), AtOrBelow(p, old), AtOrBelow(q, old),
           Rebase(p, old, new) = Rebase(q, old, new)
    PROVE  p = q
<1>1. /\ Len(p) \in Nat /\ Len(q) \in Nat /\ Len(old) \in Nat /\ Len(new) \in Nat
      /\ Len(old) <= Len(p) /\ Len(old) <= Len(q)
      /\ \A i \in 1..Len(old) : p[i] = q[i]
  BY LenProperties DEF AtOrBelow
<1> DEFINE r == Rebase(p, old, new)
<1>a. /\ Len(r) = Len(new) + (Len(p) - Len(old))
      /\ \A i \in 1..(Len(p) - Len(old)) : r[Len(new) + i] = p[Len(old) + i]
  BY RebaseParts, ZenonT(30)
<1>b. /\ Len(r) = Len(new) + (Len(q) - Len(old))
      /\ \A i \in 1..(Len(q) - Len(old)) : r[Len(new) + i] = q[Len(old) + i]
  <2>1. /\ Len(Rebase(q, old, new)) = Len(new) + (Len(q) - Len(old))
        /\ \A i \in 1..(Len(q) - Len(old)) : Rebase(q, old, new)[Len(new) + i] = q[Len(old) + i]
    BY RebaseParts
  <2> QED BY <2>1
<1> HIDE DEF r
<1>2. Len(p) = Len(q)
  BY <1>1, <1>a, <1>b
<1>3. ASSUME NEW i \in 1..Len(p) PROVE p[i] = q[i]
  <2>1. CASE i <= Len(old)
    BY <1>1, <2>1
  <2>2. CASE i > Len(old)
    <3>1. i - Len(old) \in 1..(Len(p) - Len(old)) /\ i = Len(old) + (i - Len(old))
      BY <1>1, <2>2
    <3>2. r[Len(new) + (i - Len(old))] = p[i] /\ r[Len(new) + (i - Len(old))] = q[i]
      BY <1>2, <1>a, <1>b, <3>1
    <3> QED BY <3>2
  <2> QED BY <1>1, <2>1, <2>2
<1> QED BY <1>2, <1>3, SeqEqual

(* A rename to a place where nothing is never makes two paths one.         *)
LEMMA FollowInjective ==
    ASSUME NEW p \in Paths, NEW q \in Paths, NEW old \in Paths, NEW new \in Paths,
           ~AtOrBelow(p, new), ~AtOrBelow(q, new), Follow(p, old, new) = Follow(q, old, new)
    PROVE  p = q
<1>1. p \in Seq(Names) /\ q \in Seq(Names) /\ old \in Seq(Names) /\ new \in Seq(Names)
  BY PathsAreSeqs
<1>2. CASE AtOrBelow(p, old) /\ AtOrBelow(q, old)
  BY <1>1, <1>2, RebaseInjective DEF Follow
<1>3. CASE AtOrBelow(p, old) /\ ~AtOrBelow(q, old)
  BY <1>1, <1>3, RebaseBelow DEF Follow
<1>4. CASE ~AtOrBelow(p, old) /\ AtOrBelow(q, old)
  BY <1>1, <1>4, RebaseBelow DEF Follow
<1>5. CASE ~AtOrBelow(p, old) /\ ~AtOrBelow(q, old)
  BY <1>5 DEF Follow
<1> QED BY <1>2, <1>3, <1>4, <1>5

(* Two paths with a path at or below both are one above the other.         *)
LEMMA MeetAbove ==
    ASSUME NEW p \in Seq(Names), NEW x \in Seq(Names), NEW y \in Seq(Names),
           AtOrBelow(p, x), AtOrBelow(p, y)
    PROVE  Meets(x, y)
<1>1. Len(p) \in Nat /\ Len(x) \in Nat /\ Len(y) \in Nat
  BY LenProperties
<1>2. CASE Len(x) <= Len(y)
  BY <1>1, <1>2 DEF AtOrBelow, Meets
<1>3. CASE Len(y) <= Len(x)
  BY <1>1, <1>3 DEF AtOrBelow, Meets
<1> QED BY <1>1, <1>2, <1>3

LEMMA BelowBelow ==
    ASSUME NEW p \in Seq(Names), NEW q \in Seq(Names), NEW x \in Seq(Names),
           AtOrBelow(p, q), AtOrBelow(q, x)
    PROVE  AtOrBelow(p, x)
<1>1. Len(p) \in Nat /\ Len(q) \in Nat /\ Len(x) \in Nat
  BY LenProperties
<1> QED BY <1>1 DEF AtOrBelow

LEMMA RebaseSeq ==
    ASSUME NEW p \in Seq(Names), NEW old \in Seq(Names), NEW new \in Seq(Names),
           AtOrBelow(p, old)
    PROVE  Rebase(p, old, new) \in Seq(Names)
<1>1. /\ Len(p) \in Nat /\ Len(old) \in Nat
      /\ \A i \in (Len(old) + 1)..Len(p) : p[i] \in Names
  BY LenProperties, ElementOfSeq
<1>2. SubSeq(p, Len(old) + 1, Len(p)) \in Seq(Names)
  BY <1>1, SubSeqProperties
<1> QED BY <1>2, ConcatProperties DEF Rebase

LEMMA FollowSeq ==
    ASSUME NEW p \in Seq(Names), NEW old \in Seq(Names), NEW new \in Seq(Names)
    PROVE  Follow(p, old, new) \in Seq(Names)
BY RebaseSeq DEF Follow

(* The file at a path, when there is one, is at that path.                 *)
LEMMA OccupantThere ==
    ASSUME NEW p, Occupant(p) # NoFile
    PROVE  Occupant(p) \in Files /\ where[Occupant(p)] = p
BY DEF Occupant

------------------------------------------------------------------------------
LEMMA InitIInv == Init => IInv
<1> SUFFICES ASSUME Init PROVE IInv
  OBVIOUS
<1> USE HandleNamesAssumption DEF Init, Idle
<1>1. Root \in Paths /\ Root \in Seq(Names)
  BY RootIsPath, PathsAreSeqs
<1>2. TypeOK
  <2>1. inodePath \in [Files -> Seq(Names)]
    BY PathsAreSeqs
  <2> QED BY <1>1, <2>1 DEF TypeOK, NoFsync
<1>3. OnAFile /\ HandlesFollow
  BY DEF OnAFile, HandlesFollow
<1>4. RenameFits /\ Disjoint /\ Moved /\ InodesFollow
  BY DEF RenameFits, Disjoint, Moved, InodesFollow, Pending
<1> QED BY <1>2, <1>3, <1>4 DEF IInv

(* The paths of a rename are sequences.                                    *)
LEMMA RenamePathsAreSeqs ==
    ASSUME TypeOK, NEW r \in Renames
    PROVE  /\ ren[r].old \in Paths /\ ren[r].new \in Paths
           /\ ren[r].old \in Seq(Names) /\ ren[r].new \in Seq(Names)
BY PathsAreSeqs DEF TypeOK

(* A clean file was moved by one pending rename at most, and no other      *)
(* pending rename has a path at or above a path it was brought from or to. *)
LEMMA OnlyOne ==
    ASSUME IInv, NEW r \in Renames, NEW u \in Renames, r # u, Pending(r), Pending(u),
           NEW f \in Clean, f \in ren[r].moved
    PROVE  /\ f \notin ren[u].moved
           /\ \A p \in Seq(Names) :
                 AtOrBelow(p, ren[r].old) \/ AtOrBelow(p, ren[r].new) =>
                     ~AtOrBelow(p, ren[u].old) /\ ~AtOrBelow(p, ren[u].new)
<1>1. ~InTheWay(r, u)
  BY DEF IInv, Disjoint
<1>2. /\ ren[r].old \in Seq(Names) /\ ren[r].new \in Seq(Names)
      /\ ren[u].old \in Seq(Names) /\ ren[u].new \in Seq(Names)
  BY RenamePathsAreSeqs DEF IInv
<1>3. ASSUME NEW p \in Seq(Names), AtOrBelow(p, ren[r].old) \/ AtOrBelow(p, ren[r].new)
      PROVE  ~AtOrBelow(p, ren[u].old) /\ ~AtOrBelow(p, ren[u].new)
  BY <1>1, <1>2, <1>3, MeetAbove DEF InTheWay
<1>4. where[f] \in Seq(Names) /\ AtOrBelow(where[f], ren[r].new)
  BY PathsAreSeqs DEF IInv, TypeOK, Moved, Clean
<1>5. f \notin ren[u].moved
  BY <1>3, <1>4 DEF IInv, Moved
<1> QED BY <1>3, <1>5

------------------------------------------------------------------------------
(* The steps of the handlers: names are read, and the views stay as they   *)
(* are.                                                                    *)
HandlerMoves(h) ==
    \/ \E f \in Files : OpenResolve(h, f)
    \/ Write(h) \/ FsyncClaim(h) \/ Release(h)
    \/ HandlerStep(h)

LEMMA HandlerFrame ==
    ASSUME NEW h \in Handles, HandlerMoves(h)
    PROVE  /\ UNCHANGED <<where, inodePath, ren, moves, estranged>>
           /\ crossed' = crossed \/ crossed' = crossed \cup {h}
BY DEF HandlerMoves, HandlerStep, OpenResolve, OpenRegister, OpenCacheFile, OpenInsert,
   Write, FsyncClaim, FsyncUpload, Release, ReleaseUpload, renVars

LEMMA HandlerTypes ==
    ASSUME IInv, NEW h \in Handles, HandlerMoves(h)
    PROVE  TypeOK' /\ OnAFile'
<1> DEFINE HandleTypes ==
             /\ phase \in [Handles -> {"none", "resolved", "registered", "opened", "open",
                                       "upload", "done"}]
             /\ name \in [Handles -> Seq(Names)]
             /\ file \in [Handles -> Files \cup {NoFile}]
             /\ dirty \in [Handles -> BOOLEAN]
             /\ fsync \in [Handles -> Seq(Names)]
             /\ strayed \subseteq Handles
<1> SUFFICES HandleTypes' /\ OnAFile'
  BY HandlerFrame DEF IInv, TypeOK
<1>a. HandleTypes /\ OnAFile /\ inodePath \in [Files -> Seq(Names)]
  BY DEF IInv, TypeOK
<1>b. Root \in Seq(Names)
  BY RootIsPath, PathsAreSeqs
<1> USE <1>a, <1>b DEF OnAFile
<1>1. ASSUME NEW f \in Files, OpenResolve(h, f) PROVE HandleTypes' /\ OnAFile'
  BY <1>1 DEF OpenResolve
<1>2. ASSUME Finish(h), UNCHANGED <<fsync, strayed>> PROVE HandleTypes' /\ OnAFile'
  BY <1>2 DEF Finish
<1>3. ASSUME OpenRegister(h) PROVE HandleTypes' /\ OnAFile'
  BY <1>2, <1>3 DEF OpenRegister
<1>4. ASSUME OpenCacheFile(h) PROVE HandleTypes' /\ OnAFile'
  <2>1. CASE Occupant(name[h]) = NoFile
    BY <1>2, <1>4, <2>1 DEF OpenCacheFile
  <2>2. CASE Occupant(name[h]) # NoFile
    <3>1. Occupant(name[h]) \in Files
      BY <2>2, OccupantThere
    <3> QED BY <1>4, <2>2, <3>1 DEF OpenCacheFile
  <2> QED BY <2>1, <2>2
<1>5. ASSUME OpenInsert(h) PROVE HandleTypes' /\ OnAFile'
  BY <1>5 DEF OpenInsert
<1>6. ASSUME Write(h) PROVE HandleTypes' /\ OnAFile'
  BY <1>6 DEF Write
<1>7. ASSUME FsyncClaim(h) PROVE HandleTypes' /\ OnAFile'
  BY <1>7 DEF FsyncClaim
<1>8. ASSUME FsyncUpload(h) PROVE HandleTypes' /\ OnAFile'
  <2>1. (dirty[h] \/ ~Uploads(fsync[h])) \in BOOLEAN
    BY Zenon
  <2>2. dirty' \in [Handles -> BOOLEAN]
    BY <1>8, <2>1 DEF FsyncUpload
  <2>3. fsync' \in [Handles -> Seq(Names)] /\ strayed' \subseteq Handles
    BY <1>8 DEF FsyncUpload, Stray, NoFsync
  <2>4. UNCHANGED <<phase, name, file>>
    BY <1>8 DEF FsyncUpload
  <2> QED BY <2>2, <2>3, <2>4
<1>9. ASSUME Release(h) PROVE HandleTypes' /\ OnAFile'
  BY <1>2, <1>9 DEF Release
<1>10. ASSUME ReleaseUpload(h) PROVE HandleTypes' /\ OnAFile'
  BY <1>10 DEF ReleaseUpload, Finish, Stray
<1> HIDE DEF HandleTypes
<1> QED BY <1>1, <1>3, <1>4, <1>5, <1>6, <1>7, <1>8, <1>9, <1>10 DEF HandlerMoves, HandlerStep

(* A handle on its way into or out of open_handles has its file's path     *)
(* when no pending rename has moved the file.                              *)
LEMMA HandlerNames ==
    ASSUME IInv, NEW h \in Handles, HandlerMoves(h)
    PROVE  HandlesFollow'
<1> USE HandlerFrame DEF IInv
<1>1. /\ phase \in [Handles -> {"none", "resolved", "registered", "opened", "open", "upload",
                                "done"}]
      /\ name \in [Handles -> Seq(Names)] /\ file \in [Handles -> Files \cup {NoFile}]
  BY DEF TypeOK
<1>2. Clean' = Clean
  BY DEF Clean
<1> DEFINE Fine(g) ==
             file[g] \in Clean =>
                /\ phase[g] \in {"opened", "upload"} => name[g] = where[file[g]]
                /\ phase[g] = "open" =>
                      \/ name[g] = where[file[g]]
                      \/ \E r \in Renames : /\ Pending(r) /\ file[g] \in ren[r].moved
                                             /\ Brought(r, name[g], where[file[g]])
<1>3. ASSUME NEW g \in Handles \ crossed', phase'[g] = phase[g], file'[g] = file[g],
             name'[g] = name[g]
      PROVE  Fine(g)'
  BY <1>2, <1>3 DEF HandlesFollow, Pending, Brought
<1>4. ASSUME NEW g \in Handles \ crossed', g # h PROVE Fine(g)'
  <2>1. phase'[g] = phase[g] /\ file'[g] = file[g] /\ name'[g] = name[g]
    BY <1>1, <1>4 DEF HandlerMoves, HandlerStep, OpenResolve, OpenRegister, OpenCacheFile,
       OpenInsert, Write, FsyncClaim, FsyncUpload, Release, ReleaseUpload, Finish
  <2> QED BY <1>3, <1>4, <2>1
<1>5. ASSUME h \notin crossed' PROVE Fine(h)'
  <2>1. CASE OpenCacheFile(h)
    <3>1. CASE Occupant(name[h]) # NoFile
      <4>1. where[Occupant(name[h])] = name[h]
        BY <3>1, OccupantThere
      <4>2. file'[h] = Occupant(name[h]) /\ name'[h] = name[h] /\ phase'[h] = "opened"
        BY <1>1, <2>1, <3>1 DEF OpenCacheFile
      <4> QED BY <4>1, <4>2
    <3>2. CASE Occupant(name[h]) = NoFile
      BY <1>1, <2>1, <3>2 DEF OpenCacheFile, Finish
    <3> QED BY <3>1, <3>2
  <2>2. CASE Release(h)
    <3>1. CASE ~dirty[h]
      BY <1>1, <2>2, <3>1 DEF Release, Finish
    <3>2. CASE dirty[h]
      <4>1. /\ phase[h] = "open" /\ phase'[h] = "upload" /\ UNCHANGED <<name, file>>
            /\ h \notin crossed
            /\ \A r \in Renames : ~(Pending(r) /\ file[h] \in ren[r].moved)
        BY <1>1, <1>5, <2>2, <3>2 DEF Release
      <4>2. file[h] \in Clean => name[h] = where[file[h]]
        BY <4>1 DEF HandlesFollow
      <4> QED BY <1>2, <4>1, <4>2
    <3> QED BY <3>1, <3>2
  <2>3. CASE OpenInsert(h)
    <3>1. phase[h] = "opened" /\ phase'[h] = "open" /\ UNCHANGED <<name, file>> /\ h \notin crossed
      BY <1>1, <1>5, <2>3 DEF OpenInsert
    <3> QED BY <1>2, <3>1 DEF HandlesFollow
  <2>4. CASE (\E f \in Files : OpenResolve(h, f)) \/ OpenRegister(h) \/ ReleaseUpload(h)
    <3>1. phase'[h] \in {"resolved", "registered", "done"}
      BY <1>1, <2>4 DEF OpenResolve, OpenRegister, ReleaseUpload, Finish
    <3> QED BY <3>1
  <2>5. CASE Write(h) \/ FsyncClaim(h) \/ FsyncUpload(h)
    BY <1>3, <1>5, <2>5 DEF Write, FsyncClaim, FsyncUpload
  <2> QED BY <2>1, <2>2, <2>3, <2>4, <2>5 DEF HandlerMoves, HandlerStep
<1>6. \A g \in Handles \ crossed' : Fine(g)'
  BY <1>4, <1>5
<1> QED BY <1>6 DEF HandlesFollow

LEMMA HandlerStepKeeps ==
    ASSUME IInv, NEW h \in Handles, HandlerMoves(h)
    PROVE  IInv'
<1>1. UNCHANGED <<where, inodePath, ren, estranged>>
  BY HandlerFrame
<1>2. RenameFits' /\ Disjoint' /\ Moved' /\ InodesFollow'
  BY <1>1 DEF IInv, RenameFits, Disjoint, Moved, InodesFollow, Pending, InTheWay, Clean, Brought
<1> QED BY <1>2, HandlerTypes, HandlerNames DEF IInv

------------------------------------------------------------------------------
(* A rename that has not reached the engine, or is refused by it, is no    *)
(* part of the views.                                                      *)
LEMMA NotPendingKeeps ==
    ASSUME IInv, NEW r \in Renames, ren[r].stage \in {"idle", "verb"},
           NEW rec \in [stage : {"idle", "verb"}, old : Paths, new : Paths,
                        inode : Files \cup {NoFile}, moved : {{}}],
           rec.stage # "idle" => /\ rec.old # Root /\ rec.new # Root
                                 /\ ~AtOrBelow(rec.new, rec.old),
           ren' = [ren EXCEPT ![r] = rec],
           UNCHANGED <<where, inodePath, handleVars, moves, crossed, estranged>>
    PROVE  IInv'
<1> USE DEF IInv
<1>a. UNCHANGED <<where, inodePath, phase, name, file, dirty, fsync, strayed, moves, crossed,
                  estranged>>
  BY DEF handleVars
<1>b. /\ ren'[r] = rec /\ \A u \in Renames \ {r} : ren'[u] = ren[u]
      /\ rec.stage \in {"idle", "verb"} /\ rec.moved = {}
  BY DEF TypeOK
<1>c. ~Pending(r) /\ ~Pending(r)' /\ Clean' = Clean
  BY <1>a, <1>b DEF Pending, Clean
<1>d. \A u \in Renames \ {r} : Pending(u)' = Pending(u)
  BY <1>b DEF Pending
<1>1. TypeOK'
  <2>1. ren' \in [Renames -> [stage : {"idle", "verb", "paths", "handles"}, old : Paths,
                             new : Paths, inode : Files \cup {NoFile}, moved : SUBSET Files]]
    BY DEF TypeOK
  <2> QED BY <1>a, <2>1 DEF TypeOK
<1>2. OnAFile'
  BY <1>a DEF OnAFile
<1>3. RenameFits'
  BY <1>b DEF RenameFits
<1>4. Disjoint'
  <2> SUFFICES ASSUME NEW s \in Renames, NEW u \in Renames, NEW f \in Clean,
                      Pending(s)', Pending(u)', s # u, f \in ren'[s].moved
               PROVE  ~InTheWay(s, u)'
    BY <1>c DEF Disjoint
  <2>1. s # r /\ u # r
    BY <1>c
  <2>2. /\ Pending(s) /\ Pending(u) /\ f \in ren[s].moved
        /\ ren'[s] = ren[s] /\ ren'[u] = ren[u]
    BY <1>b, <1>d, <2>1
  <2> QED BY <2>2 DEF Disjoint, InTheWay
<1>5. Moved'
  <2> SUFFICES ASSUME NEW s \in Renames, NEW f \in Clean, Pending(s)'
               PROVE  /\ ~AtOrBelow(where[f], ren'[s].old)
                      /\ AtOrBelow(where[f], ren'[s].new) <=> f \in ren'[s].moved
    BY <1>a, <1>c DEF Moved
  <2>1. s # r /\ Pending(s) /\ ren'[s] = ren[s]
    BY <1>b, <1>c, <1>d
  <2> QED BY <2>1 DEF Moved
<1>6. InodesFollow'
  <2> SUFFICES ASSUME NEW f \in Clean
               PROVE  /\ \A s \in Renames : ren'[s].stage = "paths" /\ f \in ren'[s].moved =>
                                             Brought(s, inodePath[f], where[f])'
                      /\ (\A s \in Renames : ren'[s].stage = "paths" => f \notin ren'[s].moved)
                            => inodePath[f] = where[f]
    BY <1>a, <1>c DEF InodesFollow
  <2>1. ASSUME NEW s \in Renames, ren'[s].stage = "paths", f \in ren'[s].moved
        PROVE  Brought(s, inodePath[f], where[f])'
    <3>1. s # r /\ ren'[s] = ren[s]
      BY <1>b, <2>1
    <3>2. Brought(s, inodePath[f], where[f])
      BY <2>1, <3>1 DEF InodesFollow
    <3> QED BY <1>a, <3>1, <3>2 DEF Brought
  <2>2. ASSUME \A s \in Renames : ren'[s].stage = "paths" => f \notin ren'[s].moved
        PROVE  inodePath[f] = where[f]
    <3>1. \A s \in Renames : ren[s].stage = "paths" => f \notin ren[s].moved
      BY <1>b, <1>c, <2>2 DEF Pending
    <3> QED BY <3>1 DEF InodesFollow
  <2> QED BY <2>1, <2>2
<1>7. HandlesFollow'
  <2> SUFFICES ASSUME NEW h \in Handles \ crossed, file[h] \in Clean, phase[h] = "open",
                      name[h] # where[file[h]]
               PROVE  \E s \in Renames : /\ Pending(s)' /\ file[h] \in ren'[s].moved
                                         /\ Brought(s, name[h], where[file[h]])'
    BY <1>a, <1>c DEF HandlesFollow
  <2>1. PICK s \in Renames : /\ Pending(s) /\ file[h] \in ren[s].moved
                             /\ Brought(s, name[h], where[file[h]])
    BY DEF HandlesFollow
  <2>2. s # r /\ ren'[s] = ren[s] /\ Pending(s)'
    BY <1>b, <1>c, <1>d, <2>1
  <2>3. Brought(s, name[h], where[file[h]])'
    BY <1>a, <2>1, <2>2 DEF Brought
  <2> QED BY <2>1, <2>2, <2>3
<1> QED BY <1>1, <1>2, <1>3, <1>4, <1>5, <1>6, <1>7

LEMMA RenameResolveKeeps ==
    ASSUME IInv, NEW r \in Renames, NEW old \in Paths \ {Root}, NEW new \in Paths \ {Root},
           RenameResolve(r, old, new)
    PROVE  IInv'
<1> DEFINE inode == IF \E f \in Files : inodePath[f] = old
                    THEN CHOOSE f \in Files : inodePath[f] = old ELSE NoFile
           rec == [stage |-> "verb", old |-> old, new |-> new, inode |-> inode, moved |-> {}]
<1>1. inode \in Files \cup {NoFile}
  OBVIOUS
<1>2. /\ ren[r].stage = "idle" /\ ~AtOrBelow(new, old)
      /\ ren' = [ren EXCEPT ![r] = rec]
      /\ UNCHANGED <<where, inodePath, handleVars, moves, crossed, estranged>>
  BY DEF RenameResolve
<1> HIDE DEF inode
<1>3. /\ rec \in [stage : {"idle", "verb"}, old : Paths, new : Paths,
                   inode : Files \cup {NoFile}, moved : {{}}]
      /\ rec.old = old /\ rec.new = new
  BY <1>1
<1> HIDE DEF rec
<1> QED BY <1>2, <1>3, NotPendingKeeps

LEMMA RenameRefusedKeeps ==
    ASSUME IInv, NEW r \in Renames, RenameRefused(r)
    PROVE  IInv'
<1>1. /\ Idle \in [stage : {"idle", "verb"}, old : Paths, new : Paths,
                    inode : Files \cup {NoFile}, moved : {{}}]
      /\ Idle.stage = "idle"
  BY RootIsPath DEF Idle
<1>2. /\ ren[r].stage = "verb" /\ ren' = [ren EXCEPT ![r] = Idle]
      /\ UNCHANGED <<where, inodePath, handleVars, moves, crossed, estranged>>
  BY DEF RenameRefused
<1> QED BY <1>1, <1>2, NotPendingKeeps

------------------------------------------------------------------------------
(* The engine's move: paths stay paths, and two paths two.                 *)
LEMMA MoveTypes ==
    ASSUME IInv, NEW r \in Renames, Move(r)
    PROVE  /\ where' \in [Files -> Paths \ {Root}]
           /\ \A f, g \in Files : where'[f] = where'[g] => f = g
<1> USE DEF IInv
<1>1. /\ ren[r].stage = "verb" /\ Accepts(r)
      /\ where' = [f \in Files |-> Follow(where[f], ren[r].old, ren[r].new)]
  BY DEF Move
<1>2. /\ ren[r].old \in Paths /\ ren[r].new \in Paths
      /\ ren[r].old \in Seq(Names) /\ ren[r].new \in Seq(Names) /\ ren[r].new # Root
  BY <1>1, RenamePathsAreSeqs DEF RenameFits
<1>3. ASSUME NEW f \in Files PROVE Follow(where[f], ren[r].old, ren[r].new) \in Paths \ {Root}
  <2>1. where[f] \in Paths \ {Root} /\ where[f] \in Seq(Names)
    BY PathsAreSeqs DEF TypeOK
  <2>2. CASE AtOrBelow(where[f], ren[r].old)
    <3>1. Rebase(where[f], ren[r].old, ren[r].new) # Root
      BY <1>2, <2>1, <2>2, RebaseBelow
    <3>2. Rebase(where[f], ren[r].old, ren[r].new) \in Paths
      BY <1>1, <2>2 DEF Accepts, Taken
    <3> QED BY <2>2, <3>1, <3>2 DEF Follow
  <2>3. CASE ~AtOrBelow(where[f], ren[r].old)
    BY <2>1, <2>3 DEF Follow
  <2> QED BY <2>2, <2>3
<1>4. ASSUME NEW f \in Files, NEW g \in Files, where'[f] = where'[g] PROVE f = g
  <2>1. /\ where[f] \in Paths /\ where[g] \in Paths
        /\ Follow(where[f], ren[r].old, ren[r].new) = Follow(where[g], ren[r].old, ren[r].new)
    BY <1>1, <1>4 DEF TypeOK
  <2>2. ~AtOrBelow(where[f], ren[r].new) /\ ~AtOrBelow(where[g], ren[r].new)
    BY <1>1 DEF Accepts
  <2>3. where[f] = where[g]
    BY <1>2, <2>1, <2>2, FollowInjective
  <2> QED BY <2>3 DEF TypeOK
<1> QED BY <1>1, <1>3, <1>4

(* A rename whose reply is lost: whatever it moved is no longer clean, and *)
(* the rest is as it was.                                                  *)
LEMMA RenameLostKeeps ==
    ASSUME IInv, NEW r \in Renames, RenameLost(r)
    PROVE  IInv'
<1> USE DEF IInv
<1>1. /\ Move(r) /\ ren' = [ren EXCEPT ![r] = Idle]
      /\ estranged' = estranged \cup Taken(r)
      /\ ren[r].stage = "verb" /\ moves' = moves + 1
      /\ UNCHANGED <<inodePath, phase, name, file, dirty, fsync, strayed, crossed>>
  BY DEF RenameLost, Move, handleVars
<1>b. /\ ren'[r] = Idle /\ \A u \in Renames \ {r} : ren'[u] = ren[u]
      /\ Idle.stage = "idle" /\ Idle.moved = {}
  BY <1>1 DEF TypeOK, Idle
<1>c. /\ ~Pending(r) /\ ~Pending(r)'
      /\ \A u \in Renames \ {r} : Pending(u)' = Pending(u)
  BY <1>1, <1>b DEF Pending
<1>d. Clean' \subseteq Clean /\ \A f \in Clean' : where'[f] = where[f]
  <2>1. where' = [f \in Files |-> Follow(where[f], ren[r].old, ren[r].new)]
    BY <1>1 DEF Move
  <2> QED BY <1>1, <2>1 DEF Clean, Taken, Follow
<1>2. TypeOK'
  <2>1. Idle \in [stage : {"idle", "verb", "paths", "handles"}, old : Paths,
                  new : Paths, inode : Files \cup {NoFile}, moved : SUBSET Files]
    BY RootIsPath DEF Idle
  <2>2. /\ ren' \in [Renames -> [stage : {"idle", "verb", "paths", "handles"}, old : Paths,
                             new : Paths, inode : Files \cup {NoFile}, moved : SUBSET Files]]
        /\ estranged' \subseteq Files /\ moves' \in Nat
    BY <1>1, <2>1 DEF TypeOK, Taken
  <2>3. /\ where' \in [Files -> Paths \ {Root}]
        /\ \A f, g \in Files : where'[f] = where'[g] => f = g
    BY <1>1, MoveTypes
  <2> QED BY <1>1, <2>2, <2>3 DEF TypeOK
<1>3. OnAFile' /\ RenameFits'
  BY <1>1, <1>b DEF OnAFile, RenameFits
<1>4. Disjoint'
  <2> SUFFICES ASSUME NEW s \in Renames, NEW u \in Renames, NEW f \in Clean',
                      Pending(s)', Pending(u)', s # u, f \in ren'[s].moved
               PROVE  ~InTheWay(s, u)'
    BY DEF Disjoint
  <2>1. s # r /\ u # r
    BY <1>c
  <2>2. /\ Pending(s) /\ Pending(u) /\ f \in ren[s].moved /\ f \in Clean
        /\ ren'[s] = ren[s] /\ ren'[u] = ren[u]
    BY <1>b, <1>c, <1>d, <2>1
  <2> QED BY <2>2 DEF Disjoint, InTheWay
<1>5. Moved'
  <2> SUFFICES ASSUME NEW s \in Renames, NEW f \in Clean', Pending(s)'
               PROVE  /\ ~AtOrBelow(where'[f], ren'[s].old)
                      /\ AtOrBelow(where'[f], ren'[s].new) <=> f \in ren'[s].moved
    BY DEF Moved
  <2>1. s # r /\ Pending(s) /\ ren'[s] = ren[s]
    BY <1>b, <1>c
  <2> QED BY <1>d, <2>1 DEF Moved
<1>6. InodesFollow'
  <2> SUFFICES ASSUME NEW f \in Clean'
               PROVE  /\ \A s \in Renames : ren'[s].stage = "paths" /\ f \in ren'[s].moved =>
                                             Brought(s, inodePath[f], where[f])'
                      /\ (\A s \in Renames : ren'[s].stage = "paths" => f \notin ren'[s].moved)
                            => inodePath'[f] = where'[f]
    BY DEF InodesFollow
  <2>1. ASSUME NEW s \in Renames, ren'[s].stage = "paths", f \in ren'[s].moved
        PROVE  Brought(s, inodePath[f], where[f])'
    <3>1. s # r /\ ren'[s] = ren[s]
      BY <1>b, <2>1
    <3>2. Brought(s, inodePath[f], where[f])
      BY <1>d, <2>1, <3>1 DEF InodesFollow
    <3> QED BY <1>1, <1>d, <3>1, <3>2 DEF Brought
  <2>2. ASSUME \A s \in Renames : ren'[s].stage = "paths" => f \notin ren'[s].moved
        PROVE  inodePath'[f] = where'[f]
    <3>1. \A s \in Renames : ren[s].stage = "paths" => f \notin ren[s].moved
      BY <1>b, <1>c, <2>2 DEF Pending
    <3> QED BY <1>1, <1>d, <3>1 DEF InodesFollow
  <2> QED BY <2>1, <2>2
<1>7. HandlesFollow'
  <2> SUFFICES ASSUME NEW h \in Handles \ crossed, file[h] \in Clean'
               PROVE  /\ phase[h] \in {"opened", "upload"} => name[h] = where[file[h]]
                      /\ phase[h] = "open" =>
                            \/ name[h] = where[file[h]]
                            \/ \E s \in Renames : /\ Pending(s)' /\ file[h] \in ren'[s].moved
                                                  /\ Brought(s, name[h], where[file[h]])'
    BY <1>1, <1>d DEF HandlesFollow
  <2>1. file[h] \in Clean
    BY <1>d
  <2>2. ASSUME NEW s \in Renames, Pending(s), file[h] \in ren[s].moved,
               Brought(s, name[h], where[file[h]])
        PROVE  /\ Pending(s)' /\ file[h] \in ren'[s].moved
               /\ Brought(s, name[h], where[file[h]])'
    <3>1. s # r /\ ren'[s] = ren[s] /\ Pending(s)'
      BY <1>b, <1>c, <2>2
    <3> QED BY <1>1, <1>d, <2>2, <3>1 DEF Brought
  <2> QED BY <2>1, <2>2 DEF HandlesFollow
<1> QED BY <1>2, <1>3, <1>4, <1>5, <1>6, <1>7

(* The engine has renamed: its files are at the new path, clean only if no *)
(* pending rename was in the way.                                          *)
LEMMA RenameVerbKeeps ==
    ASSUME IInv, NEW r \in Renames, RenameVerb(r)
    PROVE  IInv'
<1> USE DEF IInv
<1>1. /\ Move(r) /\ ren[r].stage = "verb" /\ Accepts(r) /\ moves' = moves + 1
      /\ where' = [f \in Files |-> Follow(where[f], ren[r].old, ren[r].new)]
      /\ ren' = [ren EXCEPT ![r].stage = "paths", ![r].moved = Taken(r)]
      /\ crossed' = crossed \cup {h \in Handles : /\ phase[h] \in {"opened", "upload"}
                                                  /\ file[h] \in Taken(r)}
      /\ estranged' = IF Entangled(r) = {} THEN estranged
                      ELSE estranged \cup Taken(r) \cup
                               UNION {ren[u].moved : u \in Entangled(r)}
      /\ UNCHANGED <<inodePath, phase, name, file, dirty, fsync, strayed>>
  BY DEF RenameVerb, Move, handleVars
<1> DEFINE old == ren[r].old
           new == ren[r].new
<1>2. /\ old \in Seq(Names) /\ new \in Seq(Names)
      /\ ~AtOrBelow(new, old) /\ old # Root /\ new # Root
  BY <1>1, RenamePathsAreSeqs DEF RenameFits
<1>b. /\ ren'[r].stage = "paths" /\ ren'[r].moved = Taken(r)
      /\ ren'[r].old = old /\ ren'[r].new = new
      /\ \A u \in Renames \ {r} : ren'[u] = ren[u]
  BY <1>1 DEF TypeOK
<1>c. /\ ~Pending(r) /\ Pending(r)'
      /\ \A u \in Renames \ {r} : Pending(u)' = Pending(u)
  BY <1>1, <1>b DEF Pending
<1>d. \A f \in Files : where[f] \in Seq(Names)
  BY PathsAreSeqs DEF TypeOK
<1>e. Clean' \subseteq Clean /\ Clean \subseteq Files
  BY <1>1 DEF Clean
<1>f. \A f \in Files \ Taken(r) : where'[f] = where[f] /\ ~AtOrBelow(where[f], old)
  BY <1>1 DEF Taken, Follow
<1>g. ASSUME NEW f \in Taken(r)
      PROVE  /\ f \in Files /\ AtOrBelow(where[f], old)
             /\ where'[f] = Rebase(where[f], old, new)
             /\ AtOrBelow(where'[f], new) /\ ~AtOrBelow(where'[f], old)
             /\ where'[f] \in Seq(Names)
  <2>1. f \in Files /\ AtOrBelow(where[f], old) /\ where'[f] = Rebase(where[f], old, new)
    BY <1>1 DEF Taken, Follow
  <2>2. AtOrBelow(where'[f], new) /\ where'[f] \in Seq(Names)
    BY <1>2, <1>d, <2>1, RebaseBelow, RebaseSeq
  <2>3. ~AtOrBelow(old, new)
    <3> SUFFICES ASSUME AtOrBelow(old, new) PROVE FALSE
      OBVIOUS
    <3>1. AtOrBelow(where[f], new)
      BY <1>2, <1>d, <2>1, BelowBelow
    <3> QED BY <1>1, <2>1, <3>1 DEF Accepts
  <2>4. ~AtOrBelow(where'[f], old)
    BY <1>2, <2>2, <2>3, MeetAbove DEF Meets
  <2> QED BY <2>1, <2>2, <2>4
(* A clean file is not part of an entanglement.                            *)
<1>h. ASSUME NEW f \in Clean', NEW u \in Renames \ {r}, Pending(u),
             f \in Taken(r) \/ f \in ren[u].moved
      PROVE  ~InTheWay(r, u)
  <2> SUFFICES ASSUME InTheWay(r, u) PROVE FALSE
    OBVIOUS
  <2>1. u \in Entangled(r)
    BY <1>h DEF Entangled
  <2>2. f \in estranged'
    <3>1. estranged' = estranged \cup Taken(r) \cup UNION {ren[w].moved : w \in Entangled(r)}
      BY <1>1, <2>1
    <3> QED BY <1>h, <2>1, <3>1
  <2> QED BY <2>2 DEF Clean
<1>i. ASSUME NEW f \in Clean', f \in Taken(r), NEW u \in Renames \ {r}, Pending(u)
      PROVE  /\ f \notin ren[u].moved
             /\ ~AtOrBelow(where'[f], ren[u].old) /\ ~AtOrBelow(where'[f], ren[u].new)
  <2>1. ~InTheWay(r, u)
    BY <1>h, <1>i
  <2>2. ren[u].old \in Seq(Names) /\ ren[u].new \in Seq(Names)
    BY RenamePathsAreSeqs
  <2>3. ~AtOrBelow(where'[f], ren[u].old) /\ ~AtOrBelow(where'[f], ren[u].new)
    BY <1>2, <1>g, <1>i, <2>1, <2>2, MeetAbove DEF InTheWay
  <2>4. ~AtOrBelow(where[f], ren[u].new)
    BY <1>2, <1>d, <1>g, <1>i, <2>1, <2>2, MeetAbove DEF InTheWay
  <2>5. f \in Clean
    BY <1>e
  <2> QED BY <2>3, <2>4, <2>5, <1>i DEF Moved
<1>3. TypeOK'
  <2>1. ren' \in [Renames -> [stage : {"idle", "verb", "paths", "handles"}, old : Paths,
                             new : Paths, inode : Files \cup {NoFile}, moved : SUBSET Files]]
    <3> DEFINE R == [stage : {"idle", "verb", "paths", "handles"}, old : Paths,
                     new : Paths, inode : Files \cup {NoFile}, moved : SUBSET Files]
    <3>1. Taken(r) \in SUBSET Files
      BY DEF Taken
    <3>2. ren \in [Renames -> R] /\ r \in Renames
      BY DEF TypeOK
    <3>3. ren[r] \in R
      BY <3>2
    <3>4. [ren[r] EXCEPT !.stage = "paths", !.moved = Taken(r)] \in R
      BY <3>1, <3>3
    <3>5. ren' = [ren EXCEPT ![r] = [ren[r] EXCEPT !.stage = "paths", !.moved = Taken(r)]]
      BY <1>1
    <3> QED BY <3>2, <3>4, <3>5
  <2>2. estranged' \subseteq Files
    <3>1. \A u \in Renames : ren[u].moved \subseteq Files
      BY DEF TypeOK
    <3>2. UNION {ren[u].moved : u \in Entangled(r)} \subseteq Files
      BY <3>1 DEF Entangled
    <3>3. Taken(r) \subseteq Files /\ estranged \subseteq Files
      BY DEF Taken, TypeOK
    <3> QED BY <1>1, <3>2, <3>3
  <2>3. crossed' \subseteq Handles /\ moves' \in Nat
    BY <1>1 DEF TypeOK
  <2>4. /\ where' \in [Files -> Paths \ {Root}]
        /\ \A f, g \in Files : where'[f] = where'[g] => f = g
    BY <1>1, MoveTypes
  <2> QED BY <1>1, <2>1, <2>2, <2>3, <2>4 DEF TypeOK
<1>4. OnAFile'
  BY <1>1 DEF OnAFile
<1>5. RenameFits'
  BY <1>2, <1>b DEF RenameFits
<1> HIDE DEF old, new
<1>6. Disjoint'
  <2> SUFFICES ASSUME NEW s \in Renames, NEW u \in Renames, NEW f \in Clean',
                      Pending(s)', Pending(u)', s # u, f \in ren'[s].moved
               PROVE  ~InTheWay(s, u)'
    BY DEF Disjoint
  <2>a. \A w \in Renames : ren'[w].old = ren[w].old /\ ren'[w].new = ren[w].new
    BY <1>b DEF old, new
  <2>b. \A v, w \in Renames : InTheWay(v, w)' = InTheWay(v, w)
    BY <2>a DEF InTheWay
  <2>1. CASE s = r
    <3>1. ~InTheWay(r, u)
      BY <1>b, <1>c, <1>h, <2>1
    <3> QED BY <2>1, <2>b, <3>1
  <2>2. CASE u = r
    <3>1. s # r /\ Pending(s) /\ f \in ren[s].moved
      BY <1>b, <1>c, <2>2
    <3>2. ~InTheWay(r, s)
      BY <1>h, <3>1
    <3>3. ~InTheWay(s, r)
      BY <3>2 DEF InTheWay, Meets
    <3> QED BY <2>2, <2>b, <3>3
  <2>3. CASE s # r /\ u # r
    <3>1. Pending(s) /\ Pending(u) /\ f \in ren[s].moved /\ f \in Clean
      BY <1>b, <1>c, <1>e, <2>3
    <3> QED BY <2>b, <3>1 DEF Disjoint
  <2> QED BY <2>1, <2>2, <2>3
<1>7. Moved'
  <2> SUFFICES ASSUME NEW s \in Renames, NEW f \in Clean', Pending(s)'
               PROVE  /\ ~AtOrBelow(where'[f], ren'[s].old)
                      /\ AtOrBelow(where'[f], ren'[s].new) <=> f \in ren'[s].moved
    BY DEF Moved
  <2>1. CASE s = r
    <3>1. CASE f \in Taken(r)
      BY <1>b, <1>g, <2>1, <3>1
    <3>2. CASE f \notin Taken(r)
      <4>1. f \in Files
        BY <1>e
      <4>2. ~AtOrBelow(where[f], new)
        BY <1>1, <4>1 DEF Accepts, new
      <4> QED BY <1>b, <1>f, <2>1, <3>2, <4>1, <4>2
    <3> QED BY <3>1, <3>2
  <2>2. CASE s # r
    <3>1. Pending(s) /\ ren'[s] = ren[s] /\ f \in Clean /\ f \in Files
      BY <1>b, <1>c, <1>e, <2>2
    <3>2. CASE f \in Taken(r)
      BY <1>i, <2>2, <3>1, <3>2
    <3>3. CASE f \notin Taken(r)
      BY <1>f, <3>1, <3>3 DEF Moved
    <3> QED BY <3>2, <3>3
  <2> QED BY <2>1, <2>2
<1>8. InodesFollow'
  <2> SUFFICES ASSUME NEW f \in Clean'
               PROVE  /\ \A s \in Renames : ren'[s].stage = "paths" /\ f \in ren'[s].moved =>
                                             Brought(s, inodePath[f], where[f])'
                      /\ (\A s \in Renames : ren'[s].stage = "paths" => f \notin ren'[s].moved)
                            => inodePath'[f] = where'[f]
    BY DEF InodesFollow
  <2>1. f \in Clean /\ f \in Files
    BY <1>e
  <2>2. CASE f \in Taken(r)
    <3>1. \A u \in Renames : ren[u].stage = "paths" => f \notin ren[u].moved
      BY <1>1, <1>i, <2>2 DEF Pending
    <3>2. inodePath[f] = where[f]
      BY <2>1, <3>1 DEF InodesFollow
    <3>3. Brought(r, inodePath[f], where[f])'
      BY <1>1, <1>b, <1>g, <2>2, <3>2 DEF Brought
    <3>4. \A s \in Renames \ {r} : ren'[s].stage = "paths" => f \notin ren'[s].moved
      BY <1>b, <3>1
    <3>5. f \in ren'[r].moved /\ ren'[r].stage = "paths"
      BY <1>b, <2>2
    <3> QED BY <3>3, <3>4, <3>5
  <2>3. CASE f \notin Taken(r)
    <3>1. where'[f] = where[f] /\ inodePath'[f] = inodePath[f]
      BY <1>1, <1>f, <2>1, <2>3
    <3>2. ASSUME NEW s \in Renames, ren'[s].stage = "paths", f \in ren'[s].moved
          PROVE  Brought(s, inodePath[f], where[f])'
      <4>1. s # r /\ ren'[s] = ren[s]
        BY <1>b, <2>3, <3>2
      <4>2. Brought(s, inodePath[f], where[f])
        BY <2>1, <3>2, <4>1 DEF InodesFollow
      <4> QED BY <3>1, <4>1, <4>2 DEF Brought
    <3>3. ASSUME \A s \in Renames : ren'[s].stage = "paths" => f \notin ren'[s].moved
          PROVE  inodePath'[f] = where'[f]
      <4>1. \A s \in Renames : ren[s].stage = "paths" => f \notin ren[s].moved
        BY <1>1, <1>b, <3>3
      <4> QED BY <2>1, <3>1, <4>1 DEF InodesFollow
    <3> QED BY <3>2, <3>3
  <2> QED BY <2>2, <2>3
<1>9. HandlesFollow'
  <2> SUFFICES ASSUME NEW h \in Handles \ crossed', file[h] \in Clean'
               PROVE  /\ phase[h] \in {"opened", "upload"} => name[h] = where'[file[h]]
                      /\ phase[h] = "open" =>
                            \/ name[h] = where'[file[h]]
                            \/ \E s \in Renames : /\ Pending(s)' /\ file[h] \in ren'[s].moved
                                                  /\ Brought(s, name[h], where[file[h]])'
    BY <1>1 DEF HandlesFollow
  <2> DEFINE f == file[h]
  <2>1. f \in Clean /\ f \in Files /\ h \in Handles \ crossed
    BY <1>1, <1>e
  <2>2. CASE f \in Taken(r)
    <3>1. phase[h] \notin {"opened", "upload"}
      BY <1>1, <2>2
    <3>2. \A u \in Renames : Pending(u) => f \notin ren[u].moved
      BY <1>c, <1>i, <2>2
    <3>3. phase[h] = "open" => name[h] = where[f]
      BY <2>1, <3>2 DEF HandlesFollow
    <3>4. phase[h] = "open" => Brought(r, name[h], where[file[h]])'
      BY <1>1, <1>b, <1>g, <2>2, <3>3 DEF Brought
    <3> QED BY <1>b, <1>c, <2>2, <3>1, <3>4
  <2>3. CASE f \notin Taken(r)
    <3>1. where'[f] = where[f]
      BY <1>f, <2>1, <2>3
    <3>2. ASSUME NEW s \in Renames, Pending(s), f \in ren[s].moved,
                 Brought(s, name[h], where[f])
          PROVE  /\ Pending(s)' /\ f \in ren'[s].moved
                 /\ Brought(s, name[h], where[file[h]])'
      <4>1. s # r /\ ren'[s] = ren[s] /\ Pending(s)'
        BY <1>b, <1>c, <3>2
      <4> QED BY <1>1, <3>1, <3>2, <4>1 DEF Brought
    <3> QED BY <2>1, <3>1, <3>2 DEF HandlesFollow
  <2> QED BY <2>2, <2>3
<1> QED BY <1>3, <1>4, <1>5, <1>6, <1>7, <1>8, <1>9

(* PathMap follows: the inodes of the files that were brought to the new   *)
(* path, and no other of a clean file, for none is at or below either.     *)
LEMMA RenamePathsKeeps ==
    ASSUME IInv, NEW r \in Renames, RenamePaths(r)
    PROVE  IInv'
<1> USE DEF IInv
<1> DEFINE old == ren[r].old
           new == ren[r].new
           moving == {f \in Files : AtOrBelow(inodePath[f], old)}
           stale == {f \in Files \ moving : AtOrBelow(inodePath[f], new)}
<1>1. /\ ren[r].stage = "paths"
      /\ ren' = [ren EXCEPT ![r].stage = "handles"]
      /\ UNCHANGED <<where, phase, name, file, dirty, fsync, strayed, moves, crossed, estranged>>
  BY DEF RenamePaths, handleVars
<1>2. PICK dropped \in SUBSET stale :
          inodePath' = [f \in Files |-> IF f \in dropped THEN Root
                                        ELSE Follow(inodePath[f], old, new)]
  BY DEF RenamePaths, FollowInode
<1>b. /\ ren'[r].stage = "handles" /\ ren'[r].old = old /\ ren'[r].new = new
      /\ ren'[r].moved = ren[r].moved
      /\ \A u \in Renames \ {r} : ren'[u] = ren[u]
  BY <1>1 DEF TypeOK
<1>c. /\ Pending(r) /\ \A u \in Renames : Pending(u)' = Pending(u)
      /\ \A u \in Renames : /\ ren'[u].old = ren[u].old /\ ren'[u].new = ren[u].new
                            /\ ren'[u].moved = ren[u].moved
  BY <1>1, <1>b DEF Pending
<1>d. Clean' = Clean /\ Clean \subseteq Files
  BY <1>1 DEF Clean
<1>e. old \in Seq(Names) /\ new \in Seq(Names) /\ inodePath \in [Files -> Seq(Names)]
  BY RenamePathsAreSeqs DEF TypeOK
<1>f. \A u \in Renames : \A p, q : Brought(u, p, q)' <=> AtOrBelow(p', ren[u].old)
                                       /\ q' = Rebase(p', ren[u].old, ren[u].new)
  BY <1>c DEF Brought
<1>3. TypeOK'
  <2>1. inodePath' \in [Files -> Seq(Names)]
    <3>1. \A f \in Files : Follow(inodePath[f], old, new) \in Seq(Names)
      BY <1>e, FollowSeq
    <3>2. Root \in Seq(Names)
      BY RootIsPath, PathsAreSeqs
    <3> QED BY <1>2, <3>1, <3>2
  <2>2. ren' \in [Renames -> [stage : {"idle", "verb", "paths", "handles"}, old : Paths,
                             new : Paths, inode : Files \cup {NoFile}, moved : SUBSET Files]]
    <3> DEFINE R == [stage : {"idle", "verb", "paths", "handles"}, old : Paths,
                     new : Paths, inode : Files \cup {NoFile}, moved : SUBSET Files]
    <3>1. ren \in [Renames -> R] /\ r \in Renames
      BY DEF TypeOK
    <3>2. [ren[r] EXCEPT !.stage = "handles"] \in R
      <4>1. ren[r] \in R
        BY <3>1
      <4> QED BY <4>1
    <3>3. ren' = [ren EXCEPT ![r] = [ren[r] EXCEPT !.stage = "handles"]]
      BY <1>1
    <3> QED BY <3>1, <3>2, <3>3
  <2> QED BY <1>1, <2>1, <2>2 DEF TypeOK
<1>4. OnAFile' /\ RenameFits'
  BY <1>1, <1>b DEF OnAFile, RenameFits
<1>5. Disjoint'
  BY <1>c, <1>d DEF Disjoint, InTheWay
<1>6. Moved'
  BY <1>1, <1>c, <1>d DEF Moved
<1>7. InodesFollow'
  <2> SUFFICES ASSUME NEW f \in Clean
               PROVE  /\ \A s \in Renames : ren'[s].stage = "paths" /\ f \in ren'[s].moved =>
                                             Brought(s, inodePath[f], where[f])'
                      /\ (\A s \in Renames : ren'[s].stage = "paths" => f \notin ren'[s].moved)
                            => inodePath'[f] = where'[f]
    BY <1>d DEF InodesFollow
  <2>1. f \in Files /\ inodePath[f] \in Seq(Names) /\ where[f] \in Seq(Names)
    BY <1>d, <1>e, PathsAreSeqs DEF TypeOK
  <2>2. CASE f \in ren[r].moved
    <3>1. AtOrBelow(inodePath[f], old) /\ where[f] = Rebase(inodePath[f], old, new)
      BY <1>1, <2>2 DEF InodesFollow, Brought
    <3>2. inodePath'[f] = where'[f]
      BY <1>1, <1>2, <2>1, <3>1 DEF Follow
    <3>3. \A s \in Renames : ren'[s].stage = "paths" => f \notin ren'[s].moved
      <4> SUFFICES ASSUME NEW s \in Renames, ren'[s].stage = "paths", f \in ren'[s].moved
                   PROVE  FALSE
        OBVIOUS
      <4>1. s # r /\ Pending(s) /\ f \in ren[s].moved
        BY <1>b, <1>c DEF Pending
      <4> QED BY <1>c, <2>2, <4>1, OnlyOne
    <3> QED BY <3>2, <3>3
  <2>3. CASE f \notin ren[r].moved
    <3>1. ~AtOrBelow(inodePath[f], old) /\ ~AtOrBelow(inodePath[f], new)
      <4>1. CASE \A s \in Renames : ren[s].stage = "paths" => f \notin ren[s].moved
        BY <1>c, <2>3, <4>1 DEF InodesFollow, Moved
      <4>2. ASSUME NEW s \in Renames, ren[s].stage = "paths", f \in ren[s].moved
            PROVE  ~AtOrBelow(inodePath[f], old) /\ ~AtOrBelow(inodePath[f], new)
        <5>1. s # r /\ Pending(s) /\ AtOrBelow(inodePath[f], ren[s].old)
          BY <2>3, <4>2 DEF Pending, InodesFollow, Brought
        <5> QED BY <1>c, <2>1, <4>2, <5>1, OnlyOne
      <4> QED BY <4>1, <4>2
    <3>2. inodePath'[f] = inodePath[f] /\ where'[f] = where[f]
      BY <1>1, <1>2, <2>1, <3>1 DEF Follow
    <3>3. ASSUME NEW s \in Renames, ren'[s].stage = "paths", f \in ren'[s].moved
          PROVE  Brought(s, inodePath[f], where[f])'
      <4>1. s # r /\ ren'[s] = ren[s]
        BY <1>b, <3>3
      <4>2. Brought(s, inodePath[f], where[f])
        BY <3>3, <4>1 DEF InodesFollow
      <4> QED BY <3>2, <4>1, <4>2 DEF Brought
    <3>4. ASSUME \A s \in Renames : ren'[s].stage = "paths" => f \notin ren'[s].moved
          PROVE  inodePath'[f] = where'[f]
      <4>1. \A s \in Renames : ren[s].stage = "paths" => f \notin ren[s].moved
        BY <1>b, <2>3, <3>4
      <4> QED BY <3>2, <4>1 DEF InodesFollow
    <3> QED BY <3>3, <3>4
  <2> QED BY <2>2, <2>3
<1>8. HandlesFollow'
  BY <1>1, <1>c, <1>d DEF HandlesFollow, Brought
<1> QED BY <1>3, <1>4, <1>5, <1>6, <1>7, <1>8

(* The open handles follow, and the rename is through.                     *)
LEMMA RenameHandlesKeeps ==
    ASSUME IInv, NEW r \in Renames, RenameHandles(r)
    PROVE  IInv'
<1> USE DEF IInv
<1> DEFINE old == ren[r].old
           new == ren[r].new
<1>1. /\ ren[r].stage = "handles"
      /\ ren' = [ren EXCEPT ![r] = Idle]
      /\ name' = [h \in Handles |-> IF phase[h] = "open"
                                    THEN Follow(name[h], old, new) ELSE name[h]]
      /\ UNCHANGED <<where, inodePath, phase, file, dirty, fsync, strayed, moves, crossed,
                     estranged>>
  BY DEF RenameHandles, FollowHandle
<1>b. /\ ren'[r] = Idle /\ Idle.stage = "idle" /\ Idle.moved = {}
      /\ \A u \in Renames \ {r} : ren'[u] = ren[u]
  BY <1>1 DEF TypeOK, Idle
<1>c. /\ Pending(r) /\ ~Pending(r)'
      /\ \A u \in Renames \ {r} : Pending(u)' = Pending(u)
  BY <1>1, <1>b DEF Pending
<1>d. Clean' = Clean /\ Clean \subseteq Files
  BY <1>1 DEF Clean
<1>e. old \in Seq(Names) /\ new \in Seq(Names) /\ name \in [Handles -> Seq(Names)]
  BY RenamePathsAreSeqs DEF TypeOK
<1>2. TypeOK'
  <2>1. name' \in [Handles -> Seq(Names)]
    <3>1. \A h \in Handles : Follow(name[h], old, new) \in Seq(Names)
      BY <1>e, FollowSeq
    <3> QED BY <1>1, <1>e, <3>1
  <2>2. Idle \in [stage : {"idle", "verb", "paths", "handles"}, old : Paths,
                  new : Paths, inode : Files \cup {NoFile}, moved : SUBSET Files]
    BY RootIsPath DEF Idle
  <2>3. ren' \in [Renames -> [stage : {"idle", "verb", "paths", "handles"}, old : Paths,
                             new : Paths, inode : Files \cup {NoFile}, moved : SUBSET Files]]
    BY <1>1, <2>2 DEF TypeOK
  <2> QED BY <1>1, <2>1, <2>3 DEF TypeOK
<1>3. OnAFile' /\ RenameFits'
  BY <1>1, <1>b DEF OnAFile, RenameFits
<1>4. Disjoint'
  <2> SUFFICES ASSUME NEW s \in Renames, NEW u \in Renames, NEW f \in Clean,
                      Pending(s)', Pending(u)', s # u, f \in ren'[s].moved
               PROVE  ~InTheWay(s, u)'
    BY <1>d DEF Disjoint
  <2>1. s # r /\ u # r
    BY <1>c
  <2>2. /\ Pending(s) /\ Pending(u) /\ f \in ren[s].moved
        /\ ren'[s] = ren[s] /\ ren'[u] = ren[u]
    BY <1>b, <1>c, <2>1
  <2> QED BY <2>2 DEF Disjoint, InTheWay
<1>5. Moved'
  <2> SUFFICES ASSUME NEW s \in Renames, NEW f \in Clean, Pending(s)'
               PROVE  /\ ~AtOrBelow(where[f], ren'[s].old)
                      /\ AtOrBelow(where[f], ren'[s].new) <=> f \in ren'[s].moved
    BY <1>1, <1>d DEF Moved
  <2>1. s # r /\ Pending(s) /\ ren'[s] = ren[s]
    BY <1>b, <1>c
  <2> QED BY <2>1 DEF Moved
<1>6. InodesFollow'
  <2> SUFFICES ASSUME NEW f \in Clean
               PROVE  /\ \A s \in Renames : ren'[s].stage = "paths" /\ f \in ren'[s].moved =>
                                             Brought(s, inodePath[f], where[f])'
                      /\ (\A s \in Renames : ren'[s].stage = "paths" => f \notin ren'[s].moved)
                            => inodePath[f] = where[f]
    BY <1>1, <1>d DEF InodesFollow
  <2>1. ASSUME NEW s \in Renames, ren'[s].stage = "paths", f \in ren'[s].moved
        PROVE  Brought(s, inodePath[f], where[f])'
    <3>1. s # r /\ ren'[s] = ren[s]
      BY <1>b, <2>1
    <3>2. Brought(s, inodePath[f], where[f])
      BY <2>1, <3>1 DEF InodesFollow
    <3> QED BY <1>1, <3>1, <3>2 DEF Brought
  <2>2. ASSUME \A s \in Renames : ren'[s].stage = "paths" => f \notin ren'[s].moved
        PROVE  inodePath[f] = where[f]
    <3>1. \A s \in Renames : ren[s].stage = "paths" => f \notin ren[s].moved
      BY <1>1, <1>b, <2>2
    <3> QED BY <3>1 DEF InodesFollow
  <2> QED BY <2>1, <2>2
<1>7. HandlesFollow'
  <2> SUFFICES ASSUME NEW h \in Handles \ crossed, file[h] \in Clean
               PROVE  /\ phase[h] \in {"opened", "upload"} => name'[h] = where[file[h]]
                      /\ phase[h] = "open" =>
                            \/ name'[h] = where[file[h]]
                            \/ \E s \in Renames : /\ Pending(s)' /\ file[h] \in ren'[s].moved
                                                  /\ Brought(s, name[h], where[file[h]])'
    BY <1>1, <1>d DEF HandlesFollow
  <2>1. CASE phase[h] # "open"
    BY <1>1, <2>1 DEF HandlesFollow
  <2>2. CASE phase[h] = "open" /\ name[h] = where[file[h]]
    <3>1. ~AtOrBelow(name[h], old)
      BY <1>c, <2>2 DEF Moved
    <3> QED BY <1>1, <2>2, <3>1 DEF Follow
  <2>3. ASSUME phase[h] = "open", NEW s \in Renames, Pending(s), file[h] \in ren[s].moved,
               Brought(s, name[h], where[file[h]])
        PROVE  \/ name'[h] = where[file[h]]
               \/ /\ Pending(s)' /\ file[h] \in ren'[s].moved
                  /\ Brought(s, name[h], where[file[h]])'
    <3>1. CASE s = r
      BY <1>1, <2>3, <3>1 DEF Brought, Follow
    <3>2. CASE s # r
      <4>1. AtOrBelow(name[h], ren[s].old) /\ name[h] \in Seq(Names)
        BY <1>e, <2>3 DEF Brought
      <4>2. ~AtOrBelow(name[h], old)
        BY <1>c, <2>3, <3>2, <4>1, OnlyOne
      <4>3. name'[h] = name[h] /\ ren'[s] = ren[s] /\ Pending(s)'
        BY <1>1, <1>b, <1>c, <2>3, <3>2, <4>2 DEF Follow
      <4> QED BY <1>1, <2>3, <4>3 DEF Brought
    <3> QED BY <3>1, <3>2
  <2> QED BY <2>1, <2>2, <2>3 DEF HandlesFollow
<1> QED BY <1>2, <1>3, <1>4, <1>5, <1>6, <1>7

------------------------------------------------------------------------------
LEMMA Invariance == Spec => []IInv
<1>1. ASSUME IInv, [Next]_vars PROVE IInv'
  <2>1. ASSUME NEW h \in Handles, HandlerMoves(h) PROVE IInv'
    BY <1>1, <2>1, HandlerStepKeeps
  <2>2. ASSUME NEW r \in Renames, NEW old \in Paths \ {Root}, NEW new \in Paths \ {Root},
               RenameResolve(r, old, new)
        PROVE  IInv'
    BY <1>1, <2>2, RenameResolveKeeps
  <2>3. ASSUME NEW r \in Renames,
               \/ RenameVerb(r) \/ RenameLost(r) \/ RenameRefused(r)
               \/ RenamePaths(r) \/ RenameHandles(r)
        PROVE  IInv'
    BY <1>1, <2>3, RenameVerbKeeps, RenameLostKeeps, RenameRefusedKeeps, RenamePathsKeeps,
       RenameHandlesKeeps
  <2>4. ASSUME UNCHANGED vars PROVE IInv'
    <3>1. UNCHANGED <<where, inodePath, phase, name, file, dirty, fsync, strayed, ren, moves,
                      crossed, estranged>>
      BY <2>4 DEF vars, handleVars, renVars
    <3>2. TypeOK' /\ OnAFile' /\ RenameFits'
      BY <1>1, <3>1 DEF IInv, TypeOK, OnAFile, RenameFits
    <3>3. Disjoint' /\ Moved' /\ InodesFollow' /\ HandlesFollow'
      BY <1>1, <3>1 DEF IInv, Disjoint, Moved, InodesFollow, HandlesFollow, Pending, InTheWay,
         Clean, Brought
    <3> QED BY <3>2, <3>3 DEF IInv
  <2> QED BY <1>1, <2>1, <2>2, <2>3, <2>4 DEF Next, HandlerMoves
<1> QED BY InitIInv, <1>1, PTL DEF Spec

(* The variables have their types, and no two files ever share a path: the *)
(* engine's renames make no two paths one.                                 *)
THEOREM TypeCorrect == Spec => []TypeOK
<1>1. IInv => TypeOK
  BY DEF IInv
<1> QED BY Invariance, <1>1, PTL

(* "The upload at release must name the new remote path": a release sends  *)
(* the path its file has, however often that or a folder above it was      *)
(* renamed, and whatever renames of other files are under way, unless a    *)
(* rename of the file met the handle half way or the file is estranged.    *)
THEOREM ReleasesNameTheirFile == Spec => []ReleaseNamesItsFile
<1>1. IInv => ReleaseNamesItsFile
  <2> SUFFICES ASSUME IInv, NEW h \in Handles, phase[h] = "upload", h \notin crossed,
                      file[h] \notin estranged
               PROVE  name[h] = where[file[h]]
    BY DEF ReleaseNamesItsFile
  <2>1. file[h] \in Clean
    BY DEF IInv, OnAFile, Clean
  <2> QED BY <2>1 DEF IInv, HandlesFollow
<1> QED BY Invariance, <1>1, PTL

(* Once the renames that moved a file are through, PathMap and every open  *)
(* handle know the path the engine has for it, with the same exceptions:   *)
(* rename leaves no view behind, whatever other renames are under way.     *)
THEOREM RenamesLeaveNamesAgreeing == Spec => []NamesAgree
<1>1. IInv => NamesAgree
  <2> SUFFICES ASSUME IInv, NEW f \in Clean, \A r \in Renames : f \notin ren[r].moved
               PROVE  /\ inodePath[f] = where[f]
                      /\ \A h \in Handles \ crossed :
                            phase[h] = "open" /\ file[h] = f => name[h] = where[f]
    BY DEF NamesAgree, Clean
  <2>1. inodePath[f] = where[f]
    BY DEF IInv, InodesFollow
  <2>2. ASSUME NEW h \in Handles \ crossed, phase[h] = "open", file[h] = f
        PROVE  name[h] = where[f]
    BY <2>2 DEF IInv, HandlesFollow
  <2> QED BY <2>1, <2>2
<1> QED BY Invariance, <1>1, PTL
=============================================================================
