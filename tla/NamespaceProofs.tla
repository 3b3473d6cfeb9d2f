--------------------------- MODULE NamespaceProofs ---------------------------
(***************************************************************************)
(* Theorems about Namespace, for any depth of the tree, any names and      *)
(* spellings and any number of handlers and operations.  What readdir      *)
(* lists resolves whichever windows are open; where entries are visible as *)
(* they were named, and that create empties no file, is shown with the     *)
(* windows closed, whatever replies are lost, from a stronger invariant.   *)
(***************************************************************************)
EXTENDS Namespace, SequenceTheorems, TLAPS

Path == Seq(Names)
Entry == Path \ {Root}

OpRec == [kind : {"none", "create", "mkdir", "unlink", "rmdir", "rename"},
          step : {"idle", "check", "verb", "record"}, path : Path,
          name : Spellings \cup {""}, old : Path, dirs : SUBSET Path]

Busy(t) == op[t].step # "idle"
Making(t) == op[t].step = "record" /\ op[t].kind \in {"create", "mkdir"}
Removing(t) == op[t].step = "record" /\ op[t].kind \in {"unlink", "rmdir"}
Moving(t) == op[t].step = "record" /\ op[t].kind = "rename"

------------------------------------------------------------------------------
(* Whatever the windows: what each handler is about, and the raw names.    *)
Shapes ==
    /\ Entries \subseteq Entry
    /\ \A p \in Entries : tree[p] \in [folder : BOOLEAN, as : Spellings]
    /\ cached \subseteq Path /\ astray \subseteq Path
    /\ op \in [Tasks -> OpRec]
    /\ ops \in Nat /\ remote \in Nat

OpNamed ==
    \A t \in Tasks :
        IF Busy(t)
        THEN /\ op[t].path # Root
             /\ op[t].name \in Spellings
             /\ Nfc[op[t].name] = Basename(op[t].path)
             /\ op[t].kind # "none"
             /\ op[t].kind = "rename" <=> op[t].old # Root
        ELSE op[t] = Idle

(* A raw name is a spelling of the last component of its path, not itself  *)
(* in normal form.                                                         *)
RawSpelled ==
    /\ DOMAIN raw_names \subseteq Entry
    /\ \A p \in DOMAIN raw_names :
          raw_names[p] \in Spellings \ Names /\ Nfc[raw_names[p]] = Basename(p)

SInv == Shapes /\ OpNamed /\ RawSpelled

------------------------------------------------------------------------------
(* With the windows closed.                                                *)

(* The directories a handler has locked.                                   *)
LocksOf(k, p, old) ==
    {Parent(p)} \cup (IF k = "rename" THEN {Parent(old)} ELSE {})
                \cup (IF k = "rmdir" THEN {p} ELSE {})

(* A handler has the locks of the directories of its paths, and no other   *)
(* has them.                                                               *)
Locked ==
    /\ \A t \in Tasks : Busy(t) =>
          op[t].dirs = LocksOf(op[t].kind, op[t].path, op[t].old)
    /\ \A t, u \in Tasks : t # u => op[t].dirs \cap op[u].dirs = {}

Bounded ==
    /\ Entries \subseteq Paths
    /\ \A t \in Tasks : op[t].path \in Paths /\ op[t].old \in Paths

(* Whatever is above an entry is a folder.                                 *)
Closed == \A p \in Entries : \A q \in Path : AtOrBelow(p, q) /\ p # q => IsFolder(q)

(* The directories of a handler at work stay.                              *)
Grounded(t) ==
    Busy(t) => /\ IsFolder(Parent(op[t].path))
               /\ op[t].kind = "rename" => IsFolder(Parent(op[t].old))

(* What was removed or moved away stays away until it is recorded.         *)
Gone(t) ==
    /\ Removing(t) => op[t].path \notin Entries
    /\ Moving(t) => \A p \in Entries : ~AtOrBelow(p, op[t].old)

(* What was made or moved stays there until it is recorded.                *)
Made(t) ==
    Making(t) \/ Moving(t) =>
        op[t].path \in Entries /\ tree[op[t].path].as = op[t].name

(* A folder was not moved into itself, nor onto one that it lay in.        *)
Apart(t) ==
    Moving(t) => ~AtOrBelow(op[t].old, op[t].path) /\ ~AtOrBelow(op[t].path, op[t].old)

(* No raw name is in the way of those that a rename moves, unless it is    *)
(* astray.                                                                 *)
RawClear(t) ==
    Moving(t) => \A p \in DOMAIN raw_names : AtOrBelow(p, op[t].path) => p \in astray

(* What is moved with a folder is still visible, as it was named, where it *)
(* was, unless it was astray there.                                        *)
NamedBelow(t) ==
    Moving(t) =>
        \A p \in Entries :
            AtOrBelow(p, op[t].path) /\ p # op[t].path =>
                \/ VisibleName(Rebase(p, op[t].path, op[t].old)) = tree[p].as
                \/ Rebase(p, op[t].path, op[t].old) \in astray

(* What create starts with is not there under its spelling, and once it is *)
(* checked not at all.                                                     *)
Vacant(t) ==
    op[t].kind = "create" =>
        /\ op[t].step = "check" =>
              op[t].path \notin Entries \/ VisibleName(op[t].path) # op[t].name
        /\ op[t].step = "verb" => op[t].path \notin Entries

TaskInv(t) == /\ Grounded(t) /\ Gone(t) /\ Made(t) /\ Apart(t)
              /\ RawClear(t) /\ NamedBelow(t) /\ Vacant(t)

(* No other handler is at work where a rename takes from or puts to.       *)
Alone ==
    \A t, u \in Tasks : Moving(t) /\ Busy(u) /\ t # u =>
        /\ ~AtOrBelow(op[u].path, op[t].path) /\ ~AtOrBelow(op[u].path, op[t].old)
        /\ ~AtOrBelow(op[u].old, op[t].path) /\ ~AtOrBelow(op[u].old, op[t].old)

(* A raw name belongs to an entry, or to one that a handler is about to    *)
(* forget or to move it along with, or is astray.                          *)
Leaving(p, t) ==
    \/ Removing(t) /\ p = op[t].path
    \/ /\ Moving(t) /\ AtOrBelow(p, op[t].old)
       /\ p # op[t].old => Rebase(p, op[t].old, op[t].path) \in Entries

RawLive ==
    \A p \in DOMAIN raw_names :
        p \in Entries \/ p \in astray \/ \E t \in Tasks : Leaving(p, t)

(* An entry is visible as it was named, or a handler is about to record    *)
(* its name, or that of a folder it was moved with, or it is astray.       *)
Settling(p, t) ==
    \/ Making(t) /\ p = op[t].path
    \/ Moving(t) /\ AtOrBelow(p, op[t].path)

Named ==
    \A p \in Entries :
        VisibleName(p) = tree[p].as \/ p \in astray \/ \E t \in Tasks : Settling(p, t)

GInv == /\ Locked /\ Bounded /\ Closed
        /\ \A t \in Tasks : TaskInv(t)
        /\ Alone /\ RawLive /\ Named

IInv == SInv /\ GInv

------------------------------------------------------------------------------
(* Facts about paths, for paths of any length.                             *)
LEMMA PathsArePath == Paths \subseteq Path /\ Root \in Paths
<1>1. ASSUME NEW p \in Paths PROVE p \in Path
  <2>1. PICK n \in 0..MaxDepth : p \in [1..n -> Names]
    BY DEF Paths
  <2> QED BY <2>1, MaxDepthAssumption DEF Path
<1>2. Root \in [1..0 -> Names] /\ 0 \in 0..MaxDepth
  BY MaxDepthAssumption DEF Root
<1> QED BY <1>1, <1>2 DEF Paths

LEMMA PathInPaths == \A p \in Path : p \in Paths <=> Len(p) <= MaxDepth
<1> SUFFICES ASSUME NEW p \in Path PROVE p \in Paths <=> Len(p) <= MaxDepth
  OBVIOUS
<1>1. Len(p) \in Nat /\ p \in [1..Len(p) -> Names]
  BY LenProperties DEF Path
<1>2. ASSUME p \in Paths PROVE Len(p) <= MaxDepth
  <2>1. PICK n \in 0..MaxDepth : p \in [1..n -> Names]
    BY <1>2 DEF Paths
  <2> QED BY <2>1, MaxDepthAssumption
<1>3. ASSUME Len(p) <= MaxDepth PROVE p \in Paths
  <2>1. Len(p) \in 0..MaxDepth
    BY <1>1, <1>3, MaxDepthAssumption
  <2> QED BY <1>1, <2>1 DEF Paths
<1> QED BY <1>2, <1>3

(* "At or below" is an order, and what is above a path is a chain.         *)
LEMMA BelowOrder ==
    /\ \A p \in Path : AtOrBelow(p, p) /\ AtOrBelow(p, Root)
    /\ \A p \in Entry : ~AtOrBelow(Root, p)
    /\ \A p, q, r \in Path : AtOrBelow(p, q) /\ AtOrBelow(q, r) => AtOrBelow(p, r)
    /\ \A p, q \in Path : AtOrBelow(p, q) /\ AtOrBelow(q, p) => p = q
    /\ \A p, q, r \in Path :
          AtOrBelow(p, q) /\ AtOrBelow(p, r) => AtOrBelow(q, r) \/ AtOrBelow(r, q)
<1> USE DEF AtOrBelow, Path
<1>1. \A p \in Path : Len(p) \in Nat /\ (Len(p) = 0 <=> p = Root)
  BY EmptySeq, LenProperties DEF Root
<1>2. Root \in Path /\ Len(Root) = 0
  BY DEF Root
<1>3. ASSUME NEW p \in Path PROVE AtOrBelow(p, p) /\ AtOrBelow(p, Root)
  <2>1. Len(p) \in Nat /\ 1..Len(Root) = {}
    BY <1>1, <1>2
  <2>2. AtOrBelow(p, p)
    BY <2>1
  <2>3. AtOrBelow(p, Root)
    BY <1>2, <2>1
  <2> QED BY <2>2, <2>3
<1>4. ASSUME NEW p \in Entry PROVE ~AtOrBelow(Root, p)
  <2>1. Len(p) \in Nat /\ Len(p) # 0
    BY <1>1 DEF Entry
  <2> QED BY <1>2, <2>1
<1>5. \A p, q, r \in Path : AtOrBelow(p, q) /\ AtOrBelow(q, r) => AtOrBelow(p, r)
  BY <1>1
<1>6. ASSUME NEW p \in Path, NEW q \in Path, AtOrBelow(p, q), AtOrBelow(q, p) PROVE p = q
  <2>1. Len(p) = Len(q) /\ \A i \in 1..Len(p) : p[i] = q[i]
    BY <1>1, <1>6
  <2> QED BY <2>1, SeqEqual
<1>7. \A p, q, r \in Path :
          AtOrBelow(p, q) /\ AtOrBelow(p, r) => AtOrBelow(q, r) \/ AtOrBelow(r, q)
  BY <1>1
<1> QED BY <1>3, <1>4, <1>5, <1>6, <1>7

LEMMA ParentFacts ==
    /\ \A p \in Entry : /\ Parent(p) \in Path /\ Basename(p) \in Names
                        /\ AtOrBelow(p, Parent(p)) /\ ~AtOrBelow(Parent(p), p)
                        /\ Append(Parent(p), Basename(p)) = p
                        /\ Len(Parent(p)) = Len(p) - 1 /\ Len(p) \in Nat
    /\ \A p \in Entry, q \in Path : AtOrBelow(p, q) /\ p # q => AtOrBelow(Parent(p), q)
    /\ \A p \in Path, n \in Names : /\ Append(p, n) \in Entry
                                    /\ Parent(Append(p, n)) = p
                                    /\ Basename(Append(p, n)) = n
<1> USE DEF Path, Entry
<1>1. ASSUME NEW p \in Entry
      PROVE  /\ Len(p) \in Nat \ {0} /\ Parent(p) \in Path
             /\ Len(Parent(p)) = Len(p) - 1
             /\ \A i \in 1..(Len(p) - 1) : Parent(p)[i] = p[i]
             /\ Basename(p) \in Names /\ Basename(p) = p[Len(p)]
  <2>1. Len(p) \in Nat \ {0} /\ \A i \in 1..Len(p) : p[i] \in Names
    BY LenProperties, EmptySeq, ElementOfSeq DEF Root
  <2>2. \A i \in 1..(Len(p) - 1) : p[i] \in Names
    BY <2>1
  <2> DEFINE s == SubSeq(p, 1, Len(p) - 1)
  <2>3. /\ s \in Seq(Names)
        /\ Len(s) = IF 1 <= Len(p) - 1 THEN (Len(p) - 1) - 1 + 1 ELSE 0
        /\ \A i \in 1..((Len(p) - 1) - 1 + 1) : s[i] = p[1 + i - 1]
    BY <2>1, <2>2, SubSeqProperties
  <2> HIDE DEF s
  <2>4. /\ Len(s) = Len(p) - 1
        /\ \A i \in 1..(Len(p) - 1) : s[i] = p[i]
    <3>1. Len(s) = Len(p) - 1
      <4>1. Len(p) - 1 \in Nat /\ (Len(p) - 1) - 1 + 1 = Len(p) - 1
        BY <2>1
      <4>2. CASE 1 <= Len(p) - 1
        BY <2>3, <4>1, <4>2
      <4>3. CASE Len(p) = 1
        BY <2>3, <4>3
      <4>4. \A n \in Nat \ {0} : n = 1 \/ 1 <= n - 1
        OBVIOUS
      <4> QED BY <2>1, <4>2, <4>3, <4>4
    <3>2. ASSUME NEW i \in 1..(Len(p) - 1) PROVE s[i] = p[i]
      <4>1. i \in 1..((Len(p) - 1) - 1 + 1) /\ 1 + i - 1 = i
        BY <2>1
      <4> QED BY <2>3, <4>1
    <3> QED BY <3>1, <3>2
  <2>5. p[Len(p)] \in Names
    BY <2>1
  <2>6. Parent(p) = s /\ Basename(p) = p[Len(p)]
    BY DEF s, Parent, Basename
  <2> QED BY <2>1, <2>3, <2>4, <2>5, <2>6
<1>2. ASSUME NEW p \in Path, NEW n \in Names
      PROVE  /\ Append(p, n) \in Entry /\ Len(p) \in Nat
             /\ Len(Append(p, n)) = Len(p) + 1
             /\ \A i \in 1..Len(p) : Append(p, n)[i] = p[i]
             /\ Append(p, n)[Len(p) + 1] = n
  BY AppendProperties, LenProperties DEF Root
<1>3. ASSUME NEW p \in Entry PROVE Append(Parent(p), Basename(p)) = p
  <2>1. /\ Append(Parent(p), Basename(p)) \in Seq(Names)
        /\ Len(Append(Parent(p), Basename(p))) = Len(p)
        /\ \A i \in 1..Len(p) : Append(Parent(p), Basename(p))[i] = p[i]
    BY <1>1, <1>2
  <2> QED BY <2>1, SeqEqual
<1>4. ASSUME NEW p \in Path, NEW n \in Names
      PROVE  Parent(Append(p, n)) = p /\ Basename(Append(p, n)) = n
  <2> DEFINE c == Append(p, n)
  <2>1. /\ c \in Entry /\ Len(p) \in Nat /\ Len(c) = Len(p) + 1
        /\ \A i \in 1..Len(p) : c[i] = p[i]
        /\ c[Len(p) + 1] = n
    BY <1>2
  <2> HIDE DEF c
  <2>2. /\ Parent(c) \in Path /\ Len(Parent(c)) = Len(c) - 1
        /\ \A i \in 1..(Len(c) - 1) : Parent(c)[i] = c[i]
        /\ Basename(c) = c[Len(c)]
    BY <1>1, <2>1
  <2>3. Len(Parent(c)) = Len(p) /\ \A i \in 1..Len(p) : Parent(c)[i] = p[i]
    BY <2>1, <2>2
  <2>4. Parent(c) = p
    BY <2>2, <2>3, SeqEqual
  <2> QED BY <2>1, <2>2, <2>4 DEF c
<1>5. ASSUME NEW p \in Entry PROVE AtOrBelow(p, Parent(p)) /\ ~AtOrBelow(Parent(p), p)
  BY <1>1 DEF AtOrBelow
<1>6. ASSUME NEW p \in Entry, NEW q \in Path, AtOrBelow(p, q), p # q
      PROVE  AtOrBelow(Parent(p), q)
  <2>1. Len(q) \in Nat /\ Len(q) <= Len(p) /\ \A i \in 1..Len(q) : p[i] = q[i]
    BY <1>6, LenProperties DEF AtOrBelow
  <2>2. Len(q) # Len(p)
    BY <1>6, <2>1, SeqEqual
  <2>3. Len(p) \in Nat /\ Len(Parent(p)) = Len(p) - 1
        /\ \A i \in 1..(Len(p) - 1) : Parent(p)[i] = p[i]
    BY <1>1
  <2>4. Len(q) <= Len(Parent(p)) /\ \A i \in 1..Len(q) : i \in 1..(Len(p) - 1)
    BY <2>1, <2>2, <2>3
  <2> QED BY <2>1, <2>3, <2>4 DEF AtOrBelow
<1> QED BY <1>1, <1>2, <1>3, <1>4, <1>5, <1>6

(* On the way from a path down to another there is a first step.           *)
LEMMA StepDown ==
    ASSUME NEW p \in Path, NEW q \in Path, AtOrBelow(p, q), p # q
    PROVE  \E r \in Entry : AtOrBelow(p, r) /\ Parent(r) = q
<1> USE DEF Path, Entry
<1>1. /\ Len(p) \in Nat /\ Len(q) \in Nat /\ Len(q) <= Len(p)
      /\ \A i \in 1..Len(q) : p[i] = q[i]
      /\ \A i \in 1..Len(p) : p[i] \in Names
  BY LenProperties, ElementOfSeq DEF AtOrBelow
<1>2. Len(q) < Len(p)
  BY <1>1, SeqEqual
<1> DEFINE r == Append(q, p[Len(q) + 1])
<1>3. /\ r \in Seq(Names) /\ Len(r) = Len(q) + 1
      /\ \A i \in 1..Len(q) : r[i] = q[i]
      /\ r[Len(q) + 1] = p[Len(q) + 1]
  BY <1>1, <1>2, AppendProperties
<1>4. r \in Entry /\ Parent(r) = q
  BY <1>1, <1>2, ParentFacts
<1> HIDE DEF r
<1>5. AtOrBelow(p, r)
  BY <1>1, <1>2, <1>3 DEF AtOrBelow
<1> QED BY <1>4, <1>5

LEMMA RebaseParts ==
    ASSUME NEW p \in Path, NEW old \in Path, NEW new \in Path, AtOrBelow(p, old)
    PROVE  /\ Rebase(p, old, new) \in Path
           /\ Len(Rebase(p, old, new)) = Len(new) + (Len(p) - Len(old))
           /\ \A i \in 1..Len(new) : Rebase(p, old, new)[i] = new[i]
           /\ \A i \in 1..(Len(p) - Len(old)) :
                 Rebase(p, old, new)[Len(new) + i] = p[Len(old) + i]
<1> USE DEF Path
<1> DEFINE rest == SubSeq(p, Len(old) + 1, Len(p))
<1>1. /\ Len(p) \in Nat /\ Len(old) \in Nat /\ Len(new) \in Nat /\ Len(old) <= Len(p)
      /\ \A i \in (Len(old) + 1)..Len(p) : p[i] \in Names
  BY LenProperties, ElementOfSeq DEF AtOrBelow
<1>2. /\ rest \in Seq(Names)
      /\ Len(rest) = Len(p) - Len(old)
      /\ \A i \in 1..(Len(p) - Len(old)) : rest[i] = p[Len(old) + i]
  <2>1. /\ rest \in Seq(Names)
        /\ Len(rest) = IF Len(old) + 1 <= Len(p) THEN Len(p) - (Len(old) + 1) + 1 ELSE 0
        /\ \A i \in 1..(Len(p) - (Len(old) + 1) + 1) : rest[i] = p[Len(old) + 1 + i - 1]
    BY <1>1, SubSeqProperties
  <2> QED BY <1>1, <2>1
<1> HIDE DEF rest
<1>3. /\ new \o rest \in Seq(Names)
      /\ Len(new \o rest) = Len(new) + Len(rest)
      /\ \A i \in 1..(Len(new) + Len(rest)) :
            (new \o rest)[i] = IF i <= Len(new) THEN new[i] ELSE rest[i - Len(new)]
  BY <1>2, ConcatProperties
<1>4. Rebase(p, old, new) = new \o rest
  BY DEF Rebase, rest
<1> QED BY <1>1, <1>2, <1>3, <1>4

(* Rebasing there and back loses nothing.                                  *)
LEMMA RebaseBack ==
    ASSUME NEW p \in Path, NEW old \in Path, NEW new \in Path, AtOrBelow(p, old)
    PROVE  /\ AtOrBelow(Rebase(p, old, new), new)
           /\ Rebase(Rebase(p, old, new), new, old) = p
<1> DEFINE q == Rebase(p, old, new)
           r == Rebase(q, new, old)
<1>1. /\ Len(p) \in Nat /\ Len(old) \in Nat /\ Len(new) \in Nat /\ Len(old) <= Len(p)
      /\ \A i \in 1..Len(old) : p[i] = old[i]
  BY LenProperties DEF AtOrBelow, Path
<1>2. /\ q \in Path
      /\ Len(q) = Len(new) + (Len(p) - Len(old))
      /\ \A i \in 1..Len(new) : q[i] = new[i]
      /\ \A i \in 1..(Len(p) - Len(old)) : q[Len(new) + i] = p[Len(old) + i]
  BY RebaseParts
<1> HIDE DEF q
<1>3. AtOrBelow(q, new)
  BY <1>1, <1>2 DEF AtOrBelow
<1>4. /\ r \in Path
      /\ Len(r) = Len(old) + (Len(q) - Len(new))
      /\ \A i \in 1..Len(old) : r[i] = old[i]
      /\ \A i \in 1..(Len(q) - Len(new)) : r[Len(old) + i] = q[Len(new) + i]
  BY <1>2, <1>3, RebaseParts
<1> HIDE DEF r
<1>5. Len(r) = Len(p) /\ Len(q) - Len(new) = Len(p) - Len(old)
  BY <1>1, <1>2, <1>4
<1>6. ASSUME NEW i \in 1..Len(r) PROVE r[i] = p[i]
  <2>1. CASE i <= Len(old)
    BY <2>1, <1>1, <1>4
  <2>2. CASE i > Len(old)
    <3>1. i - Len(old) \in 1..(Len(p) - Len(old)) /\ i = Len(old) + (i - Len(old))
      BY <2>2, <1>1, <1>5
    <3>2. r[Len(old) + (i - Len(old))] = q[Len(new) + (i - Len(old))]
      BY <3>1, <1>4, <1>5
    <3>3. q[Len(new) + (i - Len(old))] = p[Len(old) + (i - Len(old))]
      BY <3>1, <1>2
    <3> QED BY <3>1, <3>2, <3>3
  <2> QED BY <2>1, <2>2, <1>1, <1>5
<1>7. r = p
  BY <1>4, <1>5, <1>6, SeqEqual DEF Path
<1> QED BY <1>3, <1>7 DEF r, q

(* The folder itself becomes the new one, what is below keeps its name and *)
(* its place.                                                              *)
LEMMA RebaseKeeps ==
    ASSUME NEW p \in Path, NEW old \in Path, NEW new \in Path, AtOrBelow(p, old)
    PROVE  /\ Rebase(old, old, new) = new
           /\ Rebase(p, old, new) = new => p = old
           /\ p # old => Basename(Rebase(p, old, new)) = Basename(p)
           /\ \A q \in Path : AtOrBelow(q, old) =>
                 (AtOrBelow(Rebase(p, old, new), Rebase(q, old, new)) <=> AtOrBelow(p, q))
<1>1. /\ Len(p) \in Nat /\ Len(old) \in Nat /\ Len(new) \in Nat /\ Len(old) <= Len(p)
      /\ \A i \in 1..Len(old) : p[i] = old[i]
      /\ p # old => Len(old) < Len(p)
  BY LenProperties, SeqEqual DEF AtOrBelow, Path
<1> DEFINE a == Rebase(p, old, new)
<1>2. /\ a \in Path
      /\ Len(a) = Len(new) + (Len(p) - Len(old))
      /\ \A i \in 1..Len(new) : a[i] = new[i]
      /\ \A i \in 1..(Len(p) - Len(old)) : a[Len(new) + i] = p[Len(old) + i]
  BY RebaseParts
<1>3. Rebase(old, old, new) = new
  <2>1. AtOrBelow(old, old)
    BY BelowOrder
  <2>2. /\ Rebase(old, old, new) \in Path
        /\ Len(Rebase(old, old, new)) = Len(new) + (Len(old) - Len(old))
        /\ \A i \in 1..Len(new) : Rebase(old, old, new)[i] = new[i]
    BY <2>1, RebaseParts
  <2>3. Len(Rebase(old, old, new)) = Len(new)
    BY <1>1, <2>2
  <2> QED BY <2>2, <2>3, SeqEqual DEF Path
<1> HIDE DEF a
<1>4. a = new => p = old
  BY <1>1, <1>2
<1>5. p # old => Basename(a) = Basename(p)
  <2> SUFFICES ASSUME p # old PROVE a[Len(a)] = p[Len(p)]
    BY DEF Basename
  <2>1. /\ Len(p) - Len(old) \in 1..(Len(p) - Len(old))
        /\ Len(a) = Len(new) + (Len(p) - Len(old)) /\ Len(p) = Len(old) + (Len(p) - Len(old))
    BY <1>1, <1>2
  <2>2. a[Len(new) + (Len(p) - Len(old))] = p[Len(old) + (Len(p) - Len(old))]
    BY <1>2, <2>1
  <2> QED BY <2>1, <2>2
<1>6. ASSUME NEW q \in Path, AtOrBelow(q, old)
      PROVE  AtOrBelow(a, Rebase(q, old, new)) <=> AtOrBelow(p, q)
  <2> DEFINE b == Rebase(q, old, new)
  <2>1. /\ Len(q) \in Nat /\ Len(old) <= Len(q)
        /\ \A i \in 1..Len(old) : q[i] = old[i]
    BY <1>6, LenProperties DEF AtOrBelow, Path
  <2>2. /\ Len(b) = Len(new) + (Len(q) - Len(old))
        /\ \A i \in 1..Len(new) : b[i] = new[i]
        /\ \A i \in 1..(Len(q) - Len(old)) : b[Len(new) + i] = q[Len(old) + i]
    BY <1>6, RebaseParts
  <2> HIDE DEF b
  <2>3. Len(b) <= Len(a) <=> Len(q) <= Len(p)
    BY <1>1, <1>2, <2>1, <2>2
  <2>4. ASSUME AtOrBelow(p, q) PROVE AtOrBelow(a, b)
    <3> SUFFICES ASSUME NEW i \in 1..Len(b) PROVE a[i] = b[i]
      BY <2>3, <2>4 DEF AtOrBelow
    <3>1. CASE i <= Len(new)
      BY <3>1, <1>1, <1>2, <2>2
    <3>2. CASE i > Len(new)
      <4> DEFINE k == i - Len(new)
      <4>1. /\ k \in 1..(Len(q) - Len(old)) /\ k \in 1..(Len(p) - Len(old))
            /\ i = Len(new) + k /\ Len(old) + k \in 1..Len(q)
        BY <3>2, <1>1, <2>1, <2>2, <2>4 DEF AtOrBelow
      <4> HIDE DEF k
      <4>2. a[i] = p[Len(old) + k] /\ b[i] = q[Len(old) + k]
        BY <4>1, <1>2, <2>2
      <4>3. p[Len(old) + k] = q[Len(old) + k]
        BY <4>1, <2>4 DEF AtOrBelow
      <4> QED BY <4>2, <4>3
    <3> QED BY <3>1, <3>2, <1>1, <1>2, <2>1, <2>2
  <2>5. ASSUME AtOrBelow(a, b) PROVE AtOrBelow(p, q)
    <3>1. Len(q) <= Len(p)
      BY <2>3, <2>5 DEF AtOrBelow
    <3> SUFFICES ASSUME NEW i \in 1..Len(q) PROVE p[i] = q[i]
      BY <3>1 DEF AtOrBelow
    <3>2. CASE i <= Len(old)
      BY <3>2, <1>1, <2>1
    <3>3. CASE i > Len(old)
      <4> DEFINE k == i - Len(old)
      <4>1. /\ k \in 1..(Len(q) - Len(old)) /\ k \in 1..(Len(p) - Len(old))
            /\ i = Len(old) + k /\ Len(new) + k \in 1..Len(b)
        BY <3>1, <3>3, <1>1, <2>1, <2>2
      <4> HIDE DEF k
      <4>2. a[Len(new) + k] = p[i] /\ b[Len(new) + k] = q[i]
        BY <4>1, <1>2, <2>2
      <4>3. a[Len(new) + k] = b[Len(new) + k]
        BY <4>1, <2>5 DEF AtOrBelow
      <4> QED BY <4>2, <4>3
    <3> QED BY <3>2, <3>3, <1>1, <2>1
  <2> QED BY <2>4, <2>5 DEF b
<1> QED BY <1>3, <1>4, <1>5, <1>6 DEF a

------------------------------------------------------------------------------
(* A handler begins, whichever it is.                                      *)
Start(t) ==
    \E k \in {"create", "mkdir", "unlink", "rmdir", "rename"}, p \in Paths \ {Root},
       n \in Spellings, old \in Paths, s \in {"check", "verb"} :
        /\ Nfc[n] = Basename(p)
        /\ k = "rename" <=> old # Root
        /\ k = "create" => s = "check" /\ (p \notin Entries \/ VisibleName(p) # n)
        /\ Begin(t, k, p, n, old, LocksOf(k, p, old), s)

LEMMA ChildFacts ==
    ASSUME NEW dir \in Paths, Len(dir) < MaxDepth, NEW n \in Spellings
    PROVE  /\ ChildPath(dir, n) \in Paths \ {Root}
           /\ Parent(ChildPath(dir, n)) = dir
           /\ Basename(ChildPath(dir, n)) = Nfc[n]
<1>1. dir \in Path /\ Nfc[n] \in Names
  BY PathsArePath, NamespaceAssumption
<1>2. /\ ChildPath(dir, n) \in Entry
      /\ Parent(ChildPath(dir, n)) = dir /\ Basename(ChildPath(dir, n)) = Nfc[n]
  BY <1>1, ParentFacts DEF ChildPath
<1>3. Len(dir) \in Nat /\ Len(ChildPath(dir, n)) = Len(dir) + 1
  BY <1>1, AppendProperties, LenProperties DEF ChildPath, Path
<1>4. Len(ChildPath(dir, n)) <= MaxDepth
  BY <1>3, MaxDepthAssumption
<1> QED BY <1>2, <1>4, PathInPaths DEF Entry

LEMMA StepKinds ==
    ASSUME [Next]_vars
    PROVE  \/ \E t \in Tasks : \/ Start(t) \/ Check(t)
                               \/ Verb(t) \/ VerbRefused(t) \/ VerbLost(t)
                               \/ RecordMake(t) \/ CreateFails(t)
                               \/ RecordRemove(t) \/ RecordRename(t)
           \/ \E p \in Paths : List(p) \/ Invalidate(p)
           \/ \E p \in Paths \ {Root} : RemoteRemove(p) \/ \E b \in BOOLEAN : RemoteCreate(p, b)
           \/ UNCHANGED vars
<1>1. ASSUME NEW t \in Tasks, NEW dir \in Paths, NEW name \in Spellings, Len(dir) < MaxDepth,
             NEW k \in {"create", "mkdir"}, BeginMake(t, k, dir, name)
      PROVE  Start(t)
  <2>1. /\ ChildPath(dir, name) \in Paths \ {Root} /\ Parent(ChildPath(dir, name)) = dir
        /\ Basename(ChildPath(dir, name)) = Nfc[name]
    BY <1>1, ChildFacts
  <2>2. LocksOf(k, ChildPath(dir, name), Root) = {dir}
    BY <2>1 DEF LocksOf
  <2>3. Begin(t, k, ChildPath(dir, name), name, Root, LocksOf(k, ChildPath(dir, name), Root),
              "check")
    BY <1>1, <2>2 DEF BeginMake
  <2>4. Root \in Paths
    BY PathsArePath
  <2>5. \/ ChildPath(dir, name) \notin Entries
        \/ VisibleName(ChildPath(dir, name)) # name
    BY <1>1, <2>1 DEF BeginMake, Lookup
  <2> QED BY <2>1, <2>3, <2>4, <2>5 DEF Start
<1>2. ASSUME NEW t \in Tasks, NEW dir \in Paths, NEW name \in Spellings, Len(dir) < MaxDepth,
             NEW k \in {"unlink", "rmdir"}, BeginRemove(t, k, dir, name)
      PROVE  Start(t)
  <2>1. /\ ChildPath(dir, name) \in Paths \ {Root} /\ Parent(ChildPath(dir, name)) = dir
        /\ Basename(ChildPath(dir, name)) = Nfc[name]
    BY <1>2, ChildFacts
  <2>2. LocksOf(k, ChildPath(dir, name), Root) =
            IF k = "rmdir" THEN {dir, ChildPath(dir, name)} ELSE {dir}
    BY <2>1 DEF LocksOf
  <2>3. Begin(t, k, ChildPath(dir, name), name, Root, LocksOf(k, ChildPath(dir, name), Root),
              "verb")
    BY <1>2, <2>2 DEF BeginRemove
  <2>4. Root \in Paths
    BY PathsArePath
  <2> QED BY <2>1, <2>3, <2>4 DEF Start
<1>3. ASSUME NEW t \in Tasks, NEW dir \in Paths, NEW name \in Spellings, Len(dir) < MaxDepth,
             NEW newDir \in Paths, NEW newName \in Spellings, Len(newDir) < MaxDepth,
             BeginRename(t, dir, name, newDir, newName)
      PROVE  Start(t)
  <2>1. /\ ChildPath(dir, name) \in Paths \ {Root} /\ Parent(ChildPath(dir, name)) = dir
        /\ ChildPath(newDir, newName) \in Paths \ {Root}
        /\ Parent(ChildPath(newDir, newName)) = newDir
        /\ Basename(ChildPath(newDir, newName)) = Nfc[newName]
    BY <1>3, ChildFacts
  <2>2. LocksOf("rename", ChildPath(newDir, newName), ChildPath(dir, name)) = {dir, newDir}
    BY <2>1 DEF LocksOf
  <2>3. Begin(t, "rename", ChildPath(newDir, newName), newName, ChildPath(dir, name),
              LocksOf("rename", ChildPath(newDir, newName), ChildPath(dir, name)), "check")
    BY <1>3, <2>2 DEF BeginRename
  <2> QED BY <2>1, <2>3 DEF Start
<1> QED BY <1>1, <1>2, <1>3, Zenon DEF Next

------------------------------------------------------------------------------
(* Without any assumption on the windows.                                  *)
LEMMA InitShapes == Init => SInv
<1> SUFFICES ASSUME Init PROVE SInv
  OBVIOUS
<1>1. Root \in Path
  BY PathsArePath
<1>2. Idle \in OpRec
  BY <1>1 DEF Idle, OpRec
<1>3. Entries = {} /\ DOMAIN raw_names = {}
  BY DEF Init, Entries
<1>4. Shapes
  BY <1>2, <1>3 DEF Init, Shapes
<1>5. OpNamed
  BY DEF Init, OpNamed, Busy, Idle
<1>6. RawSpelled
  BY <1>3 DEF RawSpelled
<1> QED BY <1>4, <1>5, <1>6 DEF SInv

LEMMA VisibleSpelling ==
    ASSUME SInv, NEW p \in Entry
    PROVE  VisibleName(p) \in Spellings /\ Nfc[VisibleName(p)] = Basename(p)
<1>1. Basename(p) \in Names
  BY ParentFacts
<1> QED BY <1>1, NamespaceAssumption DEF SInv, RawSpelled, VisibleName

(* What the engine's verb leaves of its entries, by kind of verb.          *)
LEMMA EffectFacts ==
    ASSUME SInv, NEW t \in Tasks, Busy(t), tree' = Effect(op[t])
    PROVE  /\ op[t].kind \in {"create", "mkdir"} =>
                /\ Entries' = Entries \cup {op[t].path}
                /\ tree'[op[t].path] = IF op[t].kind = "mkdir" THEN [folder |-> TRUE, as |-> op[t].name]
                                       ELSE [folder |-> FALSE, as |-> op[t].name]
                /\ \A p \in Entries \ {op[t].path} : tree'[p] = tree[p]
           /\ op[t].kind \in {"unlink", "rmdir"} =>
                /\ Entries' = Entries \ {op[t].path}
                /\ \A p \in Entries' : tree'[p] = tree[p]
<1> USE DEF SInv, Shapes, Entries
<1>1. CASE op[t].kind \in {"create", "mkdir"}
  <2>1. tree' = Put(tree, op[t].path, [folder |-> op[t].kind = "mkdir", as |-> op[t].name])
    BY <1>1 DEF Effect
  <2>2. tree'[op[t].path] = [folder |-> op[t].kind = "mkdir", as |-> op[t].name]
    BY <2>1 DEF Put
  <2>3. tree'[op[t].path] = IF op[t].kind = "mkdir" THEN [folder |-> TRUE, as |-> op[t].name]
                            ELSE [folder |-> FALSE, as |-> op[t].name]
    <3>1. (op[t].kind = "mkdir") = TRUE \/ (op[t].kind = "mkdir") = FALSE
      BY Zenon
    <3> QED BY <2>2, <3>1, Zenon
  <2> QED BY <1>1, <2>1, <2>3 DEF Put
<1>2. CASE op[t].kind \in {"unlink", "rmdir"}
  BY <1>2 DEF Effect, Without
<1> QED BY <1>1, <1>2

LEMMA EffectRename ==
    ASSUME SInv, NEW t \in Tasks, Busy(t), tree' = Effect(op[t]),
           op[t].kind = "rename", op[t].old \in Entries
    PROVE  /\ Entries' = (Entries \ Within(Entries, op[t].old))
                         \cup {Rebase(p, op[t].old, op[t].path) :
                                  p \in Within(Entries, op[t].old)}
           /\ tree'[op[t].path] = [tree[op[t].old] EXCEPT !.as = op[t].name]
           /\ \A p \in Within(Entries, op[t].old) : p # op[t].old =>
                 tree'[Rebase(p, op[t].old, op[t].path)] = tree[p]
           /\ \A p \in Entries \ Within(Entries, op[t].old) :
                 p \notin {Rebase(q, op[t].old, op[t].path) : q \in Within(Entries, op[t].old)}
                 => tree'[p] = tree[p]
<1> DEFINE o == op[t]
           S == Within(Entries, o.old)
           moved == Move(tree, S, o.old, o.path)
<1>1. tree' = [moved EXCEPT ![o.path].as = op[t].name]
  BY DEF Effect
<1>2. o.old \in Path /\ o.path \in Path /\ Entries \subseteq Path
  BY DEF SInv, Shapes, OpRec, Entry
<1>3. S \subseteq DOMAIN tree /\ \A p \in S : p \in Path /\ AtOrBelow(p, o.old)
  BY <1>2 DEF Within, Entries
<1>4. /\ DOMAIN moved = (Entries \ S) \cup {Rebase(p, o.old, o.path) : p \in S}
      /\ \A p \in S : moved[Rebase(p, o.old, o.path)] = tree[p]
      /\ \A p \in Entries \ S :
            p \notin {Rebase(q, o.old, o.path) : q \in S} => moved[p] = tree[p]
      /\ moved = [p \in DOMAIN moved |-> moved[p]]
  <2> HIDE DEF o, S
  <2>1. /\ DOMAIN moved = (DOMAIN tree \ S) \cup {Rebase(p, o.old, o.path) : p \in S}
        /\ \A p \in S : moved[Rebase(p, o.old, o.path)] = tree[p]
        /\ \A p \in DOMAIN tree \ S :
              p \notin {Rebase(q, o.old, o.path) : q \in S} => moved[p] = tree[p]
    <3>1. \A p \in S : Rebase(Rebase(p, o.old, o.path), o.path, o.old) = p
      BY <1>2, <1>3, RebaseBack
    <3> QED BY <1>3, <3>1 DEF Move
  <2>2. moved = [p \in DOMAIN moved |-> moved[p]]
    BY DEF Move
  <2> QED BY <2>1, <2>2 DEF Entries
<1>5. /\ o.old \in S /\ Rebase(o.old, o.old, o.path) = o.path
      /\ \A p \in S : Rebase(p, o.old, o.path) = o.path => p = o.old
  BY <1>2, <1>3, BelowOrder, RebaseKeeps DEF Within
<1> HIDE DEF moved, S, o
<1>6. /\ DOMAIN tree' = DOMAIN moved /\ tree'[o.path] = [moved[o.path] EXCEPT !.as = op[t].name]
      /\ \A p \in DOMAIN moved : p # o.path => tree'[p] = moved[p]
  <2>1. o.path \in DOMAIN moved
    BY <1>4, <1>5
  <2>2. DOMAIN tree' = DOMAIN moved
    BY <1>1
  <2>3. tree'[o.path] = [moved[o.path] EXCEPT !.as = op[t].name]
    BY <1>1, <2>1
  <2>4. \A p \in DOMAIN moved : p # o.path => tree'[p] = moved[p]
    BY <1>1
  <2> QED BY <2>2, <2>3, <2>4
<1>8. /\ Entries' = (Entries \ S) \cup {Rebase(p, o.old, o.path) : p \in S}
      /\ tree'[o.path] = [tree[o.old] EXCEPT !.as = op[t].name]
  BY <1>4, <1>5, <1>6 DEF Entries
<1>9. ASSUME NEW p \in S, p # o.old PROVE tree'[Rebase(p, o.old, o.path)] = tree[p]
  BY <1>4, <1>5, <1>6, <1>9
<1>10. ASSUME NEW p \in Entries \ S, p \notin {Rebase(q, o.old, o.path) : q \in S}
       PROVE  tree'[p] = tree[p]
  <2>1. p # o.path
    BY <1>5, <1>10
  <2> QED BY <1>4, <1>6, <1>10, <2>1
<1> QED BY <1>8, <1>9, <1>10 DEF S, o

LEMMA EffectShapes ==
    ASSUME SInv, NEW t \in Tasks, Busy(t), Accepts(op[t]), tree' = Effect(op[t])
    PROVE  /\ Entries' \subseteq Entry
           /\ \A p \in Entries' : tree'[p] \in [folder : BOOLEAN, as : Spellings]
<1>1. op[t].path \in Entry /\ op[t].old \in Path /\ op[t].name \in Spellings
      /\ op[t].kind \in {"create", "mkdir", "unlink", "rmdir", "rename"}
  BY DEF SInv, Shapes, OpNamed, OpRec, Entry
<1>2. CASE op[t].kind \in {"create", "mkdir"}
  <2>2. /\ Entries' = Entries \cup {op[t].path}
        /\ tree'[op[t].path] = IF op[t].kind = "mkdir" THEN [folder |-> TRUE, as |-> op[t].name]
                               ELSE [folder |-> FALSE, as |-> op[t].name]
        /\ \A p \in Entries \ {op[t].path} : tree'[p] = tree[p]
    BY <1>2, EffectFacts
  <2>3. tree'[op[t].path] \in [folder : BOOLEAN, as : Spellings]
    <3>1. /\ [folder |-> TRUE, as |-> op[t].name] \in [folder : BOOLEAN, as : Spellings]
          /\ [folder |-> FALSE, as |-> op[t].name] \in [folder : BOOLEAN, as : Spellings]
      BY <1>1
    <3> QED BY <2>2, <3>1, Zenon
  <2> QED BY <1>1, <2>2, <2>3 DEF SInv, Shapes
<1>3. CASE op[t].kind \in {"unlink", "rmdir"}
  BY <1>1, <1>3, EffectFacts DEF SInv, Shapes
<1>4. CASE op[t].kind = "rename"
  <2> DEFINE o == op[t]
             S == Within(Entries, o.old)
  <2>1. o.old \in Entries
    BY <1>4 DEF Accepts
  <2>2. /\ Entries' = (Entries \ S) \cup {Rebase(p, o.old, o.path) : p \in S}
        /\ tree'[o.path] = [tree[o.old] EXCEPT !.as = op[t].name]
        /\ \A p \in S : p # o.old => tree'[Rebase(p, o.old, o.path)] = tree[p]
        /\ \A p \in Entries \ S :
              p \notin {Rebase(q, o.old, o.path) : q \in S} => tree'[p] = tree[p]
    BY <1>4, <2>1, EffectRename
  <2>3. ASSUME NEW p \in S PROVE Rebase(p, o.old, o.path) \in Entry
    <3>1. p \in Path /\ AtOrBelow(p, o.old)
      BY DEF SInv, Shapes, Within, Entry
    <3>2. Rebase(p, o.old, o.path) \in Path /\ AtOrBelow(Rebase(p, o.old, o.path), o.path)
      BY <1>1, <3>1, RebaseParts, RebaseBack DEF Entry
    <3>3. Rebase(p, o.old, o.path) # Root
      BY <1>1, <3>2, BelowOrder
    <3> QED BY <3>2, <3>3 DEF Entry
  <2>4. Entries' \subseteq Entry
    BY <2>2, <2>3 DEF SInv, Shapes
  <2>5. ASSUME NEW p \in S
        PROVE  tree'[Rebase(p, o.old, o.path)] \in [folder : BOOLEAN, as : Spellings]
    <3>1. tree[p] \in [folder : BOOLEAN, as : Spellings]
      BY DEF SInv, Shapes, Within
    <3>2. CASE p = o.old
      <4>1. Rebase(p, o.old, o.path) = o.path
        BY <1>1, <3>2, BelowOrder, RebaseKeeps DEF Entry
      <4> QED BY <1>1, <2>2, <3>1, <3>2, <4>1, ZenonT(30)
    <3>3. CASE p # o.old
      BY <2>2, <3>1, <3>3
    <3> QED BY <3>2, <3>3
  <2>6. ASSUME NEW p \in Entries \ S, p \notin {Rebase(q, o.old, o.path) : q \in S}
        PROVE  tree'[p] \in [folder : BOOLEAN, as : Spellings]
    <3>1. tree[p] \in [folder : BOOLEAN, as : Spellings]
      BY DEF SInv, Shapes
    <3>2. tree'[p] = tree[p]
      BY <2>2, <2>6
    <3> QED BY <3>1, <3>2
  <2> QED BY <2>2, <2>4, <2>5, <2>6
<1> QED BY <1>1, <1>2, <1>3, <1>4

------------------------------------------------------------------------------
(* What the raw names become.                                              *)
LEMMA RecordFacts ==
    ASSUME NEW raw, NEW p, NEW name
    PROVE  /\ \A x : x \in DOMAIN RecordRawName(raw, p, name) <=>
                        \/ x \in DOMAIN raw /\ x # p
                        \/ x = p /\ Nfc[name] # name
           /\ \A x \in DOMAIN raw : x # p => RecordRawName(raw, p, name)[x] = raw[x]
           /\ Nfc[name] # name => RecordRawName(raw, p, name)[p] = name /\ name \notin Names
BY NamespaceAssumption DEF RecordRawName, Put, Without

LEMMA ForgetFacts ==
    ASSUME NEW raw, NEW p
    PROVE  /\ \A x : x \in DOMAIN ForgetRawNames(raw, p) <=>
                        x \in DOMAIN raw /\ ~AtOrBelow(x, p)
           /\ \A x \in DOMAIN raw : ~AtOrBelow(x, p) => ForgetRawNames(raw, p)[x] = raw[x]
BY DEF ForgetRawNames, Without, Within

LEMMA RenameFacts ==
    ASSUME RawSpelled, NEW old \in Path, NEW new \in Path
    PROVE  /\ \A x : x \in DOMAIN RenameRawNames(raw_names, old, new) <=>
                \/ x \in DOMAIN raw_names /\ ~AtOrBelow(x, old)
                \/ \E p \in DOMAIN raw_names :
                      AtOrBelow(p, old) /\ p # old /\ x = Rebase(p, old, new)
           /\ \A p \in DOMAIN raw_names : AtOrBelow(p, old) /\ p # old =>
                 RenameRawNames(raw_names, old, new)[Rebase(p, old, new)] = raw_names[p]
           /\ \A x \in DOMAIN raw_names :
                 /\ ~AtOrBelow(x, old)
                 /\ \A p \in DOMAIN raw_names :
                       AtOrBelow(p, old) /\ p # old => x # Rebase(p, old, new)
                 => RenameRawNames(raw_names, old, new)[x] = raw_names[x]
<1> DEFINE below == Without(raw_names, {old})
           S == Within(DOMAIN below, old)
           moved == {Rebase(p, old, new) : p \in S}
           R == [p \in (DOMAIN below \ S) \cup moved |->
                    below[IF p \in moved THEN Rebase(p, new, old) ELSE p]]
<1>1. RenameRawNames(raw_names, old, new) = R
  BY DEF RenameRawNames, Move
<1>2. /\ DOMAIN below = DOMAIN raw_names \ {old}
      /\ \A p \in DOMAIN below : below[p] = raw_names[p]
  BY DEF Without
<1>3. \A p \in DOMAIN raw_names : p \in Path
  BY DEF RawSpelled, Entry
<1>4. S = {p \in DOMAIN raw_names : AtOrBelow(p, old) /\ p # old}
  BY <1>2 DEF Within
<1> HIDE DEF below, S
<1>5. AtOrBelow(old, old)
  BY BelowOrder
<1>6. \A p \in S : Rebase(Rebase(p, old, new), new, old) = p
  BY <1>3, <1>4, RebaseBack
<1>7. \A x : x \in DOMAIN R <=> \/ x \in DOMAIN raw_names /\ ~AtOrBelow(x, old)
                                \/ \E p \in DOMAIN raw_names :
                                      AtOrBelow(p, old) /\ p # old /\ x = Rebase(p, old, new)
  BY <1>2, <1>4, <1>5
<1>8. ASSUME NEW p \in DOMAIN raw_names, AtOrBelow(p, old), p # old
      PROVE  R[Rebase(p, old, new)] = raw_names[p]
  <2>1. p \in S /\ Rebase(p, old, new) \in moved /\ p \in DOMAIN below
    BY <1>2, <1>4, <1>8
  <2>2. R[Rebase(p, old, new)] = below[Rebase(Rebase(p, old, new), new, old)]
    BY <2>1
  <2> QED BY <1>2, <1>6, <2>1, <2>2
<1>9. ASSUME NEW x \in DOMAIN raw_names, ~AtOrBelow(x, old),
             \A p \in DOMAIN raw_names : AtOrBelow(p, old) /\ p # old => x # Rebase(p, old, new)
      PROVE  R[x] = raw_names[x]
  <2>1. x \in DOMAIN below \ S /\ x \notin moved
    BY <1>2, <1>4, <1>5, <1>9
  <2>2. R[x] = below[x]
    BY <2>1
  <2> QED BY <1>2, <2>1, <2>2
<1> QED BY <1>1, <1>7, <1>8, <1>9

(* What recording a rename leaves of the raw names.                        *)
LEMMA RenamedFacts ==
    ASSUME RawSpelled, NEW old \in Path, NEW new \in Path, NEW name, NEW raw,
           raw = RecordRawName(RenameRawNames(raw_names, old, new), new, name)
    PROVE  /\ \A x : x \in DOMAIN raw <=>
                \/ x = new /\ Nfc[name] # name
                \/ x # new /\ x \in DOMAIN raw_names /\ ~AtOrBelow(x, old)
                \/ \E p \in DOMAIN raw_names :
                      AtOrBelow(p, old) /\ p # old /\ x = Rebase(p, old, new)
           /\ Nfc[name] # name => raw[new] = name /\ name \notin Names
           /\ \A p \in DOMAIN raw_names : AtOrBelow(p, old) /\ p # old =>
                 raw[Rebase(p, old, new)] = raw_names[p]
           /\ \A x \in DOMAIN raw_names :
                 /\ x # new /\ ~AtOrBelow(x, old)
                 /\ \A p \in DOMAIN raw_names :
                       AtOrBelow(p, old) /\ p # old => x # Rebase(p, old, new)
                 => raw[x] = raw_names[x]
           /\ \A x \in DOMAIN raw_names : ~AtOrBelow(x, old) /\ ~AtOrBelow(x, new) =>
                 raw[x] = raw_names[x]
<1> DEFINE R == RenameRawNames(raw_names, old, new)
<1>1. /\ \A x : x \in DOMAIN R <=> \/ x \in DOMAIN raw_names /\ ~AtOrBelow(x, old)
                                   \/ \E p \in DOMAIN raw_names :
                                      AtOrBelow(p, old) /\ p # old /\ x = Rebase(p, old, new)
      /\ \A p \in DOMAIN raw_names : AtOrBelow(p, old) /\ p # old =>
                 R[Rebase(p, old, new)] = raw_names[p]
      /\ \A x \in DOMAIN raw_names :
                 /\ ~AtOrBelow(x, old)
                 /\ \A p \in DOMAIN raw_names :
                       AtOrBelow(p, old) /\ p # old => x # Rebase(p, old, new)
                 => R[x] = raw_names[x]
  BY RenameFacts
<1>2. \A p \in DOMAIN raw_names : AtOrBelow(p, old) /\ p # old =>
          Rebase(p, old, new) # new /\ AtOrBelow(Rebase(p, old, new), new)
  BY RebaseKeeps, RebaseBack DEF RawSpelled, Entry
<1>3. AtOrBelow(new, new)
  BY BelowOrder
<1> HIDE DEF R
<1>4. raw = RecordRawName(R, new, name)
  BY DEF R
<1>5. /\ \A x : x \in DOMAIN raw <=> \/ x \in DOMAIN R /\ x # new
                                     \/ x = new /\ Nfc[name] # name
      /\ \A x \in DOMAIN R : x # new => raw[x] = R[x]
      /\ Nfc[name] # name => raw[new] = name /\ name \notin Names
  BY <1>4, RecordFacts
<1>6. \A x : x \in DOMAIN raw <=>
                \/ x = new /\ Nfc[name] # name
                \/ x # new /\ x \in DOMAIN raw_names /\ ~AtOrBelow(x, old)
                \/ \E p \in DOMAIN raw_names :
                      AtOrBelow(p, old) /\ p # old /\ x = Rebase(p, old, new)
  BY <1>1, <1>2, <1>5
<1>7. \A p \in DOMAIN raw_names : AtOrBelow(p, old) /\ p # old =>
                 raw[Rebase(p, old, new)] = raw_names[p]
  BY <1>1, <1>2, <1>5
<1>8. ASSUME NEW x \in DOMAIN raw_names, x # new, ~AtOrBelow(x, old),
             \A p \in DOMAIN raw_names : AtOrBelow(p, old) /\ p # old => x # Rebase(p, old, new)
      PROVE  raw[x] = raw_names[x]
  BY <1>1, <1>5, <1>8
<1>9. ASSUME NEW x \in DOMAIN raw_names, ~AtOrBelow(x, old), ~AtOrBelow(x, new)
      PROVE  raw[x] = raw_names[x]
  BY <1>2, <1>3, <1>8, <1>9
<1> QED BY <1>5, <1>6, <1>7, <1>8, <1>9

------------------------------------------------------------------------------
(* What the handlers become.                                               *)
LEMMA OpAdvances ==
    ASSUME SInv, NEW t \in Tasks, Busy(t), NEW s \in {"verb", "record"}, StepTo(t, s)
    PROVE  /\ op' \in [Tasks -> OpRec]
           /\ OpNamed'
           /\ op'[t] = [op[t] EXCEPT !.step = s]
           /\ \A u \in Tasks : u # t => op'[u] = op[u]
<1>1. op \in [Tasks -> OpRec]
  BY DEF SInv, Shapes
<1>2. /\ op'[t] = [op[t] EXCEPT !.step = s]
      /\ \A u \in Tasks : u # t => op'[u] = op[u]
      /\ op' \in [Tasks -> OpRec]
  BY <1>1, ZenonT(30) DEF StepTo, OpRec
<1>3. /\ op'[t].path = op[t].path /\ op'[t].name = op[t].name /\ op'[t].kind = op[t].kind
      /\ op'[t].old = op[t].old /\ op'[t].step = s
  <2>1. op[t] \in OpRec
    BY <1>1
  <2> QED BY <1>2, <2>1 DEF OpRec
<1>4. OpNamed'
  <2> SUFFICES ASSUME NEW u \in Tasks
               PROVE  IF op'[u].step # "idle"
                      THEN /\ op'[u].path # Root
                           /\ op'[u].name \in Spellings
                           /\ Nfc[op'[u].name] = Basename(op'[u].path)
                           /\ op'[u].kind # "none"
                           /\ op'[u].kind = "rename" <=> op'[u].old # Root
                      ELSE op'[u] = Idle
    BY DEF OpNamed, Busy
  <2>1. CASE u = t
    BY <1>3, <2>1 DEF SInv, OpNamed, Busy
  <2>2. CASE u # t
    BY <1>2, <2>2 DEF SInv, OpNamed, Busy
  <2> QED BY <2>1, <2>2
<1> QED BY <1>2, <1>4

LEMMA OpEnds ==
    ASSUME SInv, NEW t \in Tasks, End(t)
    PROVE  /\ op' \in [Tasks -> OpRec]
           /\ OpNamed'
           /\ op'[t] = Idle
           /\ \A u \in Tasks : u # t => op'[u] = op[u]
<1>1. Idle \in OpRec /\ Idle.step = "idle"
  BY PathsArePath DEF Idle, OpRec
<1>2. /\ op'[t] = Idle
      /\ \A u \in Tasks : u # t => op'[u] = op[u]
      /\ op' \in [Tasks -> OpRec]
  BY <1>1 DEF SInv, Shapes, End
<1>3. OpNamed'
  <2> SUFFICES ASSUME NEW u \in Tasks
               PROVE  IF op'[u].step # "idle"
                      THEN /\ op'[u].path # Root
                           /\ op'[u].name \in Spellings
                           /\ Nfc[op'[u].name] = Basename(op'[u].path)
                           /\ op'[u].kind # "none"
                           /\ op'[u].kind = "rename" <=> op'[u].old # Root
                      ELSE op'[u] = Idle
    BY DEF OpNamed, Busy
  <2>1. CASE u = t
    BY <1>1, <1>2, <2>1
  <2>2. CASE u # t
    BY <1>2, <2>2 DEF SInv, OpNamed, Busy
  <2> QED BY <2>1, <2>2
<1> QED BY <1>2, <1>3

LEMMA OpStarts ==
    ASSUME SInv, NEW t \in Tasks, NEW k \in {"create", "mkdir", "unlink", "rmdir", "rename"},
           NEW p \in Paths \ {Root}, NEW n \in Spellings, NEW old \in Paths,
           NEW s \in {"check", "verb"}, Nfc[n] = Basename(p), k = "rename" <=> old # Root,
           Begin(t, k, p, n, old, LocksOf(k, p, old), s)
    PROVE  /\ op' \in [Tasks -> OpRec]
           /\ OpNamed'
           /\ op'[t] = [kind |-> k, step |-> s, path |-> p, name |-> n, old |-> old,
                        dirs |-> LocksOf(k, p, old)]
           /\ \A u \in Tasks : u # t => op'[u] = op[u]
<1> DEFINE o == [kind |-> k, step |-> s, path |-> p, name |-> n, old |-> old,
                 dirs |-> LocksOf(k, p, old)]
<1>1. p \in Entry /\ old \in Path
  BY PathsArePath DEF Entry
<1>2. LocksOf(k, p, old) \subseteq Path
  BY <1>1, ParentFacts DEF LocksOf, Entry
<1>3. o \in OpRec
  BY <1>1, <1>2 DEF OpRec, Entry
<1>4. op' = [op EXCEPT ![t] = o]
  BY DEF Begin
<1>5. /\ o.path = p /\ o.name = n /\ o.kind = k /\ o.old = old /\ o.step = s
  OBVIOUS
<1> HIDE DEF o
<1>6. /\ op'[t] = o
      /\ \A u \in Tasks : u # t => op'[u] = op[u]
      /\ op' \in [Tasks -> OpRec]
  BY <1>3, <1>4 DEF SInv, Shapes
<1>7. OpNamed'
  <2> SUFFICES ASSUME NEW u \in Tasks
               PROVE  IF op'[u].step # "idle"
                      THEN /\ op'[u].path # Root
                           /\ op'[u].name \in Spellings
                           /\ Nfc[op'[u].name] = Basename(op'[u].path)
                           /\ op'[u].kind # "none"
                           /\ op'[u].kind = "rename" <=> op'[u].old # Root
                      ELSE op'[u] = Idle
    BY DEF OpNamed, Busy
  <2>1. CASE u = t
    BY <1>5, <1>6, <2>1
  <2>2. CASE u # t
    BY <1>6, <2>2 DEF SInv, OpNamed, Busy
  <2> QED BY <2>1, <2>2
<1> QED BY <1>6, <1>7 DEF o

(* Recording a rename takes the locks of the handlers below along.         *)
Follows(S, old, new) ==
    (S \ Within(S, old)) \cup {Rebase(p, old, new) : p \in Within(S, old)}

LEMMA OpFollows ==
    ASSUME SInv, NEW t \in Tasks, RecordRename(t)
    PROVE  /\ op' \in [Tasks -> OpRec]
           /\ OpNamed'
           /\ op'[t] = Idle
           /\ \A u \in Tasks : u # t =>
                 op'[u] = [op[u] EXCEPT !.dirs = Follows(@, op[t].old, op[t].path)]
<1>1. op' = [u \in Tasks |-> IF u = t THEN Idle
                             ELSE [op[u] EXCEPT !.dirs = Follows(@, op[t].old, op[t].path)]]
  BY DEF RecordRename, Follows
<1>2. Idle \in OpRec /\ Idle.step = "idle"
  BY PathsArePath DEF Idle, OpRec
<1>3. op \in [Tasks -> OpRec] /\ op[t].old \in Path /\ op[t].path \in Path
  BY DEF SInv, Shapes, OpRec
<1>4. \A S \in SUBSET Path : Follows(S, op[t].old, op[t].path) \in SUBSET Path
  BY <1>3, RebaseParts DEF Follows, Within
<1>5. /\ op'[t] = Idle
      /\ \A u \in Tasks : u # t =>
                 op'[u] = [op[u] EXCEPT !.dirs = Follows(@, op[t].old, op[t].path)]
  BY <1>1
<1>6. op' \in [Tasks -> OpRec]
  <2> SUFFICES ASSUME NEW u \in Tasks, u # t
               PROVE  [op[u] EXCEPT !.dirs = Follows(@, op[t].old, op[t].path)] \in OpRec
    BY <1>1, <1>2
  <2>1. op[u] \in OpRec /\ op[u].dirs \in SUBSET Path
    BY <1>3 DEF OpRec
  <2>2. Follows(op[u].dirs, op[t].old, op[t].path) \in SUBSET Path
    BY <1>4, <2>1
  <2> QED BY <2>1, <2>2 DEF OpRec
<1>7. OpNamed'
  <2> SUFFICES ASSUME NEW u \in Tasks
               PROVE  IF op'[u].step # "idle"
                      THEN /\ op'[u].path # Root
                           /\ op'[u].name \in Spellings
                           /\ Nfc[op'[u].name] = Basename(op'[u].path)
                           /\ op'[u].kind # "none"
                           /\ op'[u].kind = "rename" <=> op'[u].old # Root
                      ELSE op'[u] = Idle
    BY DEF OpNamed, Busy
  <2>1. CASE u = t
    BY <1>2, <1>5, <2>1
  <2>2. CASE u # t
    <3>1. /\ op'[u].path = op[u].path /\ op'[u].name = op[u].name
          /\ op'[u].kind = op[u].kind /\ op'[u].old = op[u].old /\ op'[u].step = op[u].step
      <4>1. op[u] \in OpRec
        BY <1>3
      <4>2. op'[u] = [op[u] EXCEPT !.dirs = Follows(@, op[t].old, op[t].path)]
        BY <1>5, <2>2
      <4> QED BY <4>1, <4>2 DEF OpRec
    <3>2. CASE Busy(u)
      BY <3>1, <3>2 DEF SInv, OpNamed, Busy
    <3>3. CASE ~Busy(u)
      <4>a. op[u] = Idle
        BY <3>3 DEF SInv, OpNamed
      <4>b. Idle.dirs = {}
        BY DEF Idle
      <4>1. op[u] = Idle /\ op[u].dirs = {}
        BY <4>a, <4>b
      <4>2. Follows({}, op[t].old, op[t].path) = {}
        BY DEF Follows, Within
      <4>3. op'[u] = [Idle EXCEPT !.dirs = {}]
        BY <1>5, <2>2, <4>1, <4>2
      <4>4. op'[u] = Idle
        BY <4>3 DEF Idle
      <4> QED BY <1>2, <4>4
    <3> QED BY <3>2, <3>3
  <2> QED BY <2>1, <2>2
<1> QED BY <1>5, <1>6, <1>7

------------------------------------------------------------------------------
(* Every step keeps the shapes, whatever the windows.                      *)
LEMMA ShapeStep ==
    ASSUME SInv, [Next]_vars
    PROVE  SInv'
<1>r. \A t \in Tasks : /\ op[t].path \in Path /\ op[t].old \in Path
                       /\ Busy(t) => op[t].path \in Entry /\ op[t].name \in Spellings
                                     /\ Nfc[op[t].name] = Basename(op[t].path)
                       /\ Idle.step = "idle"
  BY DEF SInv, Shapes, OpNamed, OpRec, Entry, Idle
<1>1. ASSUME NEW t \in Tasks, Start(t) PROVE SInv'
  <2>1. PICK k \in {"create", "mkdir", "unlink", "rmdir", "rename"}, p \in Paths \ {Root},
             n \in Spellings, old \in Paths, s \in {"check", "verb"} :
                /\ Nfc[n] = Basename(p)
                /\ k = "rename" <=> old # Root
                /\ Begin(t, k, p, n, old, LocksOf(k, p, old), s)
    BY <1>1 DEF Start
  <2>2. op' \in [Tasks -> OpRec] /\ OpNamed'
    BY <2>1, OpStarts
  <2>3. UNCHANGED <<tree, raw_names, cached, astray, remote>> /\ ops' = ops + 1
    BY <2>1 DEF Begin
  <2> QED BY <2>2, <2>3 DEF SInv, Shapes, RawSpelled, Entries
<1>2. ASSUME NEW t \in Tasks, Check(t) PROVE SInv'
  <2>1. Busy(t) /\ (End(t) \/ StepTo(t, "verb")) /\ UNCHANGED <<tree, raw_names, astray, ops, remote>>
    BY <1>2 DEF Check, Busy
  <2>2. op' \in [Tasks -> OpRec] /\ OpNamed'
    BY <2>1, OpAdvances, OpEnds
  <2>3. cached' \subseteq Path
    <3>1. cached' = cached \/ cached' = cached \cup Children(Parent(op[t].path))
      BY <1>2 DEF Check
    <3> QED BY <3>1 DEF SInv, Shapes, Children, Entry
  <2> QED BY <2>1, <2>2, <2>3 DEF SInv, Shapes, RawSpelled, Entries
<1>3. ASSUME NEW t \in Tasks, Verb(t) PROVE SInv'
  <2>1. /\ Busy(t) /\ Accepts(op[t]) /\ tree' = Effect(op[t])
        /\ StepTo(t, "record") /\ UNCHANGED <<raw_names, cached, astray, ops, remote>>
    BY <1>3 DEF Verb, Busy
  <2>2. op' \in [Tasks -> OpRec] /\ OpNamed'
    BY <2>1, OpAdvances
  <2>3. /\ Entries' \subseteq Entry
        /\ \A p \in Entries' : tree'[p] \in [folder : BOOLEAN, as : Spellings]
    BY <1>r, <2>1, EffectShapes
  <2> QED BY <2>1, <2>2, <2>3 DEF SInv, Shapes, RawSpelled
<1>4. ASSUME NEW t \in Tasks, VerbRefused(t) PROVE SInv'
  <2>1. /\ op' \in [Tasks -> OpRec] /\ OpNamed'
        /\ UNCHANGED <<tree, raw_names, cached, astray, ops, remote>>
    BY <1>4, OpEnds DEF VerbRefused
  <2> QED BY <2>1 DEF SInv, Shapes, RawSpelled, Entries
<1>5. ASSUME NEW t \in Tasks, VerbLost(t) PROVE SInv'
  <2>1. /\ Busy(t) /\ Accepts(op[t]) /\ tree' = Effect(op[t])
        /\ End(t) /\ UNCHANGED <<raw_names, cached, ops, remote>>
        /\ astray' = astray \cup {p \in Paths : Concerns(op[t], p)}
    BY <1>5 DEF VerbLost, Busy
  <2>2. op' \in [Tasks -> OpRec] /\ OpNamed'
    BY <2>1, OpEnds
  <2>3. /\ Entries' \subseteq Entry
        /\ \A p \in Entries' : tree'[p] \in [folder : BOOLEAN, as : Spellings]
    BY <2>1, EffectShapes
  <2>4. astray' \subseteq Path
    BY <2>1, PathsArePath DEF SInv, Shapes
  <2> QED BY <2>1, <2>2, <2>3, <2>4 DEF SInv, Shapes, RawSpelled
<1>6. ASSUME NEW t \in Tasks, RecordMake(t) PROVE SInv'
  <2>1. /\ Busy(t) /\ End(t) /\ cached' = cached \cup {op[t].path}
        /\ raw_names' = RecordRawName(raw_names, op[t].path, op[t].name)
        /\ astray' \subseteq astray /\ UNCHANGED <<tree, ops, remote>>
    BY <1>6 DEF RecordMake, Busy
  <2>2. op' \in [Tasks -> OpRec] /\ OpNamed'
    BY <2>1, OpEnds
  <2>3. RawSpelled'
    BY <1>r, <2>1, RecordFacts DEF SInv, RawSpelled
  <2> QED BY <1>r, <2>1, <2>2, <2>3 DEF SInv, Shapes, Entries
<1>7. ASSUME NEW t \in Tasks, CreateFails(t) PROVE SInv'
  <2>1. /\ End(t) /\ UNCHANGED <<tree, raw_names, cached, ops, remote>>
        /\ astray' = astray \cup {op[t].path}
    BY <1>7 DEF CreateFails
  <2>2. op' \in [Tasks -> OpRec] /\ OpNamed'
    BY <2>1, OpEnds
  <2> QED BY <1>r, <2>1, <2>2 DEF SInv, Shapes, RawSpelled, Entries
<1>8. ASSUME NEW t \in Tasks, RecordRemove(t) PROVE SInv'
  <2>1. /\ End(t) /\ cached' = cached \ {op[t].path}
        /\ raw_names' = ForgetRawNames(raw_names, op[t].path)
        /\ astray' \subseteq astray /\ UNCHANGED <<tree, ops, remote>>
    BY <1>8 DEF RecordRemove
  <2>2. op' \in [Tasks -> OpRec] /\ OpNamed'
    BY <2>1, OpEnds
  <2>3. RawSpelled'
    BY <2>1, ForgetFacts DEF SInv, RawSpelled
  <2> QED BY <2>1, <2>2, <2>3 DEF SInv, Shapes, Entries
<1>9. ASSUME NEW t \in Tasks, RecordRename(t) PROVE SInv'
  <2> DEFINE old == op[t].old
             new == op[t].path
  <2>1. /\ Busy(t) /\ astray' = Follows(astray, old, new) \ {new}
        /\ cached' = Follows(cached \ Within(cached, new), old, new)
        /\ raw_names' = RecordRawName(RenameRawNames(raw_names, old, new), new, op[t].name)
        /\ UNCHANGED <<tree, ops, remote>>
    BY <1>9 DEF RecordRename, Busy, Follows
  <2>2. op' \in [Tasks -> OpRec] /\ OpNamed'
    BY <1>9, OpFollows
  <2>3. RawSpelled'
    <3>0. RawSpelled /\ old \in Path /\ new \in Path
      BY <1>r DEF SInv
    <3>1. /\ \A x : x \in DOMAIN raw_names' <=>
                \/ x = new /\ Nfc[op[t].name] # op[t].name
                \/ x # new /\ x \in DOMAIN raw_names /\ ~AtOrBelow(x, old)
                \/ \E p \in DOMAIN raw_names :
                      AtOrBelow(p, old) /\ p # old /\ x = Rebase(p, old, new)
          /\ Nfc[op[t].name] # op[t].name =>
                raw_names'[new] = op[t].name /\ op[t].name \notin Names
          /\ \A p \in DOMAIN raw_names : AtOrBelow(p, old) /\ p # old =>
                 raw_names'[Rebase(p, old, new)] = raw_names[p]
          /\ \A x \in DOMAIN raw_names :
                 /\ x # new /\ ~AtOrBelow(x, old)
                 /\ \A p \in DOMAIN raw_names :
                       AtOrBelow(p, old) /\ p # old => x # Rebase(p, old, new)
                 => raw_names'[x] = raw_names[x]
      <4> HIDE DEF old, new
      <4> QED BY <2>1, <3>0, RenamedFacts
    <3>2. ASSUME NEW p \in DOMAIN raw_names, AtOrBelow(p, old), p # old
          PROVE  Rebase(p, old, new) \in Entry /\ Basename(Rebase(p, old, new)) = Basename(p)
      <4>1. p \in Path /\ new \in Entry
        BY <1>r, <2>1 DEF SInv, RawSpelled, Entry
      <4>2. /\ Rebase(p, old, new) \in Path /\ AtOrBelow(Rebase(p, old, new), new)
            /\ Basename(Rebase(p, old, new)) = Basename(p)
        <5> HIDE DEF old, new
        <5>1. Rebase(p, old, new) \in Path
          BY <3>0, <3>2, <4>1, RebaseParts
        <5>2. AtOrBelow(Rebase(p, old, new), new)
          BY <3>0, <3>2, <4>1, RebaseBack
        <5>3. Basename(Rebase(p, old, new)) = Basename(p)
          BY <3>0, <3>2, <4>1, RebaseKeeps
        <5> QED BY <5>1, <5>2, <5>3
      <4> QED BY <4>1, <4>2, BelowOrder DEF Entry
    <3>3. new \in Entry /\ op[t].name \in Spellings /\ Nfc[op[t].name] = Basename(new)
      BY <1>r, <2>1
    <3>4. \A x \in DOMAIN raw_names :
              x \in Entry /\ raw_names[x] \in Spellings \ Names /\ Nfc[raw_names[x]] = Basename(x)
      BY DEF SInv, RawSpelled
    <3> HIDE DEF old, new
    <3> SUFFICES ASSUME NEW x \in DOMAIN raw_names'
                 PROVE  /\ x \in Entry /\ raw_names'[x] \in Spellings \ Names
                        /\ Nfc[raw_names'[x]] = Basename(x)
      BY DEF RawSpelled
    <3>5. CASE x = new /\ Nfc[op[t].name] # op[t].name
      BY <3>1, <3>3, <3>5
    <3>6. CASE \E p \in DOMAIN raw_names : AtOrBelow(p, old) /\ p # old /\ x = Rebase(p, old, new)
      BY <3>1, <3>2, <3>4, <3>6
    <3>7. CASE /\ x # new /\ x \in DOMAIN raw_names /\ ~AtOrBelow(x, old)
               /\ ~\E p \in DOMAIN raw_names :
                       AtOrBelow(p, old) /\ p # old /\ x = Rebase(p, old, new)
      BY <3>1, <3>4, <3>7
    <3> QED BY <3>1, <3>5, <3>6, <3>7
  <2>4. cached' \subseteq Path /\ astray' \subseteq Path
    <3>1. old \in Path /\ new \in Path
      BY <1>r
    <3> HIDE DEF old, new
    <3>2. \A S \in SUBSET Path : Follows(S, old, new) \subseteq Path
      BY <3>1, RebaseParts DEF Follows, Within
    <3> QED BY <2>1, <3>2 DEF SInv, Shapes
  <2> QED BY <2>1, <2>2, <2>3, <2>4 DEF SInv, Shapes, Entries
<1>10. ASSUME NEW p \in Paths, List(p) \/ Invalidate(p) PROVE SInv'
  <2>1. UNCHANGED <<tree, raw_names, op, astray, ops, remote>> /\ cached' \subseteq Path
    BY <1>10 DEF List, Invalidate, SInv, Shapes, Children, Entry
  <2> QED BY <2>1 DEF SInv, Shapes, RawSpelled, OpNamed, Busy, Entries
<1>11. ASSUME NEW p \in Paths \ {Root}, RemoteRemove(p) PROVE SInv'
  <2>1. /\ UNCHANGED <<raw_names, cached, op, ops>> /\ remote' = remote + 1
        /\ Entries' \subseteq Entries /\ \A q \in Entries' : tree'[q] = tree[q]
        /\ astray' \subseteq astray \cup DOMAIN raw_names
    BY <1>11 DEF RemoteRemove, Without, Within, Entries
  <2> QED BY <2>1 DEF SInv, Shapes, RawSpelled, OpNamed, Busy, Entry
<1>12. ASSUME NEW p \in Paths \ {Root}, NEW b \in BOOLEAN, RemoteCreate(p, b) PROVE SInv'
  <2>1. p \in Entry
    BY PathsArePath DEF Entry
  <2>2. Basename(p) \in Spellings
    BY <2>1, ParentFacts, NamespaceAssumption
  <2>3. /\ UNCHANGED <<raw_names, cached, op, astray, ops>> /\ remote' = remote + 1
        /\ Entries' = Entries \cup {p} /\ tree'[p] = [folder |-> b, as |-> Basename(p)]
        /\ \A q \in Entries \ {p} : tree'[q] = tree[q]
    BY <1>12 DEF RemoteCreate, Put, Entries
  <2>4. [folder |-> b, as |-> Basename(p)] \in [folder : BOOLEAN, as : Spellings]
    BY <2>2
  <2> QED BY <2>1, <2>3, <2>4 DEF SInv, Shapes, RawSpelled, OpNamed, Busy
<1>13. ASSUME UNCHANGED vars PROVE SInv'
  BY <1>13 DEF SInv, Shapes, RawSpelled, OpNamed, Busy, Entries, vars
<1> QED BY StepKinds, <1>1, <1>2, <1>3, <1>4, <1>5, <1>6, <1>7, <1>8, <1>9, <1>10, <1>11,
           <1>12, <1>13, Zenon

LEMMA ShapesHold == Spec => []SInv
<1>1. SInv /\ [Next]_vars => SInv'
  BY ShapeStep
<1> QED BY InitShapes, <1>1, PTL DEF Spec

(* A name that readdir shows can be looked up, and no other spelling of it *)
(* resolves to the entry, whichever windows are open: lookup, readdir and  *)
(* the raw names that create, mkdir and rename record agree.               *)
THEOREM ListedNamesResolve == Spec => []ListedResolves
<1>1. SInv => ListedResolves
  <2> SUFFICES ASSUME SInv, NEW p \in Entries, NEW name \in Spellings
               PROVE  Lookup(Parent(p), name) = p <=> name = VisibleName(p)
    BY DEF ListedResolves
  <2>1. p \in Entry /\ p # Root
    BY DEF SInv, Shapes, Entry
  <2>2. /\ Parent(p) \in Path /\ Append(Parent(p), Basename(p)) = p
        /\ Nfc[VisibleName(p)] = Basename(p)
    BY <2>1, ParentFacts, VisibleSpelling
  <2>3. ASSUME name = VisibleName(p) PROVE Lookup(Parent(p), name) = p
    <3>1. ChildPath(Parent(p), name) = p
      BY <2>2, <2>3 DEF ChildPath
    <3> QED BY <2>3, <3>1 DEF Lookup
  <2>4. ASSUME Lookup(Parent(p), name) = p PROVE name = VisibleName(p)
    BY <2>1, <2>4 DEF Lookup
  <2> QED BY <2>3, <2>4
<1> QED BY ShapesHold, <1>1, PTL

------------------------------------------------------------------------------
(* With every window closed.  First what is at rest: what two handlers at  *)
(* work at one time may not share.                                         *)
LEMMA Initially == Init => GInv
<1> SUFFICES ASSUME Init PROVE GInv
  OBVIOUS
<1>1. Entries = {} /\ DOMAIN raw_names = {} /\ cached = {} /\ \A t \in Tasks : op[t] = Idle
  BY DEF Init, Entries
<1>2. /\ Idle.step = "idle" /\ Idle.path = Root /\ Idle.old = Root /\ Idle.dirs = {}
  BY DEF Idle
<1>3. \A t \in Tasks : ~Busy(t) /\ ~Making(t) /\ ~Moving(t) /\ ~Removing(t) /\ op[t].step = "idle"
  BY <1>1, <1>2 DEF Busy, Making, Moving, Removing
<1>4. Locked /\ Alone
  BY <1>1, <1>2, <1>3 DEF Locked, Alone
<1>5. Bounded
  BY <1>1, <1>2, PathsArePath DEF Bounded
<1>6. Closed /\ RawLive /\ Named
  BY <1>1 DEF Closed, RawLive, Named
<1>7. \A t \in Tasks : TaskInv(t)
  BY <1>3 DEF TaskInv, Grounded, Gone, Made, Apart, RawClear, NamedBelow, Vacant
<1> QED BY <1>4, <1>5, <1>6, <1>7 DEF GInv

(* The paths of a handler.                                                 *)
LEMMA OpPaths ==
    ASSUME SInv, NEW t \in Tasks, Busy(t)
    PROVE  /\ op[t].path \in Entry /\ op[t].path \in Path /\ op[t].old \in Path
           /\ Parent(op[t].path) \in Path
           /\ op[t].kind = "rename" => op[t].old \in Entry /\ Parent(op[t].old) \in Path
           /\ op[t].kind # "rename" => op[t].old = Root
           /\ op[t].kind \in {"create", "mkdir", "unlink", "rmdir", "rename"}
<1>1. op[t] \in OpRec
  BY DEF SInv, Shapes
<1>2. op[t].path \in Entry /\ op[t].path \in Path /\ op[t].old \in Path
      /\ (op[t].kind = "rename" => op[t].old \in Entry)
      /\ (op[t].kind # "rename" => op[t].old = Root)
      /\ op[t].kind \in {"create", "mkdir", "unlink", "rmdir", "rename"}
  BY <1>1 DEF SInv, OpNamed, OpRec, Entry
<1> QED BY <1>2, ParentFacts

(* What is above an entry, or above what a handler works on, is an entry.  *)
LEMMA AboveEntry ==
    ASSUME SInv, Closed, NEW p \in Entries, NEW q \in Entry, AtOrBelow(p, q)
    PROVE  q \in Entries /\ (p # q => tree[q].folder)
<1>1. q \in Path /\ q # Root
  BY DEF Entry
<1> QED BY <1>1 DEF Closed, IsFolder

LEMMA AboveFolder ==
    ASSUME SInv, Closed, NEW p \in Path, IsFolder(p), NEW q \in Entry, AtOrBelow(p, q)
    PROVE  q \in Entries /\ tree[q].folder
<1>1. p # Root
  BY BelowOrder
<1>2. p \in Entries /\ tree[p].folder
  BY <1>1 DEF IsFolder
<1> QED BY <1>2, AboveEntry

LEMMA AboveWork ==
    ASSUME IInv, NEW t \in Tasks, Busy(t), NEW q \in Entry
    PROVE  /\ AtOrBelow(op[t].path, q) /\ q # op[t].path => q \in Entries /\ tree[q].folder
           /\ /\ op[t].kind = "rename" /\ AtOrBelow(op[t].old, q) /\ q # op[t].old
              => q \in Entries /\ tree[q].folder
<1>0. /\ op[t].path \in Entry /\ Parent(op[t].path) \in Path /\ IsFolder(Parent(op[t].path))
      /\ op[t].kind = "rename" => /\ op[t].old \in Entry /\ Parent(op[t].old) \in Path
                                  /\ IsFolder(Parent(op[t].old))
  BY OpPaths DEF IInv, GInv, TaskInv, Grounded
<1>1. q \in Path
  BY DEF Entry
<1>2. ASSUME AtOrBelow(op[t].path, q), q # op[t].path PROVE q \in Entries /\ tree[q].folder
  <2>1. AtOrBelow(Parent(op[t].path), q)
    BY <1>0, <1>1, <1>2, ParentFacts
  <2> QED BY <1>0, <2>1, AboveFolder DEF IInv, GInv
<1>3. ASSUME op[t].kind = "rename", AtOrBelow(op[t].old, q), q # op[t].old
      PROVE  q \in Entries /\ tree[q].folder
  <2>1. AtOrBelow(Parent(op[t].old), q)
    BY <1>0, <1>1, <1>3, ParentFacts
  <2> QED BY <1>0, <1>3, <2>1, AboveFolder DEF IInv, GInv
<1> QED BY <1>2, <1>3

(* Two handlers are not at work on one path.                               *)
LEMMA OtherPaths ==
    ASSUME IInv, NEW t \in Tasks, NEW u \in Tasks, t # u, Busy(t), Busy(u)
    PROVE  /\ op[t].path # op[u].path
           /\ op[u].kind = "rename" => op[t].path # op[u].old
           /\ op[t].kind = "rename" => op[t].old # op[u].path
           /\ op[t].kind = "rename" /\ op[u].kind = "rename" => op[t].old # op[u].old
           /\ op[t].kind = "rmdir" => op[t].path # Parent(op[u].path)
           /\ op[t].kind = "rmdir" /\ op[u].kind = "rename" => op[t].path # Parent(op[u].old)
BY DEF IInv, GInv, Locked, LocksOf

(* Where the names and the entries are that a handler relies on, and the   *)
(* directories of its paths.                                               *)
Zone(x, u) ==
    \/ x = op[u].path
    \/ Moving(u) /\ (AtOrBelow(x, op[u].path) \/ AtOrBelow(x, op[u].old))

Dir(x, u) ==
    \/ x = Parent(op[u].path)
    \/ op[u].kind = "rename" /\ x = Parent(op[u].old)

SameEntry(x) == /\ x \in Entries' <=> x \in Entries
                /\ x \in Entries => tree'[x] = tree[x]

SameName(x) == /\ x \in DOMAIN raw_names' <=> x \in DOMAIN raw_names
               /\ x \in DOMAIN raw_names => raw_names'[x] = raw_names[x]

StaysAstray(x) == x \in astray => x \in astray'

SameWork(u) == /\ op'[u].kind = op[u].kind /\ op'[u].step = op[u].step
               /\ op'[u].path = op[u].path /\ op'[u].old = op[u].old
               /\ op'[u].name = op[u].name

(* What stays as it is where a handler is at work, stays right for it.     *)
LEMMA TaskFrame ==
    ASSUME IInv, SInv', NEW u \in Tasks, SameWork(u),
           \A x \in Path : Busy(u) /\ Zone(x, u) =>
               SameEntry(x) /\ SameName(x) /\ StaysAstray(x),
           \A x \in Path : Busy(u) /\ Dir(x, u) /\ IsFolder(x) => IsFolder(x)'
    PROVE  TaskInv(u)'
<1> USE DEF SameWork, SameEntry, SameName, StaysAstray
<1>0. /\ Busy(u)' <=> Busy(u)
      /\ Making(u)' <=> Making(u)
      /\ Moving(u)' <=> Moving(u)
      /\ Removing(u)' <=> Removing(u)
  BY DEF Busy, Making, Moving, Removing
<1>1. CASE ~Busy(u)
  BY <1>0, <1>1 DEF TaskInv, Grounded, Gone, Made, Apart, RawClear, NamedBelow, Vacant, Busy,
     Making, Moving, Removing
<1>2. CASE Busy(u)
  <2>1. /\ op[u].path \in Entry /\ op[u].path \in Path /\ op[u].old \in Path
        /\ Parent(op[u].path) \in Path
        /\ op[u].kind = "rename" => Parent(op[u].old) \in Path
    BY <1>2, OpPaths DEF IInv
  <2>2. TaskInv(u)
    BY DEF IInv, GInv
  <2>3. Grounded(u)'
    BY <1>2, <1>0, <2>1, <2>2 DEF TaskInv, Grounded, Dir
  <2>4. /\ \A p \in Entries' : p \in Path
        /\ \A p \in DOMAIN raw_names' : p \in Path
    BY DEF SInv, Shapes, RawSpelled, Entry
  <2>5. Gone(u)'
    BY <1>2, <1>0, <2>1, <2>2, <2>4 DEF TaskInv, Gone, Zone
  <2>6. Made(u)'
    BY <1>2, <1>0, <2>1, <2>2 DEF TaskInv, Made, Zone
  <2>7. Apart(u)'
    BY <1>0, <2>2 DEF TaskInv, Apart
  <2>8. RawClear(u)'
    BY <1>2, <1>0, <2>2, <2>4 DEF TaskInv, RawClear, Zone
  <2>9. \A x \in Path : Zone(x, u) => VisibleName(x)' = VisibleName(x)
    BY <1>2 DEF VisibleName
  <2>10. NamedBelow(u)'
    <3> SUFFICES ASSUME Moving(u), NEW p \in Entries', AtOrBelow(p, op[u].path), p # op[u].path
                 PROVE  \/ VisibleName(Rebase(p, op[u].path, op[u].old))' = tree'[p].as
                        \/ Rebase(p, op[u].path, op[u].old) \in astray'
      BY <1>0 DEF NamedBelow
    <3>1. p \in Path /\ p \in Entries /\ tree'[p] = tree[p]
      BY <1>2, <2>4 DEF Zone
    <3>2. /\ Rebase(p, op[u].path, op[u].old) \in Path
          /\ AtOrBelow(Rebase(p, op[u].path, op[u].old), op[u].old)
      BY <2>1, <3>1, RebaseParts, RebaseBack
    <3>3. VisibleName(Rebase(p, op[u].path, op[u].old))'
             = VisibleName(Rebase(p, op[u].path, op[u].old))
      BY <2>9, <3>2 DEF Zone
    <3>4. StaysAstray(Rebase(p, op[u].path, op[u].old))
      BY <1>2, <3>2 DEF Zone
    <3> QED BY <2>2, <3>1, <3>3, <3>4 DEF TaskInv, NamedBelow
  <2>11. Vacant(u)'
    BY <1>2, <1>0, <2>1, <2>2, <2>9 DEF TaskInv, Vacant, Zone
  <2> QED BY <2>3, <2>5, <2>6, <2>7, <2>8, <2>10, <2>11 DEF TaskInv
<1> QED BY <1>1, <1>2

------------------------------------------------------------------------------
(* A handler's step leaves the zones of the others alone.                  *)
LEMMA NotAbove ==
    ASSUME IInv, NEW u \in Tasks, Busy(u), NEW z \in Entry, z \notin Entries
    PROVE  /\ z # op[u].path => ~AtOrBelow(op[u].path, z)
           /\ op[u].kind = "rename" /\ z # op[u].old => ~AtOrBelow(op[u].old, z)
BY AboveWork

(* Of two paths above x one is above the other.                            *)
LEMMA ZoneApart ==
    ASSUME IInv, NEW u \in Tasks, Busy(u), NEW z \in Path,
           ~AtOrBelow(op[u].path, z), op[u].kind = "rename" => ~AtOrBelow(op[u].old, z),
           Moving(u) => ~AtOrBelow(z, op[u].path) /\ ~AtOrBelow(z, op[u].old)
    PROVE  /\ \A x \in Path : Zone(x, u) => ~AtOrBelow(x, z)
           /\ \A x \in Path : Dir(x, u) => ~AtOrBelow(x, z)
<1>1. /\ op[u].path \in Entry /\ op[u].path \in Path /\ op[u].old \in Path
      /\ Parent(op[u].path) \in Path /\ AtOrBelow(op[u].path, Parent(op[u].path))
      /\ op[u].kind = "rename" => /\ op[u].old \in Entry /\ Parent(op[u].old) \in Path
                                  /\ AtOrBelow(op[u].old, Parent(op[u].old))
  BY OpPaths, ParentFacts DEF IInv
<1>2. ASSUME NEW x \in Path, Zone(x, u), AtOrBelow(x, z) PROVE FALSE
  <2>1. CASE x = op[u].path
    BY <1>2, <2>1
  <2>2. CASE Moving(u) /\ AtOrBelow(x, op[u].path)
    <3>1. AtOrBelow(op[u].path, z) \/ AtOrBelow(z, op[u].path)
      BY <1>1, <1>2, <2>2, BelowOrder
    <3> QED BY <2>2, <3>1
  <2>3. CASE Moving(u) /\ AtOrBelow(x, op[u].old)
    <3>1. AtOrBelow(op[u].old, z) \/ AtOrBelow(z, op[u].old)
      BY <1>1, <1>2, <2>3, BelowOrder
    <3> QED BY <2>3, <3>1 DEF Moving
  <2> QED BY <1>2, <2>1, <2>2, <2>3 DEF Zone
<1>3. ASSUME NEW x \in Path, Dir(x, u), AtOrBelow(x, z) PROVE FALSE
  BY <1>1, <1>3, BelowOrder DEF Dir
<1> QED BY <1>2, <1>3

(* The engine's verb.                                                      *)
LEMMA VerbApart ==
    ASSUME IInv, Gaps = {}, NEW t \in Tasks, op[t].step = "verb", Accepts(op[t]), Inside(t),
           NEW u \in Tasks, u # t, Busy(u), NEW x \in Path, Zone(x, u) \/ Dir(x, u)
    PROVE  IF op[t].kind = "rename"
           THEN ~AtOrBelow(x, op[t].old) /\ ~AtOrBelow(x, op[t].path)
           ELSE x # op[t].path
<1>0. Busy(t)
  BY DEF Busy
<1>1. /\ op[t].path \in Entry /\ op[t].path \in Path /\ op[t].old \in Path /\ op[t].path # Root
      /\ op[t].kind = "rename" => op[t].old \in Entry
      /\ op[t].kind \in {"create", "mkdir", "unlink", "rmdir", "rename"}
  BY <1>0, OpPaths DEF IInv, Entry
<1>2. /\ op[u].path \in Entry /\ op[u].old \in Path
      /\ op[u].kind # "rename" => op[u].old = Root
  BY OpPaths DEF IInv
<1>3. Moving(u) => /\ ~AtOrBelow(op[t].path, op[u].path) /\ ~AtOrBelow(op[t].path, op[u].old)
                   /\ ~AtOrBelow(op[t].old, op[u].path) /\ ~AtOrBelow(op[t].old, op[u].old)
  BY <1>0 DEF IInv, GInv, Alone
<1>4. CASE op[t].kind = "rename"
  <2>1. op[t].path \notin Entries
    BY <1>4 DEF Accepts
  <2>2. op[u] # Idle
    <3>1. Idle.step = "idle"
      BY DEF Idle
    <3> QED BY <3>1 DEF Busy
  <2>3. ~AtOrBelow(op[u].path, op[t].old) /\ ~AtOrBelow(op[u].old, op[t].old)
    BY <1>4, <2>2 DEF Inside, Within
  <2>4. op[u].path # op[t].path /\ (op[u].kind = "rename" => op[u].old # op[t].path)
    BY <1>0, OtherPaths
  <2>5. /\ ~AtOrBelow(op[u].path, op[t].path)
        /\ op[u].kind = "rename" => ~AtOrBelow(op[u].old, op[t].path)
    BY <1>1, <2>1, <2>4, NotAbove
  <2>6. ~AtOrBelow(x, op[t].old)
    BY <1>1, <1>3, <2>3, ZoneApart
  <2>7. ~AtOrBelow(x, op[t].path)
    BY <1>1, <1>3, <2>5, ZoneApart
  <2> QED BY <1>4, <2>6, <2>7
<1>5. CASE op[t].kind # "rename"
  <2>1. CASE Zone(x, u)
    <3>1. op[u].path # op[t].path
      BY <1>0, OtherPaths
    <3> QED BY <1>3, <1>5, <2>1, <3>1 DEF Zone
  <2>2. CASE Dir(x, u)
    <3>1. IsFolder(x)
      BY <2>2 DEF Dir, IInv, GInv, TaskInv, Grounded
    <3>2. CASE op[t].kind = "rmdir"
      BY <1>0, <1>5, <2>2, <3>2, OtherPaths DEF Dir
    <3>3. CASE op[t].kind \in {"create", "mkdir", "unlink"}
      BY <1>1, <1>5, <3>1, <3>3 DEF Accepts, IsFolder
    <3> QED BY <1>1, <1>5, <3>2, <3>3
  <2> QED BY <2>1, <2>2
<1> QED BY <1>4, <1>5

(* What a handler records after the reply.                                 *)
LEMMA RecordApart ==
    ASSUME IInv, NEW t \in Tasks, op[t].step = "record",
           NEW u \in Tasks, u # t, Busy(u), NEW x \in Path, Zone(x, u)
    PROVE  /\ Making(t) => x # op[t].path
           /\ Removing(t) => ~AtOrBelow(x, op[t].path)
           /\ Moving(t) => ~AtOrBelow(x, op[t].path) /\ ~AtOrBelow(x, op[t].old)
<1>0. Busy(t)
  BY DEF Busy
<1>1. op[t].path \in Entry /\ op[t].path \in Path /\ op[t].old \in Path
  BY <1>0, OpPaths DEF IInv
<1>2. Moving(u) => /\ ~AtOrBelow(op[t].path, op[u].path) /\ ~AtOrBelow(op[t].path, op[u].old)
                   /\ ~AtOrBelow(op[t].old, op[u].path) /\ ~AtOrBelow(op[t].old, op[u].old)
  BY <1>0 DEF IInv, GInv, Alone
<1>3. op[u].path # op[t].path /\ (op[u].kind = "rename" => op[u].old # op[t].path)
  BY <1>0, OtherPaths
<1>4. ASSUME Making(t) PROVE x # op[t].path
  BY <1>2, <1>3 DEF Zone
<1>5. ASSUME Removing(t) PROVE ~AtOrBelow(x, op[t].path)
  <2>1. op[t].path \notin Entries
    BY <1>5 DEF IInv, GInv, TaskInv, Gone
  <2>2. /\ ~AtOrBelow(op[u].path, op[t].path)
        /\ op[u].kind = "rename" => ~AtOrBelow(op[u].old, op[t].path)
    BY <1>1, <1>3, <2>1, NotAbove
  <2> QED BY <1>1, <1>2, <2>2, ZoneApart
<1>6. ASSUME Moving(t) PROVE ~AtOrBelow(x, op[t].path) /\ ~AtOrBelow(x, op[t].old)
  <2>1. /\ ~AtOrBelow(op[u].path, op[t].path) /\ ~AtOrBelow(op[u].path, op[t].old)
        /\ ~AtOrBelow(op[u].old, op[t].path) /\ ~AtOrBelow(op[u].old, op[t].old)
    BY <1>6 DEF IInv, GInv, Alone
  <2> QED BY <1>1, <1>2, <2>1, ZoneApart
<1> QED BY <1>4, <1>5, <1>6

------------------------------------------------------------------------------
(* What the end of a handler, and a step forward of it, leave as it was.   *)
LEMMA AfterEnd ==
    ASSUME IInv, NEW t \in Tasks, op'[t] = Idle, \A u \in Tasks : u # t => op'[u] = op[u]
    PROVE  /\ Locked' /\ Alone' /\ TaskInv(t)'
           /\ \A u \in Tasks : op'[u].path \in Paths /\ op'[u].old \in Paths
           /\ \A u \in Tasks : u # t => SameWork(u)
<1>1. Idle.step = "idle" /\ Idle.dirs = {} /\ Idle.path = Root /\ Idle.old = Root
  BY DEF Idle
<1>2. op'[t].step = "idle" /\ op'[t].dirs = {} /\ op'[t].path = Root /\ op'[t].old = Root
  BY <1>1
<1>3. \A u \in Tasks : u # t => /\ SameWork(u) /\ op'[u].dirs = op[u].dirs
                                /\ Busy(u)' <=> Busy(u)
                                /\ Moving(u)' <=> Moving(u)
  BY DEF SameWork, Busy, Moving
<1>4. ~Busy(t)' /\ ~Making(t)' /\ ~Moving(t)' /\ ~Removing(t)'
  BY <1>2 DEF Busy, Making, Moving, Removing
<1>5. Locked'
  <2>1. \A u \in Tasks : Busy(u)' =>
            op'[u].dirs = LocksOf(op'[u].kind, op'[u].path, op'[u].old)
    BY <1>2, <1>3, <1>4 DEF SameWork, IInv, GInv, Locked
  <2>2. \A u, v \in Tasks : u # v => op'[u].dirs \cap op'[v].dirs = {}
    BY <1>2, <1>3 DEF IInv, GInv, Locked
  <2> QED BY <2>1, <2>2 DEF Locked
<1>6. Alone'
  BY <1>3, <1>4 DEF SameWork, IInv, GInv, Alone
<1>7. TaskInv(t)'
  BY <1>2, <1>4 DEF TaskInv, Grounded, Gone, Made, Apart, RawClear, NamedBelow, Vacant
<1>8. \A u \in Tasks : op'[u].path \in Paths /\ op'[u].old \in Paths
  BY <1>2, PathsArePath DEF IInv, GInv, Bounded
<1> QED BY <1>3, <1>5, <1>6, <1>7, <1>8

LEMMA AfterStep ==
    ASSUME IInv, NEW t \in Tasks, Busy(t), NEW s \in {"verb", "record"},
           op'[t] = [op[t] EXCEPT !.step = s], \A u \in Tasks : u # t => op'[u] = op[u]
    PROVE  /\ Locked'
           /\ op[t].kind # "rename" \/ s = "verb" => Alone'
           /\ \A u \in Tasks : op'[u].path \in Paths /\ op'[u].old \in Paths
           /\ \A u \in Tasks : u # t => SameWork(u)
           /\ op'[t].step = s /\ op'[t].kind = op[t].kind /\ op'[t].path = op[t].path
           /\ op'[t].old = op[t].old /\ op'[t].name = op[t].name
<1>1. op[t] \in OpRec
  BY DEF IInv, SInv, Shapes
<1>2. /\ op'[t].step = s /\ op'[t].kind = op[t].kind /\ op'[t].path = op[t].path
      /\ op'[t].old = op[t].old /\ op'[t].name = op[t].name /\ op'[t].dirs = op[t].dirs
  BY <1>1 DEF OpRec
<1>3. \A u \in Tasks : u # t => /\ SameWork(u) /\ op'[u].dirs = op[u].dirs
                                /\ Busy(u)' <=> Busy(u)
                                /\ Moving(u)' <=> Moving(u)
  BY DEF SameWork, Busy, Moving
<1>4. Busy(t)'
  BY <1>2 DEF Busy
<1>5. Locked'
  <2>0. \A u \in Tasks : /\ Busy(u)' => Busy(u)
                         /\ op'[u].dirs = op[u].dirs /\ op'[u].kind = op[u].kind
                         /\ op'[u].path = op[u].path /\ op'[u].old = op[u].old
    BY <1>2, <1>3 DEF SameWork
  <2>1. Locked
    BY DEF IInv, GInv
  <2>2. ASSUME NEW u \in Tasks, Busy(u)'
        PROVE  op'[u].dirs = LocksOf(op'[u].kind, op'[u].path, op'[u].old)
    <3>1. op[u].dirs = LocksOf(op[u].kind, op[u].path, op[u].old)
      BY <2>0, <2>1, <2>2 DEF Locked
    <3> QED BY <2>0, <3>1, Zenon
  <2>3. ASSUME NEW u \in Tasks, NEW v \in Tasks, u # v
        PROVE  op'[u].dirs \cap op'[v].dirs = {}
    <3>1. op[u].dirs \cap op[v].dirs = {}
      BY <2>1, <2>3 DEF Locked
    <3> QED BY <2>0, <3>1, Zenon
  <2> QED BY <2>2, <2>3 DEF Locked
<1>6. ASSUME op[t].kind # "rename" \/ s = "verb" PROVE Alone'
  <2>1. ~Moving(t)'
    BY <1>2, <1>6 DEF Moving
  <2> QED BY <1>2, <1>3, <1>4, <2>1, ZenonT(30) DEF SameWork, IInv, GInv, Alone
<1>7. \A u \in Tasks : op'[u].path \in Paths /\ op'[u].old \in Paths
  BY <1>2 DEF IInv, GInv, Bounded
<1> QED BY <1>2, <1>3, <1>5, <1>6, <1>7

------------------------------------------------------------------------------
(* Steps that change neither the entries nor the raw names.                *)
LEMMA Quiet ==
    ASSUME IInv, SInv', UNCHANGED <<tree, raw_names, astray>>, NEW t \in Tasks,
           \A u \in Tasks : u # t => op'[u] = op[u], op[t].step # "record",
           \A u \in Tasks : op'[u].path \in Paths /\ op'[u].old \in Paths,
           Locked', Alone', TaskInv(t)'
    PROVE  GInv'
<1>1. Entries' = Entries /\ \A x : SameEntry(x) /\ SameName(x) /\ StaysAstray(x)
                                   /\ VisibleName(x)' = VisibleName(x)
                                   /\ (IsFolder(x)' <=> IsFolder(x))
  BY DEF SameEntry, SameName, StaysAstray, VisibleName, Entries, IsFolder
<1>2. ASSUME NEW u \in Tasks PROVE TaskInv(u)'
  <2>1. CASE u # t
    <3>1. SameWork(u)
      BY <2>1 DEF SameWork
    <3> QED BY <1>1, <3>1, TaskFrame
  <2> QED BY <2>1
<1>3. Bounded'
  BY <1>1 DEF IInv, GInv, Bounded
<1>4. Closed'
  BY <1>1 DEF IInv, GInv, Closed
<1>5. ASSUME NEW u \in Tasks, NEW p
      PROVE  (Leaving(p, u) => Leaving(p, u)') /\ (Settling(p, u) => Settling(p, u)')
  BY <1>1 DEF Leaving, Settling, Making, Moving, Removing
<1>6. RawLive' /\ Named'
  BY <1>1, <1>5 DEF IInv, GInv, RawLive, Named
<1> QED BY <1>2, <1>3, <1>4, <1>6 DEF GInv

LEMMA StartKeeps ==
    ASSUME IInv, SInv', NEW t \in Tasks, Start(t)
    PROVE  GInv'
<1>1. PICK k \in {"create", "mkdir", "unlink", "rmdir", "rename"}, p \in Paths \ {Root},
           n \in Spellings, old \in Paths, s \in {"check", "verb"} :
              /\ Nfc[n] = Basename(p)
              /\ k = "rename" <=> old # Root
              /\ k = "create" => s = "check" /\ (p \notin Entries \/ VisibleName(p) # n)
              /\ Begin(t, k, p, n, old, LocksOf(k, p, old), s)
  BY DEF Start
<1> DEFINE L == LocksOf(k, p, old)
<1>2. /\ op'[t] = [kind |-> k, step |-> s, path |-> p, name |-> n, old |-> old, dirs |-> L]
      /\ \A u \in Tasks : u # t => op'[u] = op[u]
  <2>1. op \in [Tasks -> OpRec]
    BY DEF IInv, SInv, Shapes
  <2> QED BY <1>1, <2>1 DEF Begin
<1>3. /\ op'[t].kind = k /\ op'[t].step = s /\ op'[t].path = p /\ op'[t].old = old
      /\ op'[t].dirs = L /\ op'[t].name = n
  BY <1>2
<1>4. /\ op[t] = Idle /\ \A d \in L : IsFolder(d)
      /\ \A u \in Tasks : op[u].dirs \cap L = {}
      /\ \A u \in Tasks : op[u].step = "record" => Within(L, op[u].path) = {}
      /\ UNCHANGED <<tree, raw_names, astray>>
  BY <1>1 DEF Begin
<1>5. /\ p \in Entry /\ p \in Path /\ old \in Path /\ Parent(p) \in Path /\ Parent(p) \in L
      /\ k = "rename" => old \in Entry /\ Parent(old) \in Path /\ Parent(old) \in L
      /\ k # "rename" => old = Root
  BY <1>1, PathsArePath, ParentFacts DEF Entry, LocksOf
<1>6. op[t].step = "idle"
  <2>1. Idle.step = "idle"
    BY DEF Idle
  <2> QED BY <1>4, <2>1
<1>7. Busy(t)' /\ ~Making(t)' /\ ~Moving(t)' /\ ~Removing(t)'
  BY <1>3 DEF Busy, Making, Moving, Removing
<1>8. \A u \in Tasks : u # t => /\ op'[u].dirs = op[u].dirs /\ op'[u].kind = op[u].kind
                                /\ op'[u].path = op[u].path /\ op'[u].old = op[u].old
                                /\ (Busy(u)' <=> Busy(u)) /\ (Moving(u)' <=> Moving(u))
  BY <1>2 DEF Busy, Moving
<1>9. Locked'
  <2>1. Locked
    BY DEF IInv, GInv
  <2>2. ASSUME NEW u \in Tasks, Busy(u)'
        PROVE  op'[u].dirs = LocksOf(op'[u].kind, op'[u].path, op'[u].old)
    <3>1. CASE u = t
      BY <1>3, <3>1, Zenon
    <3>2. CASE u # t
      <4>1. op[u].dirs = LocksOf(op[u].kind, op[u].path, op[u].old)
        BY <1>8, <2>1, <2>2, <3>2 DEF Locked
      <4> QED BY <1>8, <3>2, <4>1, Zenon
    <3> QED BY <3>1, <3>2
  <2>3. ASSUME NEW u \in Tasks, NEW v \in Tasks, u # v
        PROVE  op'[u].dirs \cap op'[v].dirs = {}
    <3> HIDE DEF L
    <3>1. op[u].dirs \cap op[v].dirs = {}
      BY <2>1, <2>3 DEF Locked
    <3> QED BY <1>3, <1>4, <1>8, <2>3, <3>1
  <2> QED BY <2>2, <2>3 DEF Locked
<1> HIDE DEF L
<1>10. ASSUME NEW u \in Tasks, u # t, Moving(u), NEW q \in Entry, Parent(q) \in L
       PROVE  ~AtOrBelow(q, op[u].path) /\ ~AtOrBelow(q, op[u].old)
  <2>0. Busy(u) /\ op[u].kind = "rename" /\ op[u].step = "record"
    BY <1>10 DEF Moving, Busy
  <2>1. /\ op[u].path \in Entry /\ op[u].old \in Entry
        /\ op[u].path \in Path /\ op[u].old \in Path
    BY <2>0, OpPaths DEF IInv, Entry
  <2>2. Parent(q) \in Path /\ q \in Path
    BY ParentFacts DEF Entry
  <2>3. Parent(op[u].path) \in op[u].dirs /\ Parent(op[u].old) \in op[u].dirs
    BY <2>0 DEF IInv, GInv, Locked, LocksOf
  <2>4. q # op[u].path /\ q # op[u].old
    BY <1>4, <1>10, <2>3
  <2>5. ~AtOrBelow(Parent(q), op[u].path)
    BY <1>4, <1>10, <2>0 DEF Within
  <2>6. ~AtOrBelow(Parent(q), op[u].old)
    <3>1. SUFFICES ASSUME AtOrBelow(Parent(q), op[u].old) PROVE FALSE
      OBVIOUS
    <3>2. Parent(q) # Root
      BY <2>1, <3>1, BelowOrder
    <3>3. Parent(q) \in Entries
      BY <1>4, <1>10, <3>2 DEF IsFolder
    <3> QED BY <1>10, <3>1, <3>3 DEF IInv, GInv, TaskInv, Gone
  <2> QED BY <2>1, <2>2, <2>4, <2>5, <2>6, ParentFacts
<1>11. Alone'
  <2> SUFFICES ASSUME NEW u \in Tasks, NEW v \in Tasks, Moving(u)', Busy(v)', u # v
               PROVE  /\ ~AtOrBelow(op'[v].path, op'[u].path)
                      /\ ~AtOrBelow(op'[v].path, op'[u].old)
                      /\ ~AtOrBelow(op'[v].old, op'[u].path)
                      /\ ~AtOrBelow(op'[v].old, op'[u].old)
    BY DEF Alone
  <2>1. u # t /\ Moving(u) /\ op'[u].path = op[u].path /\ op'[u].old = op[u].old
    BY <1>7, <1>8
  <2>2. CASE v # t
    BY <1>8, <2>1, <2>2 DEF IInv, GInv, Alone
  <2>3. CASE v = t
    <3>1. ~AtOrBelow(p, op[u].path) /\ ~AtOrBelow(p, op[u].old)
      BY <1>5, <1>10, <2>1
    <3>2. CASE k = "rename"
      BY <1>3, <1>5, <1>10, <2>1, <2>3, <3>1, <3>2
    <3>3. CASE k # "rename"
      <4>1. op[u].path \in Entry /\ op[u].old \in Entry
        BY <2>1, OpPaths DEF IInv, Moving, Busy
      <4> QED BY <1>3, <1>5, <2>1, <2>3, <3>1, <3>3, <4>1, BelowOrder
    <3> QED BY <3>2, <3>3
  <2> QED BY <2>2, <2>3
<1>12. TaskInv(t)'
  <2>1. Grounded(t)'
    BY <1>3, <1>4, <1>5 DEF Grounded, IsFolder, Entries
  <2>2. Vacant(t)'
    BY <1>1, <1>3, <1>4 DEF Vacant, VisibleName, Entries
  <2> QED BY <1>7, <2>1, <2>2 DEF TaskInv, Gone, Made, Apart, RawClear, NamedBelow
<1>13. \A u \in Tasks : op'[u].path \in Paths /\ op'[u].old \in Paths
  BY <1>1, <1>3, <1>4, <1>8 DEF IInv, GInv, Bounded
<1> QED BY <1>2, <1>4, <1>6, <1>9, <1>11, <1>12, <1>13, Quiet

LEMMA CheckKeeps ==
    ASSUME IInv, SInv', NEW t \in Tasks, Check(t)
    PROVE  GInv'
<1>1. /\ Busy(t) /\ op[t].step = "check" /\ UNCHANGED <<tree, raw_names, astray>>
      /\ op[t].path \in Entry
  BY OpPaths DEF Check, Busy, IInv
<1>2. CASE End(t)
  <2>1. op'[t] = Idle /\ \A u \in Tasks : u # t => op'[u] = op[u]
    BY <1>2, OpEnds DEF IInv
  <2>2. /\ Locked' /\ Alone' /\ TaskInv(t)'
        /\ \A u \in Tasks : op'[u].path \in Paths /\ op'[u].old \in Paths
    BY <2>1, AfterEnd
  <2> QED BY <1>1, <2>1, <2>2, Quiet
<1>3. CASE /\ StepTo(t, "verb")
           /\ \/ VisibleName(op[t].path) = op[t].name
              \/ op[t].path \notin cached \cup Children(Parent(op[t].path))
  <2>1. op'[t] = [op[t] EXCEPT !.step = "verb"] /\ \A u \in Tasks : u # t => op'[u] = op[u]
    BY <1>1, <1>3, OpAdvances DEF IInv
  <2>2. /\ Locked' /\ Alone'
        /\ \A u \in Tasks : op'[u].path \in Paths /\ op'[u].old \in Paths
        /\ op'[t].step = "verb" /\ op'[t].kind = op[t].kind /\ op'[t].path = op[t].path
        /\ op'[t].old = op[t].old /\ op'[t].name = op[t].name
    BY <1>1, <2>1, AfterStep
  <2>3. Grounded(t)'
    BY <1>1, <2>2 DEF IInv, GInv, TaskInv, Grounded, IsFolder, Entries, Busy
  <2>4. Vacant(t)'
    BY <1>1, <1>3, <2>2 DEF IInv, GInv, TaskInv, Vacant, Children, Entries, VisibleName
  <2>5. ~Making(t)' /\ ~Moving(t)' /\ ~Removing(t)'
    BY <2>2 DEF Making, Moving, Removing
  <2>6. TaskInv(t)'
    BY <2>3, <2>4, <2>5 DEF TaskInv, Gone, Made, Apart, RawClear, NamedBelow
  <2> QED BY <1>1, <2>1, <2>2, <2>6, Quiet
<1> QED BY <1>2, <1>3 DEF Check

LEMMA RefusedKeeps ==
    ASSUME IInv, SInv', NEW t \in Tasks, VerbRefused(t)
    PROVE  GInv'
<1>1. op[t].step = "verb" /\ End(t) /\ UNCHANGED <<tree, raw_names, astray>>
  BY DEF VerbRefused
<1>2. op'[t] = Idle /\ \A u \in Tasks : u # t => op'[u] = op[u]
  BY <1>1, OpEnds DEF IInv
<1>3. /\ Locked' /\ Alone' /\ TaskInv(t)'
      /\ \A u \in Tasks : op'[u].path \in Paths /\ op'[u].old \in Paths
  BY <1>2, AfterEnd
<1> QED BY <1>1, <1>2, <1>3, Quiet

(* Steps that change only the cache.                                       *)
LEMMA CacheKeeps ==
    ASSUME IInv, UNCHANGED <<tree, raw_names, op, astray>>
    PROVE  GInv'
<1>1. Entries' = Entries
  BY DEF Entries
<1>2. Locked' /\ Bounded' /\ Closed' /\ Alone'
  BY <1>1 DEF IInv, GInv, Locked, Bounded, Closed, Alone, IsFolder, Busy, Moving
<1>3. \A t \in Tasks : TaskInv(t)'
  BY <1>1 DEF IInv, GInv, TaskInv, Grounded, Gone, Made, Apart, RawClear, NamedBelow, Vacant,
              IsFolder, VisibleName, Busy, Making, Moving, Removing
<1>4. RawLive' /\ Named'
  BY <1>1 DEF IInv, GInv, RawLive, Named, Leaving, Settling, VisibleName, Making, Moving, Removing
<1> QED BY <1>2, <1>3, <1>4 DEF GInv

------------------------------------------------------------------------------
(* Steps that record what was done.  The entries stay.                     *)
LEMMA RecordFrame ==
    ASSUME IInv, SInv', UNCHANGED tree, NEW t \in Tasks, op[t].step = "record",
           op'[t] = Idle, \A u \in Tasks : u # t => op'[u] = op[u],
           \A x \in Path : /\ Making(t) => x # op[t].path
                           /\ Removing(t) => ~AtOrBelow(x, op[t].path)
                           /\ Moving(t) => ~AtOrBelow(x, op[t].path) /\ ~AtOrBelow(x, op[t].old)
                           => SameName(x) /\ StaysAstray(x),
           \A x \in DOMAIN raw_names' :
               x \in Entries \/ x \in astray' \/ \E u \in Tasks \ {t} : Leaving(x, u),
           \A x \in Entries : Settling(x, t) => VisibleName(x)' = tree[x].as \/ x \in astray'
    PROVE  GInv'
<1>1. Entries' = Entries /\ \A x : SameEntry(x) /\ (IsFolder(x)' <=> IsFolder(x))
  BY DEF SameEntry, Entries, IsFolder
<1>2. /\ Locked' /\ Alone' /\ TaskInv(t)'
      /\ \A u \in Tasks : op'[u].path \in Paths /\ op'[u].old \in Paths
      /\ \A u \in Tasks : u # t => SameWork(u)
  BY AfterEnd
<1>3. \A u \in Tasks : TaskInv(u)'
  <2> SUFFICES ASSUME NEW u \in Tasks, u # t PROVE TaskInv(u)'
    BY <1>2
  <2>1. \A x \in Path : Busy(u) /\ Zone(x, u) => SameName(x) /\ StaysAstray(x)
    BY RecordApart
  <2> QED BY <1>1, <1>2, <2>1, TaskFrame
<1>4. Bounded' /\ Closed'
  BY <1>1, <1>2 DEF IInv, GInv, Bounded, Closed
<1>5. ASSUME NEW u \in Tasks, u # t, NEW p
      PROVE  (Leaving(p, u) => Leaving(p, u)') /\ (Settling(p, u) => Settling(p, u)')
  BY <1>1, <1>5 DEF Leaving, Settling, Making, Moving, Removing
<1>6. RawLive'
  BY <1>1, <1>5 DEF RawLive
<1>7. Named'
  <2> SUFFICES ASSUME NEW p \in Entries
               PROVE  \/ VisibleName(p)' = tree[p].as \/ p \in astray'
                      \/ \E u \in Tasks : Settling(p, u)'
    BY <1>1 DEF Named
  <2>0. p \in Entry /\ p \in Path
    BY DEF IInv, SInv, Shapes, Entry
  <2>1. CASE Settling(p, t)
    BY <2>1
  <2>2. CASE \E u \in Tasks : u # t /\ Settling(p, u)
    BY <1>5, <2>2
  <2>3. CASE ~(\E u \in Tasks : Settling(p, u))
    <3>1. VisibleName(p) = tree[p].as \/ p \in astray
      BY <2>3 DEF IInv, GInv, Named
    <3>2. Making(t) => p # op[t].path
      BY <2>3 DEF Settling
    <3>3. ASSUME Removing(t) PROVE ~AtOrBelow(p, op[t].path)
      <4>1. op[t].path \in Entry /\ op[t].path \notin Entries
        BY <3>3, OpPaths DEF IInv, GInv, TaskInv, Gone, Removing, Busy
      <4> QED BY <4>1, AboveEntry DEF IInv, GInv
    <3>4. Moving(t) => ~AtOrBelow(p, op[t].path)
      BY <2>3 DEF Settling
    <3>5. Moving(t) => ~AtOrBelow(p, op[t].old)
      BY DEF IInv, GInv, TaskInv, Gone
    <3>6. SameName(p) /\ StaysAstray(p)
      BY <2>0, <3>2, <3>3, <3>4, <3>5
    <3>7. VisibleName(p)' = VisibleName(p)
      BY <3>6 DEF SameName, VisibleName
    <3> QED BY <3>1, <3>6, <3>7 DEF StaysAstray
  <2> QED BY <2>1, <2>2, <2>3
<1> QED BY <1>2, <1>3, <1>4, <1>6, <1>7 DEF GInv

LEMMA RecordMakeKeeps ==
    ASSUME IInv, SInv', NEW t \in Tasks, RecordMake(t)
    PROVE  GInv'
<1>1. /\ Making(t) /\ Busy(t) /\ End(t) /\ astray' = astray \ {op[t].path} /\ UNCHANGED tree
      /\ raw_names' = RecordRawName(raw_names, op[t].path, op[t].name)
      /\ op[t].step = "record" /\ ~Removing(t) /\ ~Moving(t)
  BY DEF RecordMake, Making, Removing, Moving, Busy
<1>2. op'[t] = Idle /\ \A u \in Tasks : u # t => op'[u] = op[u]
  BY <1>1, OpEnds DEF IInv
<1>3. /\ op[t].path \in Entries /\ tree[op[t].path].as = op[t].name /\ op[t].path \in Paths
      /\ Nfc[op[t].name] = Basename(op[t].path)
  BY <1>1 DEF IInv, SInv, OpNamed, GInv, TaskInv, Made, Bounded
<1>4. /\ \A x : x \in DOMAIN raw_names' <=> \/ x \in DOMAIN raw_names /\ x # op[t].path
                                            \/ x = op[t].path /\ Nfc[op[t].name] # op[t].name
      /\ \A x \in DOMAIN raw_names : x # op[t].path => raw_names'[x] = raw_names[x]
      /\ Nfc[op[t].name] # op[t].name => raw_names'[op[t].path] = op[t].name
  BY <1>1, RecordFacts
<1>5. \A x \in Path : x # op[t].path => SameName(x) /\ StaysAstray(x)
  BY <1>1, <1>4 DEF SameName, StaysAstray
<1>6. \A x \in DOMAIN raw_names' :
          x \in Entries \/ x \in astray' \/ \E u \in Tasks \ {t} : Leaving(x, u)
  BY <1>1, <1>3, <1>4 DEF IInv, GInv, RawLive, Leaving
<1>7. \A x \in Entries : Settling(x, t) => VisibleName(x)' = tree[x].as
  BY <1>1, <1>3, <1>4 DEF Settling, VisibleName
<1> QED BY <1>1, <1>2, <1>5, <1>6, <1>7, RecordFrame

LEMMA RecordRemoveKeeps ==
    ASSUME IInv, SInv', NEW t \in Tasks, RecordRemove(t)
    PROVE  GInv'
<1>1. /\ Removing(t) /\ Busy(t) /\ End(t) /\ UNCHANGED tree
      /\ \A x \in astray : x \in astray' \/ AtOrBelow(x, op[t].path)
      /\ raw_names' = ForgetRawNames(raw_names, op[t].path)
      /\ op[t].step = "record" /\ ~Making(t) /\ ~Moving(t)
  BY DEF RecordRemove, Within, Making, Removing, Moving, Busy
<1>2. op'[t] = Idle /\ \A u \in Tasks : u # t => op'[u] = op[u]
  BY <1>1, OpEnds DEF IInv
<1>3. /\ \A x : x \in DOMAIN raw_names' <=> x \in DOMAIN raw_names /\ ~AtOrBelow(x, op[t].path)
      /\ \A x \in DOMAIN raw_names : ~AtOrBelow(x, op[t].path) => raw_names'[x] = raw_names[x]
  BY <1>1, ForgetFacts
<1>4. AtOrBelow(op[t].path, op[t].path)
  BY <1>1, OpPaths, BelowOrder DEF IInv
<1>5. \A x \in Path : ~AtOrBelow(x, op[t].path) => SameName(x) /\ StaysAstray(x)
  BY <1>1, <1>3 DEF SameName, StaysAstray
<1>6. \A x \in DOMAIN raw_names' :
          x \in Entries \/ x \in astray' \/ \E u \in Tasks \ {t} : Leaving(x, u)
  BY <1>1, <1>3, <1>4 DEF IInv, GInv, RawLive, Leaving
<1>7. \A x \in Entries : ~Settling(x, t)
  BY <1>1 DEF Settling
<1> QED BY <1>1, <1>2, <1>5, <1>6, <1>7, RecordFrame

LEMMA RecordRenameKeeps ==
    ASSUME IInv, SInv', NEW t \in Tasks, RecordRename(t)
    PROVE  GInv'
<1> DEFINE old == op[t].old
           new == op[t].path
<1>1. /\ Moving(t) /\ Busy(t) /\ UNCHANGED tree
      /\ astray' = Follows(astray, old, new) \ {new}
      /\ raw_names' = RecordRawName(RenameRawNames(raw_names, old, new), new, op[t].name)
      /\ op[t].step = "record" /\ ~Making(t) /\ ~Removing(t)
  BY DEF RecordRename, Follows, Making, Removing, Moving, Busy
<1>2. op'[t] = Idle /\ \A u \in Tasks : u # t => op'[u] = op[u]
  <2>1. /\ op'[t] = Idle
        /\ \A u \in Tasks : u # t => op'[u] = [op[u] EXCEPT !.dirs = Follows(@, old, new)]
    BY OpFollows DEF IInv
  <2>2. ASSUME NEW u \in Tasks, u # t PROVE op'[u] = op[u]
    <3>1. op[u] \in OpRec
      BY DEF IInv, SInv, Shapes
    <3>2. Within(op[u].dirs, old) = {}
      <4>1. CASE Busy(u)
        <5>1. \A x \in Path : Dir(x, u) \/ Zone(x, u) => ~AtOrBelow(x, old)
          <6>1. /\ ~AtOrBelow(op[u].path, old) /\ ~AtOrBelow(op[u].old, old)
                /\ Moving(u) => ~AtOrBelow(old, op[u].path) /\ ~AtOrBelow(old, op[u].old)
            BY <1>1, <2>2, <4>1 DEF IInv, GInv, Alone
          <6>2. old \in Path
            BY <1>1, OpPaths DEF IInv
          <6> HIDE DEF old
          <6> QED BY <4>1, <6>1, <6>2, ZoneApart
        <5>2. \A x \in op[u].dirs : x \in Path /\ (Dir(x, u) \/ Zone(x, u))
          <6>1. op[u].dirs = LocksOf(op[u].kind, op[u].path, op[u].old)
            BY <4>1 DEF IInv, GInv, Locked
          <6>2. op[u].dirs \subseteq Path
            BY <3>1 DEF OpRec
          <6> QED BY <6>1, <6>2 DEF LocksOf, Dir, Zone
        <5> QED BY <5>1, <5>2 DEF Within
      <4>2. CASE ~Busy(u)
        <5>1. op[u] = Idle
          BY <4>2 DEF IInv, SInv, OpNamed
        <5>2. Idle.dirs = {}
          BY DEF Idle
        <5> QED BY <5>1, <5>2 DEF Within
      <4> QED BY <4>1, <4>2
    <3>3. Follows(op[u].dirs, old, new) = op[u].dirs
      BY <3>2 DEF Follows
    <3>4. op'[u] = [op[u] EXCEPT !.dirs = op[u].dirs]
      BY <2>1, <2>2, <3>3
    <3> QED BY <3>1, <3>4 DEF OpRec
  <2> QED BY <2>1, <2>2
<1>3. /\ new \in Entries /\ tree[new].as = op[t].name /\ new \in Entry /\ new \in Path
      /\ old \in Path /\ Nfc[op[t].name] = Basename(new)
      /\ ~AtOrBelow(new, old)
      /\ \A p \in DOMAIN raw_names : AtOrBelow(p, new) => p \in astray
      /\ \A p \in Entries : ~AtOrBelow(p, old)
  BY <1>1, OpPaths DEF IInv, SInv, OpNamed, GInv, TaskInv, Made, Apart, RawClear, Gone
<1>4. RawSpelled /\ \A p \in DOMAIN raw_names : p \in Path
  BY DEF IInv, SInv, RawSpelled, Entry
<1>a. /\ \A x \in astray : x # new /\ ~AtOrBelow(x, old) => x \in astray'
      /\ \A x \in astray : AtOrBelow(x, old) /\ x # old => Rebase(x, old, new) \in astray'
  <2>1. \A x \in astray : x \in Path
    BY DEF IInv, SInv, Shapes
  <2> HIDE DEF old, new
  <2>2. \A x \in astray : AtOrBelow(x, old) /\ x # old => Rebase(x, old, new) # new
    BY <1>3, <2>1, RebaseKeeps
  <2> QED BY <1>1, <2>2 DEF Follows, Within
<1>5. ASSUME NEW p \in DOMAIN raw_names, AtOrBelow(p, old), p # old
      PROVE  Rebase(p, old, new) \in Entries \/ Rebase(p, old, new) \in astray'
  <2>0. SUFFICES ASSUME p \notin astray PROVE Rebase(p, old, new) \in Entries
    BY <1>5, <1>a
  <2>1. PICK u \in Tasks : Leaving(p, u)
    BY <1>3, <1>5, <2>0 DEF IInv, GInv, RawLive
  <2>2. u = t
    <3>1. Busy(u) /\ Zone(p, u)
      BY <2>1 DEF Leaving, Zone, Busy, Moving, Removing
    <3> QED BY <1>1, <1>4, <1>5, <3>1, RecordApart
  <2> QED BY <1>1, <1>5, <2>1, <2>2 DEF Leaving
<1>6. /\ \A x : x \in DOMAIN raw_names' <=>
            \/ x = new /\ Nfc[op[t].name] # op[t].name
            \/ x # new /\ x \in DOMAIN raw_names /\ ~AtOrBelow(x, old)
            \/ \E p \in DOMAIN raw_names :
                  AtOrBelow(p, old) /\ p # old /\ x = Rebase(p, old, new)
      /\ Nfc[op[t].name] # op[t].name => raw_names'[new] = op[t].name
      /\ \A p \in DOMAIN raw_names : AtOrBelow(p, old) /\ p # old =>
             raw_names'[Rebase(p, old, new)] = raw_names[p]
      /\ \A x \in DOMAIN raw_names : ~AtOrBelow(x, old) /\ ~AtOrBelow(x, new) =>
             raw_names'[x] = raw_names[x]
  <2> HIDE DEF old, new
  <2> QED BY <1>1, <1>3, <1>4, RenamedFacts
<1> HIDE DEF old, new
<1>7. ASSUME NEW p \in DOMAIN raw_names, AtOrBelow(p, old), p # old
      PROVE  /\ AtOrBelow(Rebase(p, old, new), new) /\ Rebase(p, old, new) # new
             /\ Rebase(Rebase(p, old, new), new, old) = p
  <2>1. p \in Path
    BY <1>4
  <2>2. AtOrBelow(Rebase(p, old, new), new) /\ Rebase(Rebase(p, old, new), new, old) = p
    BY <1>3, <1>7, <2>1, RebaseBack
  <2>3. Rebase(p, old, new) # new
    BY <1>3, <1>7, <2>1, RebaseKeeps
  <2> QED BY <2>2, <2>3
<1>9. \A x \in Path : ~AtOrBelow(x, new) /\ ~AtOrBelow(x, old) => SameName(x) /\ StaysAstray(x)
  <2> SUFFICES ASSUME NEW x \in Path, ~AtOrBelow(x, new), ~AtOrBelow(x, old)
               PROVE  SameName(x) /\ StaysAstray(x)
    OBVIOUS
  <2>1. x # new
    BY <1>3, BelowOrder
  <2> QED BY <1>6, <1>7, <1>a, <2>1 DEF SameName, StaysAstray
<1>10. \A x \in DOMAIN raw_names' :
           x \in Entries \/ x \in astray' \/ \E u \in Tasks \ {t} : Leaving(x, u)
  <2> SUFFICES ASSUME NEW x \in DOMAIN raw_names', x \notin Entries, x \notin astray'
               PROVE  \E u \in Tasks \ {t} : Leaving(x, u)
    OBVIOUS
  <2>1. x \in DOMAIN raw_names /\ ~AtOrBelow(x, old) /\ x \notin astray
    BY <1>3, <1>5, <1>6, <1>a
  <2>2. PICK u \in Tasks : Leaving(x, u)
    BY <2>1 DEF IInv, GInv, RawLive
  <2>3. u # t
    BY <1>1, <2>1, <2>2 DEF Leaving, old
  <2> QED BY <2>2, <2>3
<1>11. \A x \in Entries : Settling(x, t) => VisibleName(x)' = tree[x].as \/ x \in astray'
  <2> SUFFICES ASSUME NEW x \in Entries, AtOrBelow(x, new), x \notin astray'
               PROVE  VisibleName(x)' = tree[x].as
    BY <1>1 DEF Settling, new
  <2>0. x \in Path
    BY DEF IInv, SInv, Shapes, Entry
  <2>1. CASE x = new
    BY <1>3, <1>6, <1>7, <2>1 DEF VisibleName
  <2>2. CASE x # new
    <3> DEFINE y == Rebase(x, new, old)
    <3>1. VisibleName(y) = tree[x].as \/ y \in astray
      BY <1>1, <2>2 DEF IInv, GInv, TaskInv, NamedBelow, old, new
    <3>2. y \in Path /\ AtOrBelow(y, old) /\ Rebase(y, old, new) = x /\ y # old
          /\ Basename(y) = Basename(x)
      <4>1. y \in Path
        BY <1>3, <2>0, RebaseParts
      <4>2. AtOrBelow(y, old) /\ Rebase(y, old, new) = x
        BY <1>3, <2>0, RebaseBack
      <4>3. y # old /\ Basename(y) = Basename(x)
        BY <1>3, <2>0, <2>2, RebaseKeeps
      <4> QED BY <4>1, <4>2, <4>3
    <3> HIDE DEF y
    <3>3. x \in DOMAIN raw_names' <=> y \in DOMAIN raw_names
      <4>1. \A p \in DOMAIN raw_names : AtOrBelow(p, old) /\ p # old /\ x = Rebase(p, old, new)
                                        => p = y
        BY <1>7 DEF y
      <4>2. x \notin DOMAIN raw_names
        <5>1. ~AtOrBelow(x, old)
          BY <1>3
        <5> QED BY <1>3, <1>a, <2>2, <5>1
      <4> QED BY <1>6, <2>2, <3>2, <4>1, <4>2
    <3>4. y \in DOMAIN raw_names => raw_names'[x] = raw_names[y]
      BY <1>6, <3>2
    <3>5. y \notin astray
      BY <1>a, <3>2
    <3> QED BY <3>1, <3>2, <3>3, <3>4, <3>5 DEF VisibleName
  <2> QED BY <2>1, <2>2
<1> QED BY <1>1, <1>2, <1>9, <1>10, <1>11, RecordFrame DEF old, new

LEMMA CreateFailsKeeps ==
    ASSUME IInv, SInv', NEW t \in Tasks, CreateFails(t)
    PROVE  GInv'
<1>1. /\ Making(t) /\ End(t) /\ UNCHANGED <<tree, raw_names>>
      /\ astray' = astray \cup {op[t].path}
      /\ op[t].step = "record" /\ ~Removing(t) /\ ~Moving(t)
  BY DEF CreateFails, Making, Removing, Moving
<1>2. op'[t] = Idle /\ \A u \in Tasks : u # t => op'[u] = op[u]
  BY <1>1, OpEnds DEF IInv
<1>3. \A x : SameName(x) /\ StaysAstray(x)
  BY <1>1 DEF SameName, StaysAstray
<1>4. \A x \in DOMAIN raw_names' :
          x \in Entries \/ x \in astray' \/ \E u \in Tasks \ {t} : Leaving(x, u)
  BY <1>1 DEF IInv, GInv, RawLive, Leaving
<1>5. \A x \in Entries : Settling(x, t) => x \in astray'
  BY <1>1 DEF Settling
<1> QED BY <1>1, <1>2, <1>3, <1>4, <1>5, RecordFrame

------------------------------------------------------------------------------
(* The engine moves a folder to where nothing is.                          *)
LEMMA MoveFacts ==
    ASSUME IInv, NEW t \in Tasks, Busy(t), Accepts(op[t]), op[t].kind = "rename",
           tree' = Effect(op[t])
    PROVE  /\ op[t].old \in Entry /\ op[t].path \in Entry
           /\ op[t].old \in Path /\ op[t].path \in Path
           /\ op[t].old \in Entries /\ IsFolder(Parent(op[t].path))
           /\ \A x \in Entries : ~AtOrBelow(x, op[t].path)
           /\ ~AtOrBelow(op[t].old, op[t].path) /\ ~AtOrBelow(op[t].path, op[t].old)
           /\ \A x \in Path : ~AtOrBelow(x, op[t].path) =>
                 /\ x \in Entries' <=> x \in Entries /\ ~AtOrBelow(x, op[t].old)
                 /\ x \in Entries' => tree'[x] = tree[x]
           /\ \A x \in Path : AtOrBelow(x, op[t].path) =>
                 /\ x \in Entries' <=> Rebase(x, op[t].path, op[t].old) \in Entries
                 /\ x \in Entries' /\ x # op[t].path =>
                       tree'[x] = tree[Rebase(x, op[t].path, op[t].old)]
           /\ tree'[op[t].path].as = op[t].name /\ tree'[op[t].path].folder = tree[op[t].old].folder
           /\ Entries' \subseteq Paths
<1> DEFINE old == op[t].old
           new == op[t].path
<1>1. /\ old \in Entry /\ new \in Entry /\ old \in Path /\ new \in Path
  BY OpPaths DEF IInv
<1>2. /\ old \in Entries /\ new \notin Entries /\ IsFolder(Parent(new)) /\ ~AtOrBelow(new, old)
      /\ \A p \in Within(Entries, old) : Rebase(p, old, new) \in Paths
  BY DEF Accepts
<1>3. \A x \in Entries : x \in Path /\ ~AtOrBelow(x, new)
  BY <1>1, <1>2, AboveEntry DEF IInv, SInv, GInv, Shapes, Entry
<1>4. /\ Entries' = (Entries \ Within(Entries, old))
                    \cup {Rebase(p, old, new) : p \in Within(Entries, old)}
      /\ tree'[new] = [tree[old] EXCEPT !.as = op[t].name]
      /\ \A p \in Within(Entries, old) : p # old => tree'[Rebase(p, old, new)] = tree[p]
      /\ \A p \in Entries \ Within(Entries, old) :
            p \notin {Rebase(q, old, new) : q \in Within(Entries, old)} => tree'[p] = tree[p]
  BY <1>2, EffectRename DEF IInv
<1> HIDE DEF old, new
<1>5. \A p \in Within(Entries, old) :
          /\ p \in Entries /\ AtOrBelow(p, old) /\ AtOrBelow(Rebase(p, old, new), new)
          /\ Rebase(Rebase(p, old, new), new, old) = p
  BY <1>1, <1>3, RebaseBack DEF Within
<1>6. ASSUME NEW x \in Path, ~AtOrBelow(x, new)
      PROVE  /\ x \in Entries' <=> x \in Entries /\ ~AtOrBelow(x, old)
             /\ x \in Entries' => tree'[x] = tree[x]
  <2>1. x \notin {Rebase(q, old, new) : q \in Within(Entries, old)}
    BY <1>5, <1>6
  <2> QED BY <1>4, <2>1 DEF Within
<1>7. ASSUME NEW x \in Path, AtOrBelow(x, new)
      PROVE  /\ x \in Entries' <=> Rebase(x, new, old) \in Entries
             /\ x \in Entries' /\ x # new => tree'[x] = tree[Rebase(x, new, old)]
  <2>1. AtOrBelow(Rebase(x, new, old), old) /\ Rebase(Rebase(x, new, old), old, new) = x
    BY <1>1, <1>7, RebaseBack
  <2>2. x # new => Rebase(x, new, old) # old
    BY <1>1, <1>7, RebaseKeeps
  <2>3. x \in Entries' <=> Rebase(x, new, old) \in Entries
    BY <1>3, <1>4, <1>5, <1>7, <2>1 DEF Within
  <2>4. ASSUME x \in Entries', x # new PROVE tree'[x] = tree[Rebase(x, new, old)]
    <3>1. Rebase(x, new, old) \in Within(Entries, old)
      BY <2>1, <2>3, <2>4 DEF Within
    <3> QED BY <1>4, <2>1, <2>2, <2>4, <3>1
  <2> QED BY <2>3, <2>4
<1>8. tree'[new].as = op[t].name /\ tree'[new].folder = tree[old].folder
  <2>1. tree[old] \in [folder : BOOLEAN, as : Spellings]
    BY <1>2 DEF IInv, SInv, Shapes
  <2>2. tree'[new].as = op[t].name
    BY <1>4, <2>1
  <2>3. tree'[new].folder = tree[old].folder
    BY <1>4, <2>1
  <2> QED BY <2>2, <2>3
<1>9. Entries' \subseteq Paths
  BY <1>2, <1>4 DEF IInv, GInv, Bounded
<1>10. ~AtOrBelow(old, new)
  BY <1>2, <1>3
<1> QED BY <1>1, <1>2, <1>3, <1>6, <1>7, <1>8, <1>9, <1>10 DEF old, new

(* Nothing is named or being named where a folder is moved to, and what    *)
(* lies in the folder is named as it should be, but for what is astray.    *)
LEMMA MoveClear ==
    ASSUME IInv, Gaps = {}, NEW t \in Tasks, op[t].step = "verb", Accepts(op[t]), Inside(t),
           op[t].kind = "rename"
    PROVE  /\ \A x \in DOMAIN raw_names : AtOrBelow(x, op[t].path) => x \in astray
           /\ \A x \in Entries : AtOrBelow(x, op[t].old) =>
                 VisibleName(x) = tree[x].as \/ x \in astray
<1>0. Busy(t) /\ ~Making(t) /\ ~Moving(t) /\ ~Removing(t)
  BY DEF Busy, Making, Moving, Removing
<1>1. op[t].path \in Entry /\ op[t].path \notin Entries
  BY <1>0, OpPaths DEF IInv, Accepts
<1>2. \A x \in Entries : ~AtOrBelow(x, op[t].path)
  BY <1>1, AboveEntry DEF IInv, GInv
<1>3. ASSUME NEW x \in DOMAIN raw_names, AtOrBelow(x, op[t].path), x \notin astray
      PROVE  FALSE
  <2>1. PICK u \in Tasks : Leaving(x, u)
    BY <1>2, <1>3 DEF IInv, GInv, RawLive
  <2>2. u # t /\ Busy(u) /\ Zone(x, u)
    BY <1>0, <2>1 DEF Leaving, Zone, Busy, Moving, Removing
  <2>3. x \in Path
    BY DEF IInv, SInv, RawSpelled, Entry
  <2> QED BY <1>3, <2>2, <2>3, VerbApart
<1>4. ASSUME NEW x \in Entries, AtOrBelow(x, op[t].old), x \notin astray
      PROVE  VisibleName(x) = tree[x].as
  <2>1. SUFFICES ASSUME NEW u \in Tasks, Settling(x, u) PROVE FALSE
    BY <1>4 DEF IInv, GInv, Named
  <2>2. u # t /\ Busy(u) /\ Zone(x, u)
    BY <1>0, <2>1 DEF Settling, Zone, Busy, Moving, Making
  <2>3. x \in Path
    BY DEF IInv, SInv, Shapes, Entry
  <2> QED BY <1>4, <2>2, <2>3, VerbApart
<1> QED BY <1>3, <1>4

(* What the verb does keeps folders above their entries, and the zones of  *)
(* other handlers as they were.                                            *)
LEMMA VerbTree ==
    ASSUME IInv, Gaps = {}, NEW t \in Tasks, op[t].step = "verb", Accepts(op[t]), Inside(t),
           tree' = Effect(op[t])
    PROVE  /\ Closed' /\ Entries' \subseteq Paths
           /\ \A u \in Tasks : \A x \in Path : u # t /\ Busy(u) /\ Zone(x, u) => SameEntry(x)
           /\ \A u \in Tasks : \A x \in Path :
                 u # t /\ Busy(u) /\ Dir(x, u) /\ IsFolder(x) => IsFolder(x)'
           /\ \A x \in Path : Dir(x, t) /\ IsFolder(x) => IsFolder(x)'
<1> DEFINE p == op[t].path
<1>0. Busy(t)
  BY DEF Busy
<1>1. /\ p \in Entry /\ p \in Path /\ p # Root /\ Parent(p) \in Path /\ p \in Paths
      /\ op[t].kind \in {"create", "mkdir", "unlink", "rmdir", "rename"}
      /\ Closed /\ SInv /\ Entries \subseteq Paths
      /\ \A x \in Entries : x \in Path /\ x \in Entry
  BY <1>0, OpPaths DEF IInv, SInv, Shapes, GInv, Bounded, Entry
<1>2. AtOrBelow(p, Parent(p)) /\ p # Parent(p)
  BY <1>1, ParentFacts, BelowOrder
<1>3. CASE op[t].kind # "rename" /\ \A x : x # p => SameEntry(x)
  <2>1. \A x : x # p /\ IsFolder(x) => IsFolder(x)'
    BY <1>3 DEF SameEntry, IsFolder
  <2>2. ASSUME NEW u \in Tasks, NEW x \in Path, u # t, Busy(u), Zone(x, u) \/ Dir(x, u)
        PROVE  x # p
    BY <1>3, <2>2, VerbApart
  <2>3. \A x : Dir(x, t) => x # p
    BY <1>2, <1>3 DEF Dir
  <2>4. ASSUME NEW x \in Entries, AtOrBelow(x, p), x # p, x \in Entries' PROVE FALSE
    <3>1. IsFolder(p) /\ p \in Entries
      BY <1>1, <2>4 DEF Closed, IsFolder
    <3>2. op[t].kind = "rmdir" /\ Children(p) = {}
      BY <1>1, <1>3, <3>1 DEF Accepts
    <3>3. PICK r \in Entry : AtOrBelow(x, r) /\ Parent(r) = p
      BY <1>1, <2>4, StepDown
    <3>4. r \in Entries
      BY <1>1, <3>3, AboveEntry
    <3> QED BY <3>2, <3>3, <3>4 DEF Children
  <2>5. p \in Entries' => IsFolder(Parent(p)) \/ p \in Entries
    BY <1>1, <1>3, <1>0, EffectFacts DEF Accepts
  <2>6. Closed'
    <3> SUFFICES ASSUME NEW x \in Entries', NEW q \in Path, AtOrBelow(x, q), x # q
                 PROVE  IsFolder(q)'
      BY DEF Closed
    <3>1. CASE x # p
      <4>1. x \in Entries /\ x \in Path
        BY <1>1, <1>3, <3>1 DEF SameEntry
      <4>2. q # p
        BY <2>4, <4>1
      <4>3. IsFolder(q)
        BY <1>1, <4>1 DEF Closed
      <4> QED BY <2>1, <4>2, <4>3
    <3>2. CASE x = p
      <4>1. IsFolder(q)
        <5>1. CASE p \in Entries
          BY <1>1, <3>2, <5>1 DEF Closed
        <5>2. CASE IsFolder(Parent(p)) /\ q # Root
          <6>1. AtOrBelow(Parent(p), q)
            BY <1>1, <3>2, ParentFacts
          <6>2. q \in Entry
            BY <5>2 DEF Entry
          <6> QED BY <1>1, <5>2, <6>1, <6>2, AboveFolder DEF IsFolder
        <5>3. CASE q = Root
          BY <5>3 DEF IsFolder
        <5> QED BY <2>5, <3>2, <5>1, <5>2, <5>3
      <4> QED BY <2>1, <3>2, <4>1
    <3> QED BY <3>1, <3>2
  <2>7. Entries' \subseteq Paths
    BY <1>1, <1>3 DEF SameEntry
  <2> QED BY <1>3, <2>1, <2>2, <2>3, <2>6, <2>7
<1>4. CASE op[t].kind = "rename"
  <2> DEFINE old == op[t].old
  <2>1. /\ old \in Entry /\ old \in Path /\ old \in Entries /\ IsFolder(Parent(p))
        /\ \A x \in Entries : ~AtOrBelow(x, p)
        /\ ~AtOrBelow(old, p) /\ ~AtOrBelow(p, old)
        /\ \A x \in Path : ~AtOrBelow(x, p) =>
              /\ x \in Entries' <=> x \in Entries /\ ~AtOrBelow(x, old)
              /\ x \in Entries' => tree'[x] = tree[x]
        /\ \A x \in Path : AtOrBelow(x, p) =>
              /\ x \in Entries' <=> Rebase(x, p, old) \in Entries
              /\ x \in Entries' /\ x # p => tree'[x] = tree[Rebase(x, p, old)]
        /\ tree'[p].folder = tree[old].folder
        /\ Entries' \subseteq Paths
    BY <1>0, <1>4, MoveFacts
  <2>2. Parent(old) \in Path /\ AtOrBelow(old, Parent(old)) /\ ~AtOrBelow(Parent(old), old)
    BY <2>1, ParentFacts
  <2>3. \A x : Dir(x, t) <=> x = Parent(p) \/ x = Parent(old)
    BY <1>4 DEF Dir
  <2>4. \A u \in Tasks : \A x \in Path : u # t /\ Busy(u) /\ (Zone(x, u) \/ Dir(x, u)) =>
            ~AtOrBelow(x, old) /\ ~AtOrBelow(x, p)
    BY <1>4, VerbApart
  <2> HIDE DEF old, p
  <2>5. ASSUME NEW x \in Path, ~AtOrBelow(x, old), ~AtOrBelow(x, p)
        PROVE  SameEntry(x) /\ (IsFolder(x) => IsFolder(x)')
    BY <2>1, <2>5 DEF SameEntry, IsFolder
  <2>6. \A x \in Path : Dir(x, t) => ~AtOrBelow(x, old) /\ ~AtOrBelow(x, p)
    <3>1. ~AtOrBelow(Parent(p), p)
      BY <1>1, ParentFacts
    <3>2. ~AtOrBelow(Parent(p), old)
      BY <1>1, <1>2, <2>1, BelowOrder
    <3>3. ~AtOrBelow(Parent(old), p)
      BY <1>1, <2>1, <2>2, BelowOrder
    <3> QED BY <2>2, <2>3, <3>1, <3>2, <3>3
  <2>7. Closed'
    <3> SUFFICES ASSUME NEW x \in Entries', NEW q \in Path, AtOrBelow(x, q), x # q, q # Root
                 PROVE  IsFolder(q)'
      BY DEF Closed, IsFolder
    <3>0. x \in Path
      BY <2>1, PathsArePath
    <3>1. CASE ~AtOrBelow(x, p)
      <4>1. x \in Entries /\ ~AtOrBelow(x, old)
        BY <2>1, <3>0, <3>1
      <4>2. IsFolder(q)
        BY <1>1, <4>1 DEF Closed
      <4>3. ~AtOrBelow(q, old) /\ ~AtOrBelow(q, p)
        BY <1>1, <2>1, <3>0, <3>1, <4>1, BelowOrder
      <4> QED BY <2>5, <4>2, <4>3
    <3>2. CASE AtOrBelow(x, p) /\ AtOrBelow(q, p)
      <4> DEFINE y == Rebase(x, p, old)
                 r == Rebase(q, p, old)
      <4>1. y \in Entries /\ y \in Path
        BY <1>1, <2>1, <3>0, <3>2
      <4>2. r \in Path /\ AtOrBelow(r, old) /\ Rebase(r, old, p) = q /\ Rebase(y, old, p) = x
        BY <1>1, <2>1, <3>0, <3>2, RebaseParts, RebaseBack
      <4>3. AtOrBelow(y, r)
        BY <1>1, <2>1, <3>0, <3>2, RebaseKeeps
      <4> HIDE DEF y, r
      <4>4. y # r
        BY <4>2
      <4>5. IsFolder(r) /\ r # Root
        BY <1>1, <2>1, <4>1, <4>2, <4>3, <4>4, BelowOrder DEF Closed
      <4>6. r \in Entries /\ tree[r].folder
        BY <4>5 DEF IsFolder
      <4>7. q \in Entries'
        BY <2>1, <3>2, <4>6 DEF r
      <4>8. tree'[q].folder
        <5>1. CASE q = p
          <6>1. r = old
            BY <1>1, <2>1, <5>1, BelowOrder, RebaseKeeps DEF r
          <6> QED BY <2>1, <4>6, <5>1, <6>1
        <5>2. CASE q # p
          BY <2>1, <3>2, <4>6, <4>7, <5>2 DEF r
        <5> QED BY <5>1, <5>2
      <4> QED BY <4>7, <4>8 DEF IsFolder
    <3>3. CASE AtOrBelow(x, p) /\ ~AtOrBelow(q, p)
      <4>1. AtOrBelow(p, q) /\ p # q
        BY <1>1, <3>0, <3>3, BelowOrder
      <4>2. AtOrBelow(Parent(p), q) /\ q \in Entry
        BY <1>1, <4>1, ParentFacts DEF Entry
      <4>3. IsFolder(q)
        BY <1>1, <2>1, <4>2, AboveFolder DEF IsFolder
      <4>4. ~AtOrBelow(q, old)
        BY <1>1, <2>1, <4>1, BelowOrder
      <4> QED BY <2>5, <3>3, <4>3, <4>4
    <3> QED BY <3>1, <3>2, <3>3
  <2> QED BY <2>1, <2>4, <2>5, <2>6, <2>7
<1>5. op[t].kind # "rename" => \A x : x # p => SameEntry(x)
  <2>1. ASSUME op[t].kind \in {"create", "mkdir"} PROVE \A x : x # p => SameEntry(x)
    <3>1. Entries' = Entries \cup {p} /\ \A x \in Entries \ {p} : tree'[x] = tree[x]
      BY <1>0, <1>1, <2>1, EffectFacts
    <3> HIDE DEF p
    <3> QED BY <3>1 DEF SameEntry
  <2>2. ASSUME op[t].kind \in {"unlink", "rmdir"} PROVE \A x : x # p => SameEntry(x)
    BY <1>0, <1>1, <2>2, EffectFacts DEF SameEntry
  <2> QED BY <1>1, <2>1, <2>2
<1> QED BY <1>3, <1>4, <1>5

(* Where other handlers' raw names go to stays an entry, and what others   *)
(* settle stays theirs to settle.                                          *)
LEMMA VerbOthers ==
    ASSUME IInv, Gaps = {}, NEW t \in Tasks, op[t].step = "verb", Accepts(op[t]), Inside(t),
           tree' = Effect(op[t]), NEW u \in Tasks, u # t, op'[u] = op[u], NEW x
    PROVE  /\ x \in Path /\ Leaving(x, u) => Leaving(x, u)'
           /\ Settling(x, u) => Settling(x, u)'
<1>1. /\ Moving(u)' <=> Moving(u)
      /\ Making(u)' <=> Making(u)
      /\ Removing(u)' <=> Removing(u)
  BY DEF Moving, Making, Removing
<1>2. Settling(x, u) => Settling(x, u)'
  BY <1>1 DEF Settling
<1>3. ASSUME x \in Path, Leaving(x, u) PROVE Leaving(x, u)'
  <2>1. CASE Removing(u) /\ x = op[u].path
    BY <1>1, <2>1 DEF Leaving
  <2>2. CASE Moving(u) /\ AtOrBelow(x, op[u].old) /\ x = op[u].old
    BY <1>1, <2>2 DEF Leaving
  <2>3. CASE /\ Moving(u) /\ AtOrBelow(x, op[u].old) /\ x # op[u].old
             /\ Rebase(x, op[u].old, op[u].path) \in Entries
    <3> DEFINE z == Rebase(x, op[u].old, op[u].path)
    <3>1. Busy(u)
      BY <2>3 DEF Busy, Moving
    <3>2. op[u].path \in Path /\ op[u].old \in Path
      BY <3>1, OpPaths DEF IInv
    <3>3. z \in Path /\ AtOrBelow(z, op[u].path)
      BY <1>3, <2>3, <3>2, RebaseParts, RebaseBack
    <3>4. Zone(z, u)
      BY <2>3, <3>3 DEF Zone
    <3> HIDE DEF z
    <3>5. SameEntry(z)
      BY <3>1, <3>3, <3>4, VerbTree
    <3>6. z \in Entries'
      BY <2>3, <3>5 DEF SameEntry, z
    <3> QED BY <1>1, <2>3, <3>6 DEF Leaving, z
  <2> QED BY <1>3, <2>1, <2>2, <2>3 DEF Leaving
<1> QED BY <1>2, <1>3

LEMMA VerbFrame ==
    ASSUME IInv, SInv', Gaps = {}, NEW t \in Tasks, op[t].step = "verb", Accepts(op[t]),
           Inside(t), tree' = Effect(op[t]), UNCHANGED raw_names, astray \subseteq astray',
           \A u \in Tasks : u # t => op'[u] = op[u],
           \A u \in Tasks : op'[u].path \in Paths /\ op'[u].old \in Paths,
           Locked', Alone', TaskInv(t)',
           \A x \in DOMAIN raw_names :
               x \in Entries => x \in Entries' \/ Leaving(x, t)' \/ x \in astray',
           \A x \in Entries' :
               \/ SameEntry(x)
               \/ x \in astray'
               \/ Settling(x, t)'
    PROVE  GInv'
<1>0. ~Making(t) /\ ~Moving(t) /\ ~Removing(t)
  BY DEF Making, Moving, Removing
<1>1. \A x : SameName(x) /\ StaysAstray(x) /\ VisibleName(x)' = VisibleName(x)
  BY DEF SameName, StaysAstray, VisibleName
<1>2. /\ Closed' /\ Entries' \subseteq Paths
      /\ \A u \in Tasks : \A x \in Path : u # t /\ Busy(u) /\ Zone(x, u) => SameEntry(x)
      /\ \A u \in Tasks : \A x \in Path :
            u # t /\ Busy(u) /\ Dir(x, u) /\ IsFolder(x) => IsFolder(x)'
  BY VerbTree
<1>3. \A u \in Tasks : TaskInv(u)'
  <2> SUFFICES ASSUME NEW u \in Tasks, u # t PROVE TaskInv(u)'
    OBVIOUS
  <2>1. SameWork(u)
    BY DEF SameWork
  <2> QED BY <1>1, <1>2, <2>1, TaskFrame
<1>4. Bounded'
  BY <1>2 DEF IInv, GInv, Bounded
<1>5. \A x \in DOMAIN raw_names : x \in Path
  BY DEF IInv, SInv, RawSpelled, Entry
<1>6. RawLive'
  <2> SUFFICES ASSUME NEW x \in DOMAIN raw_names, x \notin Entries', x \notin astray'
               PROVE  \E u \in Tasks : Leaving(x, u)'
    BY DEF RawLive
  <2>1. CASE x \in Entries
    BY <2>1
  <2>2. CASE x \notin Entries
    <3>1. PICK u \in Tasks : Leaving(x, u)
      BY <2>2 DEF IInv, GInv, RawLive
    <3>2. u # t
      BY <1>0, <3>1 DEF Leaving
    <3> QED BY <1>5, <3>1, <3>2, VerbOthers
  <2> QED BY <2>1, <2>2
<1>7. Named'
  <2> SUFFICES ASSUME NEW x \in Entries', ~Settling(x, t)', VisibleName(x) # tree'[x].as,
                      x \notin astray'
               PROVE  \E u \in Tasks : Settling(x, u)'
    BY <1>1 DEF Named
  <2>1. x \in Entries /\ tree'[x] = tree[x]
    BY DEF SameEntry
  <2>2. PICK u \in Tasks : Settling(x, u)
    BY <2>1 DEF IInv, GInv, Named
  <2>3. u # t
    BY <1>0, <2>2 DEF Settling
  <2> QED BY <2>2, <2>3, VerbOthers
<1> QED BY <1>2, <1>3, <1>4, <1>6, <1>7 DEF GInv

LEMMA VerbKeeps ==
    ASSUME IInv, SInv', Gaps = {}, NEW t \in Tasks, Verb(t)
    PROVE  GInv'
<1> DEFINE p == op[t].path
           old == op[t].old
<1>1. /\ op[t].step = "verb" /\ Busy(t) /\ Accepts(op[t]) /\ Inside(t)
      /\ tree' = Effect(op[t]) /\ StepTo(t, "record")
      /\ UNCHANGED <<raw_names, astray>>
  BY DEF Verb, Busy
<1>2. op'[t] = [op[t] EXCEPT !.step = "record"] /\ \A u \in Tasks : u # t => op'[u] = op[u]
  BY <1>1, OpAdvances DEF IInv
<1>3. /\ Locked' /\ (op[t].kind # "rename" => Alone')
      /\ \A u \in Tasks : op'[u].path \in Paths /\ op'[u].old \in Paths
      /\ \A u \in Tasks : u # t => SameWork(u)
      /\ op'[t].step = "record" /\ op'[t].kind = op[t].kind /\ op'[t].path = p
      /\ op'[t].old = old /\ op'[t].name = op[t].name
  BY <1>1, <1>2, AfterStep
<1>4. /\ p \in Entry /\ p \in Path /\ old \in Path /\ Parent(p) \in Path
      /\ op[t].kind = "rename" => Parent(old) \in Path
      /\ op[t].kind \in {"create", "mkdir", "unlink", "rmdir", "rename"}
  BY <1>1, OpPaths DEF IInv
<1>5. Grounded(t)'
  <2>1. \A x \in Path : Dir(x, t) /\ IsFolder(x) => IsFolder(x)'
    BY <1>1, VerbTree
  <2> QED BY <1>1, <1>3, <1>4, <2>1 DEF Grounded, Dir, IInv, GInv, TaskInv
<1>6. Vacant(t)'
  BY <1>3 DEF Vacant
<1>7. CASE op[t].kind \in {"create", "mkdir"}
  <2>1. Making(t)' /\ ~Moving(t)' /\ ~Removing(t)' /\ op[t].kind # "rename"
    BY <1>3, <1>7 DEF Making, Moving, Removing
  <2>2. /\ Entries' = Entries \cup {p} /\ \A x \in Entries \ {p} : tree'[x] = tree[x]
        /\ tree'[p] = IF op[t].kind = "mkdir" THEN [folder |-> TRUE, as |-> op[t].name]
                      ELSE [folder |-> FALSE, as |-> op[t].name]
    BY <1>1, <1>7, EffectFacts DEF IInv
  <2>3. tree'[p].as = op[t].name
    BY <2>2
  <2>4. TaskInv(t)'
    BY <1>3, <1>5, <1>6, <2>1, <2>2, <2>3 DEF TaskInv, Gone, Made, Apart, RawClear, NamedBelow
  <2>5. \A x \in Entries' : SameEntry(x) \/ Settling(x, t)'
    BY <1>3, <2>1, <2>2 DEF SameEntry, Settling
  <2>6. Entries \subseteq Entries' /\ Alone'
    BY <1>3, <2>1, <2>2
  <2> QED BY <1>1, <1>2, <1>3, <2>4, <2>5, <2>6, VerbFrame
<1>8. CASE op[t].kind \in {"unlink", "rmdir"}
  <2>1. ~Making(t)' /\ ~Moving(t)' /\ Removing(t)' /\ op[t].kind # "rename"
    BY <1>3, <1>8 DEF Making, Moving, Removing
  <2>2. Entries' = Entries \ {p} /\ \A x \in Entries' : tree'[x] = tree[x]
    BY <1>1, <1>8, EffectFacts DEF IInv
  <2>3. TaskInv(t)'
    BY <1>3, <1>5, <1>6, <2>1, <2>2 DEF TaskInv, Gone, Made, Apart, RawClear, NamedBelow
  <2>4. \A x \in Entries' : SameEntry(x)
    BY <2>2 DEF SameEntry
  <2>5. \A x \in DOMAIN raw_names : x \in Entries => x \in Entries' \/ Leaving(x, t)'
    BY <1>3, <2>1, <2>2 DEF Leaving
  <2> QED BY <1>1, <1>2, <1>3, <2>1, <2>3, <2>4, <2>5, VerbFrame
<1>9. CASE op[t].kind = "rename"
  <2>1. ~Making(t)' /\ Moving(t)' /\ ~Removing(t)'
    BY <1>3, <1>9 DEF Making, Moving, Removing
  <2>2. /\ old \in Entries
        /\ \A x \in Entries : ~AtOrBelow(x, p)
        /\ ~AtOrBelow(old, p) /\ ~AtOrBelow(p, old)
        /\ \A x \in Path : ~AtOrBelow(x, p) =>
              /\ x \in Entries' <=> x \in Entries /\ ~AtOrBelow(x, old)
              /\ x \in Entries' => tree'[x] = tree[x]
        /\ \A x \in Path : AtOrBelow(x, p) =>
              /\ x \in Entries' <=> Rebase(x, p, old) \in Entries
              /\ x \in Entries' /\ x # p => tree'[x] = tree[Rebase(x, p, old)]
        /\ tree'[p].as = op[t].name
    BY <1>1, <1>9, MoveFacts
  <2>3. /\ \A x \in DOMAIN raw_names : AtOrBelow(x, p) => x \in astray
        /\ \A x \in Entries : AtOrBelow(x, old) => VisibleName(x) = tree[x].as \/ x \in astray
    BY <1>1, <1>9, MoveClear
  <2>4. /\ \A x \in Entries : x \in Path
        /\ \A x \in Entries' : x \in Path
        /\ \A x \in DOMAIN raw_names : x \in Path
    BY DEF IInv, SInv, Shapes, RawSpelled, Entry
  <2>5. \A x : VisibleName(x)' = VisibleName(x)
    BY <1>1 DEF VisibleName
  <2>6. \A u \in Tasks : u # t /\ Busy(u) =>
            ~AtOrBelow(op[u].path, p) /\ ~AtOrBelow(op[u].path, old)
    <3> SUFFICES ASSUME NEW u \in Tasks, u # t, Busy(u)
                 PROVE  ~AtOrBelow(op[u].path, p) /\ ~AtOrBelow(op[u].path, old)
      OBVIOUS
    <3>1. Zone(op[u].path, u) /\ op[u].path \in Path
      BY OpPaths DEF Zone, IInv
    <3> QED BY <1>1, <1>9, <3>1, VerbApart
  <2>7. \A u \in Tasks : u # t /\ Busy(u) =>
            ~AtOrBelow(op[u].old, p) /\ ~AtOrBelow(op[u].old, old)
    <3> SUFFICES ASSUME NEW u \in Tasks, u # t, Busy(u)
                 PROVE  ~AtOrBelow(op[u].old, p) /\ ~AtOrBelow(op[u].old, old)
      OBVIOUS
    <3>1. CASE op[u].kind # "rename"
      <4>1. op[u].old = Root /\ p \in Entry /\ old \in Entry
        BY <1>1, <1>9, <3>1, OpPaths DEF IInv
      <4> QED BY <4>1, BelowOrder
    <3>2. CASE op[u].kind = "rename"
      <4>1. /\ op[u].old \in Entry /\ Parent(op[u].old) \in Path /\ Dir(Parent(op[u].old), u)
            /\ op[u].old \in Path
        BY <3>2, OpPaths DEF IInv, Dir
      <4>2. ~AtOrBelow(Parent(op[u].old), p) /\ ~AtOrBelow(Parent(op[u].old), old)
        BY <1>1, <1>9, <4>1, VerbApart
      <4>3. op[u].old # p /\ op[u].old # old
        BY <1>1, <1>9, <3>2, OtherPaths
      <4> QED BY <1>4, <4>1, <4>2, <4>3, ParentFacts
    <3> QED BY <3>1, <3>2
  <2> HIDE DEF p, old
  <2>8. Alone'
    <3> SUFFICES ASSUME NEW u \in Tasks, NEW v \in Tasks, Moving(u)', Busy(v)', u # v
                 PROVE  /\ ~AtOrBelow(op'[v].path, op'[u].path)
                        /\ ~AtOrBelow(op'[v].path, op'[u].old)
                        /\ ~AtOrBelow(op'[v].old, op'[u].path)
                        /\ ~AtOrBelow(op'[v].old, op'[u].old)
      BY DEF Alone
    <3>1. CASE u = t
      BY <1>2, <1>3, <2>6, <2>7, <3>1 DEF Busy
    <3>2. CASE u # t
      <4>1. Moving(u) /\ Busy(v) /\ op'[u].path = op[u].path /\ op'[u].old = op[u].old
        BY <1>1, <1>2, <3>2 DEF Moving, Busy
      <4>2. op'[v].path = op[v].path /\ op'[v].old = op[v].old
        BY <1>2, <1>3 DEF p, old
      <4> QED BY <4>1, <4>2 DEF IInv, GInv, Alone
    <3> QED BY <3>1, <3>2
  <2>9. Gone(t)'
    <3> SUFFICES ASSUME NEW x \in Entries', AtOrBelow(x, old) PROVE FALSE
      BY <1>3, <2>1 DEF Gone
    <3>1. ~AtOrBelow(x, p)
      BY <1>4, <2>2, <2>4, BelowOrder
    <3> QED BY <2>2, <2>4, <3>1
  <2>10. Made(t)'
    <3>1. AtOrBelow(p, p) /\ Rebase(p, p, old) = old
      BY <1>4, BelowOrder, RebaseKeeps
    <3> QED BY <1>3, <1>4, <2>2, <3>1 DEF Made
  <2>11. Apart(t)' /\ RawClear(t)'
    BY <1>1, <1>3, <2>2, <2>3 DEF Apart, RawClear
  <2>12. NamedBelow(t)'
    <3> SUFFICES ASSUME NEW x \in Entries', AtOrBelow(x, p), x # p
                 PROVE  \/ VisibleName(Rebase(x, p, old)) = tree'[x].as
                        \/ Rebase(x, p, old) \in astray
      BY <1>1, <1>3, <2>5 DEF NamedBelow
    <3>1. Rebase(x, p, old) \in Entries /\ tree'[x] = tree[Rebase(x, p, old)]
      BY <2>2, <2>4
    <3>2. AtOrBelow(Rebase(x, p, old), old)
      BY <1>4, <2>4, RebaseBack
    <3> QED BY <2>3, <3>1, <3>2
  <2>13. TaskInv(t)'
    BY <1>5, <1>6, <2>9, <2>10, <2>11, <2>12 DEF TaskInv
  <2>14. ASSUME NEW x \in DOMAIN raw_names, x \in Entries
         PROVE  x \in Entries' \/ Leaving(x, t)'
    <3>1. ~AtOrBelow(x, p) /\ x \in Path
      BY <2>2, <2>4, <2>14
    <3>2. CASE ~AtOrBelow(x, old)
      BY <2>2, <2>14, <3>1, <3>2
    <3>3. CASE AtOrBelow(x, old)
      <4>1. /\ Rebase(x, old, p) \in Path /\ AtOrBelow(Rebase(x, old, p), p)
            /\ Rebase(Rebase(x, old, p), p, old) = x
        BY <1>4, <3>1, <3>3, RebaseParts, RebaseBack
      <4>2. Rebase(x, old, p) \in Entries'
        BY <2>2, <2>14, <4>1
      <4> QED BY <1>3, <2>1, <3>3, <4>2 DEF Leaving
    <3> QED BY <3>2, <3>3
  <2>15. ASSUME NEW x \in Entries' PROVE SameEntry(x) \/ Settling(x, t)'
    <3>1. CASE AtOrBelow(x, p)
      BY <1>3, <2>1, <3>1 DEF Settling
    <3>2. CASE ~AtOrBelow(x, p)
      BY <2>2, <2>4, <3>2 DEF SameEntry
    <3> QED BY <3>1, <3>2
  <2> QED BY <1>1, <1>2, <1>3, <2>8, <2>13, <2>14, <2>15, VerbFrame
<1> QED BY <1>4, <1>7, <1>8, <1>9

LEMMA VerbLostKeeps ==
    ASSUME IInv, SInv', Gaps = {}, NEW t \in Tasks, VerbLost(t)
    PROVE  GInv'
<1> DEFINE p == op[t].path
           old == op[t].old
<1>1. /\ op[t].step = "verb" /\ Busy(t) /\ Accepts(op[t]) /\ Inside(t)
      /\ tree' = Effect(op[t]) /\ End(t) /\ UNCHANGED raw_names
      /\ astray' = astray \cup {x \in Paths : Concerns(op[t], x)}
  BY DEF VerbLost, Busy
<1>2. op'[t] = Idle /\ \A u \in Tasks : u # t => op'[u] = op[u]
  BY <1>1, OpEnds DEF IInv
<1>3. /\ Locked' /\ Alone' /\ TaskInv(t)'
      /\ \A u \in Tasks : op'[u].path \in Paths /\ op'[u].old \in Paths
  BY <1>2, AfterEnd
<1>4. /\ p \in Path /\ AtOrBelow(p, p)
      /\ op[t].kind \in {"create", "mkdir", "unlink", "rmdir", "rename"}
  BY <1>1, OpPaths, BelowOrder DEF IInv
<1>5. Entries \subseteq Paths /\ Entries' \subseteq Paths
  BY <1>1, VerbTree DEF IInv, GInv, Bounded
<1>6. ASSUME NEW x \in Path, ~Concerns(op[t], x) PROVE SameEntry(x)
  <2>1. CASE op[t].kind \in {"create", "mkdir", "unlink", "rmdir"}
    <3>1. x # p
      BY <1>4, <1>6 DEF Concerns
    <3> QED BY <1>1, <2>1, <3>1, EffectFacts DEF IInv, SameEntry
  <2>2. CASE op[t].kind = "rename"
    <3>1. ~AtOrBelow(x, p) /\ ~AtOrBelow(x, old)
      BY <1>6, <2>2 DEF Concerns
    <3> QED BY <1>1, <2>2, <3>1, MoveFacts DEF SameEntry
  <2> QED BY <1>4, <2>1, <2>2
<1>7. \A x \in Entries \cup Entries' : SameEntry(x) \/ x \in astray'
  BY <1>1, <1>5, <1>6, PathsArePath
<1>8. \A x \in Entries : x \in Entries' \/ x \in astray'
  BY <1>7 DEF SameEntry
<1> QED BY <1>1, <1>2, <1>3, <1>7, <1>8, VerbFrame

------------------------------------------------------------------------------
(* Changes that come from the cloud.                                       *)
LEMMA RemoteFrame ==
    ASSUME IInv, SInv', UNCHANGED <<raw_names, op>>, Entries' \subseteq Paths, Closed',
           astray \subseteq astray',
           \A u \in Tasks : TaskInv(u)',
           \A u \in Tasks : \A x \in DOMAIN raw_names :
               Leaving(x, u) /\ Moving(u) /\ x # op[u].old =>
                   Rebase(x, op[u].old, op[u].path) \in Entries',
           \A x \in DOMAIN raw_names : x \in Entries => x \in Entries' \/ x \in astray',
           \A x \in Entries' : SameEntry(x) \/ VisibleName(x) = tree'[x].as \/ x \in astray'
    PROVE  GInv'
<1>1. Locked' /\ Alone' /\ Bounded'
  BY DEF IInv, GInv, Locked, Alone, Bounded, Busy, Moving
<1>2. \A x : VisibleName(x)' = VisibleName(x)
  BY DEF VisibleName
<1>3. RawLive'
  BY DEF IInv, GInv, RawLive, Leaving, Moving, Removing
<1>4. \A u \in Tasks : \A x : Settling(x, u) => Settling(x, u)'
  BY DEF Settling, Making, Moving
<1>5. Named'
  BY <1>2, <1>4 DEF IInv, GInv, Named, SameEntry
<1> QED BY <1>1, <1>3, <1>5 DEF GInv

LEMMA RemoteRemoveKeeps ==
    ASSUME IInv, SInv', Gaps = {}, NEW p \in Paths \ {Root}, RemoteRemove(p)
    PROVE  GInv'
<1>1. p \in Entry /\ p \in Path
  BY PathsArePath DEF Entry
<1>2. /\ UNCHANGED <<raw_names, op>> /\ p \in Entries /\ Vanishes(p)
      /\ astray' = astray \cup Within(DOMAIN raw_names, p)
      /\ \A x : x \in Entries' <=> x \in Entries /\ ~AtOrBelow(x, p)
      /\ \A x \in Entries' : tree'[x] = tree[x]
  BY DEF RemoteRemove, Without, Within, Entries
<1>3. \A x : ~AtOrBelow(x, p) => SameEntry(x) /\ (IsFolder(x) => IsFolder(x)')
  BY <1>2 DEF SameEntry, IsFolder
<1>4. ASSUME NEW u \in Tasks, Busy(u)
      PROVE  \A x \in Path : Zone(x, u) \/ Dir(x, u) => ~AtOrBelow(x, p)
  <2>1. op[u] # Idle
    <3>1. Idle.step = "idle"
      BY DEF Idle
    <3> QED BY <1>4, <3>1 DEF Busy
  <2>2. /\ ~AtOrBelow(op[u].path, p) /\ ~AtOrBelow(op[u].old, p)
        /\ Moving(u) => ~AtOrBelow(p, op[u].path)
    BY <1>2, <2>1 DEF Vanishes, Within, Moving
  <2>3. Moving(u) => ~AtOrBelow(p, op[u].old)
    BY <1>2 DEF IInv, GInv, TaskInv, Gone
  <2> QED BY <1>1, <1>4, <2>2, <2>3, ZoneApart
<1>5. \A u \in Tasks : TaskInv(u)'
  <2> SUFFICES ASSUME NEW u \in Tasks PROVE TaskInv(u)'
    OBVIOUS
  <2>1. SameWork(u) /\ \A x : SameName(x) /\ StaysAstray(x)
    BY <1>2 DEF SameWork, SameName, StaysAstray
  <2> QED BY <1>3, <1>4, <2>1, TaskFrame
<1>6. Closed'
  <2> SUFFICES ASSUME NEW x \in Entries', NEW q \in Path, AtOrBelow(x, q), x # q
               PROVE  IsFolder(q)'
    BY DEF Closed
  <2>1. x \in Entries /\ ~AtOrBelow(x, p) /\ x \in Path
    BY <1>2 DEF IInv, SInv, Shapes, Entry
  <2>2. IsFolder(q)
    BY <2>1 DEF IInv, GInv, Closed
  <2>3. ~AtOrBelow(q, p)
    BY <1>1, <2>1, BelowOrder
  <2> QED BY <1>3, <2>2, <2>3
<1>7. ASSUME NEW u \in Tasks, NEW x \in DOMAIN raw_names, Leaving(x, u), Moving(u),
             x # op[u].old
      PROVE  Rebase(x, op[u].old, op[u].path) \in Entries'
  <2> DEFINE z == Rebase(x, op[u].old, op[u].path)
  <2>1. z \in Entries /\ AtOrBelow(x, op[u].old)
    BY <1>7 DEF Leaving, Moving, Removing
  <2>2. Busy(u) /\ op[u].path \in Path /\ op[u].old \in Path /\ x \in Path
    BY <1>7, OpPaths DEF IInv, SInv, RawSpelled, Entry, Moving, Busy
  <2>3. z \in Path /\ AtOrBelow(z, op[u].path)
    BY <2>1, <2>2, RebaseParts, RebaseBack
  <2> HIDE DEF z
  <2>4. ~AtOrBelow(z, p)
    BY <1>4, <1>7, <2>2, <2>3 DEF Zone
  <2> QED BY <1>2, <2>1, <2>4 DEF z
<1>8. \A x \in DOMAIN raw_names : x \in Entries => x \in Entries' \/ x \in astray'
  BY <1>2 DEF Within
<1>9. Entries' \subseteq Paths /\ \A x \in Entries' : SameEntry(x)
  BY <1>2, <1>3 DEF IInv, GInv, Bounded
<1> QED BY <1>2, <1>5, <1>6, <1>7, <1>8, <1>9, RemoteFrame

LEMMA RemoteCreateKeeps ==
    ASSUME IInv, SInv', Gaps = {}, NEW p \in Paths \ {Root}, NEW b \in BOOLEAN,
           RemoteCreate(p, b)
    PROVE  GInv'
<1>1. p \in Entry /\ p \in Path /\ Parent(p) \in Path /\ AtOrBelow(p, Parent(p)) /\ p # Root
  BY PathsArePath, ParentFacts DEF Entry
<1>2. /\ UNCHANGED <<raw_names, op, astray>> /\ p \notin Entries /\ IsFolder(Parent(p))
      /\ Appears(p) /\ Entries' = Entries \cup {p}
      /\ tree'[p] = [folder |-> b, as |-> Basename(p)]
      /\ \A x \in Entries : tree'[x] = tree[x]
  BY DEF RemoteCreate, Put, Entries
<1>3. /\ \A x : x # p => SameEntry(x)
      /\ \A x : IsFolder(x) => IsFolder(x)'
      /\ \A x : SameName(x) /\ StaysAstray(x) /\ VisibleName(x)' = VisibleName(x)
  <2>1. \A x : x # p => SameEntry(x)
    BY <1>2 DEF SameEntry
  <2>2. \A x : IsFolder(x) => IsFolder(x)'
    BY <1>2 DEF IsFolder
  <2>3. \A x : SameName(x) /\ StaysAstray(x) /\ VisibleName(x)' = VisibleName(x)
    BY <1>2 DEF SameName, StaysAstray, VisibleName
  <2> QED BY <2>1, <2>2, <2>3
<1>4. \A u \in Tasks : Busy(u) => op[u].path # p /\ op[u].old # p
  <2>1. Idle.step = "idle"
    BY DEF Idle
  <2> QED BY <1>2, <2>1 DEF Appears, Busy
<1>5. ASSUME NEW u \in Tasks, Moving(u) PROVE ~AtOrBelow(p, op[u].old)
  <2>1. SUFFICES ASSUME AtOrBelow(p, op[u].old) PROVE FALSE
    OBVIOUS
  <2>2. op[u].old \in Entry /\ op[u].old \in Path /\ op[u].old # p
    BY <1>4, <1>5, OpPaths DEF IInv, Moving, Busy
  <2>3. AtOrBelow(Parent(p), op[u].old)
    BY <1>1, <2>1, <2>2, ParentFacts
  <2>4. Parent(p) \in Entries
    BY <1>2, <2>2, <2>3, BelowOrder DEF IsFolder
  <2> QED BY <1>5, <2>3, <2>4 DEF IInv, GInv, TaskInv, Gone
<1>6. VisibleName(p) = Basename(p) \/ p \in astray
  <2>1. SUFFICES ASSUME p \in DOMAIN raw_names, p \notin astray PROVE FALSE
    BY DEF VisibleName
  <2>2. PICK u \in Tasks : Leaving(p, u)
    BY <1>2, <2>1 DEF IInv, GInv, RawLive
  <2> QED BY <1>4, <1>5, <2>2 DEF Leaving, Removing, Busy
<1>7. ASSUME NEW u \in Tasks PROVE TaskInv(u)'
  <2>0. SameWork(u) /\ TaskInv(u)
    BY <1>2 DEF SameWork, IInv, GInv
  <2>1. CASE ~(Moving(u) /\ AtOrBelow(p, op[u].path))
    <3>1. \A x \in Path : Busy(u) /\ Zone(x, u) => x # p
      BY <1>4, <1>5, <2>1 DEF Zone
    <3> QED BY <1>3, <2>0, <3>1, TaskFrame
  <2>2. CASE Moving(u) /\ AtOrBelow(p, op[u].path)
    <3>0. Busy(u) /\ op[u].kind = "rename" /\ op[u].step = "record"
      BY <2>2 DEF Moving, Busy
    <3>1. /\ Moving(u)' /\ ~Removing(u)' /\ op'[u] = op[u]
      BY <1>2, <2>2 DEF Moving, Removing
    <3>2. op[u].path \in Path /\ op[u].old \in Path /\ op[u].path # p
      BY <1>4, <3>0, OpPaths DEF IInv
    <3>3. Grounded(u)' /\ Apart(u)' /\ RawClear(u)' /\ Vacant(u)'
      BY <1>2, <1>3, <2>0, <2>2, <3>0, <3>1
         DEF TaskInv, Grounded, Apart, RawClear, Vacant
    <3>4. Gone(u)'
      BY <1>2, <1>5, <2>0, <2>2, <3>1 DEF TaskInv, Gone
    <3>5. Made(u)'
      BY <1>2, <2>0, <2>2, <3>1, <3>2 DEF TaskInv, Made
    <3>6. NamedBelow(u)'
      <4> SUFFICES ASSUME NEW x \in Entries', AtOrBelow(x, op[u].path), x # op[u].path
                   PROVE  \/ VisibleName(Rebase(x, op[u].path, op[u].old)) = tree'[x].as
                          \/ Rebase(x, op[u].path, op[u].old) \in astray
        BY <1>2, <1>3, <3>1 DEF NamedBelow
      <4>1. CASE x # p
        BY <1>2, <2>0, <2>2, <4>1 DEF TaskInv, NamedBelow
      <4>2. CASE x = p
        <5> DEFINE y == Rebase(p, op[u].path, op[u].old)
        <5>1. y \in Path
          BY <1>1, <2>2, <3>2, RebaseParts
        <5>2. AtOrBelow(y, op[u].old) /\ Rebase(y, op[u].old, op[u].path) = p
          BY <1>1, <2>2, <3>2, RebaseBack
        <5>3. y # op[u].old /\ Basename(y) = Basename(p)
          BY <1>1, <2>2, <3>2, RebaseKeeps
        <5> HIDE DEF y
        <5>4. ASSUME y \in DOMAIN raw_names, y \notin astray PROVE FALSE
          <6>1. y \notin Entries
            BY <2>0, <2>2, <5>2 DEF TaskInv, Gone
          <6>2. PICK v \in Tasks : Leaving(y, v)
            BY <5>4, <6>1 DEF IInv, GInv, RawLive
          <6>3. CASE v = u
            BY <1>2, <2>2, <5>2, <5>3, <6>2, <6>3 DEF Leaving, Moving, Removing
          <6>4. CASE v # u
            <7>1. Busy(v) /\ Zone(y, v)
              BY <6>2 DEF Leaving, Zone, Busy, Moving, Removing
            <7> QED BY <2>2, <3>0, <5>1, <5>2, <6>4, <7>1, RecordApart
          <6> QED BY <6>3, <6>4
        <5>5. VisibleName(y) = Basename(p) \/ y \in astray
          BY <5>3, <5>4 DEF VisibleName
        <5> QED BY <1>2, <4>2, <5>5 DEF y
      <4> QED BY <4>1, <4>2
    <3> QED BY <3>3, <3>4, <3>5, <3>6 DEF TaskInv
  <2> QED BY <2>1, <2>2
<1>8. Closed'
  <2> SUFFICES ASSUME NEW x \in Entries', NEW q \in Path, AtOrBelow(x, q), x # q, q # Root
               PROVE  IsFolder(q)
    BY <1>3 DEF Closed, IsFolder
  <2>1. CASE x # p
    BY <1>2, <2>1 DEF IInv, GInv, Closed
  <2>2. CASE x = p
    <3>1. AtOrBelow(Parent(p), q) /\ q \in Entry
      BY <1>1, <2>2, ParentFacts DEF Entry
    <3> QED BY <1>1, <1>2, <3>1, AboveFolder DEF IsFolder, IInv, GInv
  <2> QED BY <2>1, <2>2
<1>9. \A u \in Tasks : \A x \in DOMAIN raw_names : Leaving(x, u) /\ Moving(u) /\ x # op[u].old =>
          Rebase(x, op[u].old, op[u].path) \in Entries'
  BY <1>2 DEF Leaving, Moving, Removing
<1>10. /\ Entries' \subseteq Paths
       /\ \A x \in Entries' : SameEntry(x) \/ VisibleName(x) = tree'[x].as \/ x \in astray'
  BY <1>2, <1>3, <1>6 DEF IInv, GInv, Bounded
<1> QED BY <1>2, <1>7, <1>8, <1>9, <1>10, RemoteFrame

------------------------------------------------------------------------------
LEMMA ClosedStep ==
    ASSUME IInv, Gaps = {}, [Next]_vars
    PROVE  IInv'
<1>0. SInv'
  BY ShapeStep DEF IInv
<1>1. ASSUME NEW t \in Tasks, Start(t) PROVE GInv'
  BY <1>0, <1>1, StartKeeps
<1>2. ASSUME NEW t \in Tasks, Check(t) PROVE GInv'
  BY <1>0, <1>2, CheckKeeps
<1>3. ASSUME NEW t \in Tasks, Verb(t) PROVE GInv'
  BY <1>0, <1>3, VerbKeeps
<1>4. ASSUME NEW t \in Tasks, VerbRefused(t) PROVE GInv'
  BY <1>0, <1>4, RefusedKeeps
<1>5. ASSUME NEW t \in Tasks, VerbLost(t) PROVE GInv'
  BY <1>0, <1>5, VerbLostKeeps
<1>6. ASSUME NEW t \in Tasks, RecordMake(t) PROVE GInv'
  BY <1>0, <1>6, RecordMakeKeeps
<1>7. ASSUME NEW t \in Tasks, CreateFails(t) PROVE GInv'
  BY <1>0, <1>7, CreateFailsKeeps
<1>8. ASSUME NEW t \in Tasks, RecordRemove(t) PROVE GInv'
  BY <1>0, <1>8, RecordRemoveKeeps
<1>9. ASSUME NEW t \in Tasks, RecordRename(t) PROVE GInv'
  BY <1>0, <1>9, RecordRenameKeeps
<1>10. ASSUME NEW p \in Paths, List(p) \/ Invalidate(p) PROVE GInv'
  <2>1. UNCHANGED <<tree, raw_names, op, astray>>
    BY <1>10 DEF List, Invalidate
  <2> QED BY <2>1, CacheKeeps
<1>11. ASSUME NEW p \in Paths \ {Root}, RemoteRemove(p) PROVE GInv'
  BY <1>0, <1>11, RemoteRemoveKeeps
<1>12. ASSUME NEW p \in Paths \ {Root}, NEW b \in BOOLEAN, RemoteCreate(p, b) PROVE GInv'
  BY <1>0, <1>12, RemoteCreateKeeps
<1>13. ASSUME UNCHANGED vars PROVE GInv'
  <2>1. UNCHANGED <<tree, raw_names, op, astray>>
    BY <1>13 DEF vars
  <2> QED BY <2>1, CacheKeeps
<1>14. GInv'
  BY StepKinds, <1>1, <1>2, <1>3, <1>4, <1>5, <1>6, <1>7, <1>8, <1>9, <1>10, <1>11, <1>12,
     <1>13, Zenon
<1> QED BY <1>0, <1>14 DEF IInv

LEMMA ClosedInvariant ==
    ASSUME Gaps = {}
    PROVE  Spec => []IInv
<1>1. Init => IInv
  BY InitShapes, Initially DEF IInv
<1>2. IInv /\ [Next]_vars => IInv'
  BY ClosedStep
<1> QED BY <1>1, <1>2, PTL DEF Spec

(* The types of the maps and of the handlers: no entry and no handler is   *)
(* deeper than the tree allows, whatever is moved, and no name in normal   *)
(* form is kept as a raw name.                                             *)
THEOREM TypeCorrect ==
    ASSUME Gaps = {}
    PROVE  Spec => []TypeOK
<1>1. IInv => TypeOK
  <2> SUFFICES ASSUME IInv PROVE TypeOK
    OBVIOUS
  <2>1. ASSUME NEW t \in Tasks PROVE op[t].dirs \subseteq Paths
    <3>1. CASE Busy(t)
      <4>1. op[t].dirs = LocksOf(op[t].kind, op[t].path, op[t].old)
        BY <3>1 DEF IInv, GInv, Locked
      <4>2. /\ op[t].path \in Entry /\ op[t].path \in Paths
            /\ op[t].kind = "rename" => op[t].old \in Entry /\ op[t].old \in Paths
        BY <3>1, OpPaths DEF IInv, GInv, Bounded
      <4>3. \A p \in Entry : p \in Paths => Parent(p) \in Paths
        <5> SUFFICES ASSUME NEW p \in Entry, p \in Paths PROVE Parent(p) \in Paths
          OBVIOUS
        <5>1. Parent(p) \in Path /\ Len(Parent(p)) = Len(p) - 1 /\ Len(p) \in Nat
          BY ParentFacts
        <5>2. Len(p) <= MaxDepth
          BY PathInPaths DEF Entry
        <5>3. Len(Parent(p)) <= MaxDepth
          BY <5>1, <5>2, MaxDepthAssumption
        <5> QED BY <5>1, <5>3, PathInPaths
      <4> QED BY <4>1, <4>2, <4>3 DEF LocksOf
    <3>2. CASE ~Busy(t)
      <4>1. Idle.dirs = {}
        BY DEF Idle
      <4>2. op[t] = Idle
        BY <3>2 DEF IInv, SInv, OpNamed
      <4> QED BY <4>1, <4>2
    <3> QED BY <3>1, <3>2
  <2> QED BY <2>1 DEF TypeOK, IInv, SInv, Shapes, RawSpelled, GInv, Bounded, Path, Entry
<1> QED BY <1>1, ClosedInvariant, PTL

(* With the windows closed an entry is visible under exactly the spelling  *)
(* it was given through the mount, or under its NFC name if it came from   *)
(* the cloud, through every create, mkdir, unlink, rmdir and rename of any *)
(* number of handlers, but where the mount did not learn what happened: a  *)
(* verb's reply lost, a create failed half way, a raw-named entry removed  *)
(* remotely; and there only until a handler names or removes the path.     *)
THEOREM VisibleNamesAreTheGiven ==
    ASSUME Gaps = {}
    PROVE  Spec => []VisibleAsNamed
<1>1. IInv => VisibleAsNamed
  <2> SUFFICES ASSUME IInv, NEW p \in Entries, p \notin astray, VisibleName(p) # tree[p].as
               PROVE  Unsettled(p)
    BY DEF VisibleAsNamed
  <2>1. PICK t \in Tasks : Settling(p, t)
    BY DEF IInv, GInv, Named
  <2>2. p \in Path /\ AtOrBelow(p, p)
    BY BelowOrder DEF IInv, SInv, Shapes, Entry
  <2> QED BY <2>1, <2>2 DEF Settling, Unsettled, Concerns, Making, Moving
<1> QED BY <1>1, ClosedInvariant, PTL

(* With the windows closed refuse_nfc_collision is enough: the engine's    *)
(* create, which empties a file that it finds, finds none, whatever other  *)
(* handlers do and whichever replies are lost.                             *)
THEOREM CreatesClobberNothing ==
    ASSUME Gaps = {}
    PROVE  Spec => NoClobber
<1> DEFINE Safe == \A t \in Tasks :
                       op[t].step = "verb" /\ op[t].kind = "create" => op[t].path \notin Entries
<1>1. IInv => Safe
  BY DEF IInv, GInv, TaskInv, Vacant
<1>2. Safe => [\A t \in Tasks :
                  /\ op[t].step = "verb" /\ op'[t].step = "record"
                  /\ op[t].kind = "create"
                  => op[t].path \notin Entries]_vars
  OBVIOUS
<1> HIDE DEF Safe
<1> QED BY <1>1, <1>2, ClosedInvariant, PTL DEF NoClobber
==============================================================================
