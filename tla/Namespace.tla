------------------------------ MODULE Namespace ------------------------------
(***************************************************************************)
(* The namespace handlers of fuse_fs.rs (lookup, create, mkdir, unlink,    *)
(* rmdir, rename) and `raw_names`, the map that remembers under which      *)
(* spelling an entry was named through this mount.  Remote paths are keyed *)
(* in NFC; two spellings of one name may not become one entry.             *)
(*                                                                         *)
(* A handler is up to three steps: the collision check, the engine's verb, *)
(* and the update of the mount's maps.  What is local to one directory     *)
(* does not interleave, since the kernel holds the directory's lock across *)
(* the handler; everything else does, renames of the directory itself,     *)
(* listings, invalidations and remote changes included.                    *)
(*                                                                         *)
(* External: the engine and the changes it brings from the cloud.  For the *)
(* properties, an entry of `tree` carries the spelling it was named with,  *)
(* and `astray` has the paths whose raw names the mount can not know to be *)
(* right: what a verb did whose reply was lost, what went away remotely.   *)
(***************************************************************************)
EXTENDS Paths

CONSTANTS
    Spellings,   \* names as applications spell them; the NFC ones are Names
    Nfc,         \* function: the normal form of a spelling
    Tasks,       \* concurrent handlers
    MaxOps,      \* bound: handlers started
    MaxRemote,   \* bound: changes made remotely
    Gaps         \* which windows of the handlers are open: see Inside,
                 \* Appears and Vanishes

ASSUME NamespaceAssumption ==
    /\ Names \subseteq Spellings
    /\ Nfc \in [Spellings -> Names]
    /\ \A n \in Names : Nfc[n] = n
    /\ MaxOps \in Nat /\ MaxRemote \in Nat
    /\ Gaps \subseteq {"inside", "appears", "vanishes"}

VARIABLES
    tree,        \* the engine's entries: path -> [folder, as]
    raw_names,   \* path -> spelling
    cached,      \* paths with an inode and cached attributes
    op,          \* per task: the handler it runs
    astray,      \* ghost: paths left without a record
    ops, remote

vars == <<tree, raw_names, cached, op, astray, ops, remote>>

Idle == [kind |-> "none", step |-> "idle", path |-> Root, name |-> "", old |-> Root,
         dirs |-> {}]

Init ==
    /\ tree = << >>
    /\ raw_names = << >>
    /\ cached = {}
    /\ op = [t \in Tasks |-> Idle]
    /\ astray = {}
    /\ ops = 0
    /\ remote = 0

------------------------------------------------------------------------------
Put(f, k, v) == [x \in DOMAIN f \cup {k} |-> IF x = k THEN v ELSE f[x]]

Without(f, S) == [x \in DOMAIN f \ S |-> f[x]]

(* The entries S of f, all at or below old, are moved to new.              *)
Move(f, S, old, new) ==
    LET moved == {Rebase(p, old, new) : p \in S}
    IN [p \in (DOMAIN f \ S) \cup moved |->
           f[IF p \in moved THEN Rebase(p, new, old) ELSE p]]

Parent(p) == SubSeq(p, 1, Len(p) - 1)
Basename(p) == p[Len(p)]
Within(S, p) == {q \in S : AtOrBelow(q, p)}

ChildPath(dir, name) == Append(dir, Nfc[name])

Entries == DOMAIN tree
Children(dir) == {p \in Entries : Parent(p) = dir}
IsFolder(p) == p = Root \/ (p \in Entries /\ tree[p].folder)

VisibleName(p) == IF p \in DOMAIN raw_names THEN raw_names[p] ELSE Basename(p)

(* lookup: the path a name resolves to, or Root for ENOENT.  Only the      *)
(* exact visible name resolves; attributes are cached, or listed.          *)
Lookup(dir, name) ==
    LET cp == ChildPath(dir, name)
    IN IF VisibleName(cp) = name /\ cp \in cached \cup Entries THEN cp ELSE Root

\* Mutant: a name in normal form is kept as well.
RecordRawNameAlways(raw, p, name) == Put(raw, p, name)

(* record_raw_name, forget_raw_names and rename_raw_names.                 *)
RecordRawName(raw, p, name) ==
    IF Nfc[name] = name THEN Without(raw, {p}) ELSE Put(raw, p, name)

\* Mutant: a removed entry leaves its raw name behind.
ForgetRawNamesNone(raw, p) == raw

ForgetRawNames(raw, p) == Without(raw, Within(DOMAIN raw, p))

RenameRawNames(raw, old, new) ==
    LET below == Without(raw, {old})
    IN Move(below, Within(DOMAIN below, old), old, new)

------------------------------------------------------------------------------
End(t) == op' = [op EXCEPT ![t] = Idle]

StepTo(t, s) == op' = [op EXCEPT ![t].step = s]

(* The kernel starts a handler: it has looked the name up, and holds the   *)
(* locks of the directories.  An entry that another handler has just made  *)
(* or moved is not found, and nothing in it, before that one has replied.  *)
Begin(t, k, p, name, old, dirs, step) ==
    /\ op[t] = Idle /\ ops < MaxOps
    /\ \A d \in dirs : IsFolder(d)
    /\ \A u \in Tasks : op[u].dirs \cap dirs = {}
    /\ \A u \in Tasks : op[u].step = "record" => Within(dirs, op[u].path) = {}
    /\ op' = [op EXCEPT ![t] =
                 [kind |-> k, step |-> step, path |-> p, name |-> name, old |-> old,
                  dirs |-> dirs]]
    /\ ops' = ops + 1
    /\ UNCHANGED <<tree, raw_names, cached, astray, remote>>

BeginMake(t, k, dir, name) ==
    /\ k \in {"create", "mkdir"}
    /\ Lookup(dir, name) = Root
    /\ Begin(t, k, ChildPath(dir, name), name, Root, {dir}, "check")

BeginRemove(t, k, dir, name) ==
    /\ k \in {"unlink", "rmdir"}
    /\ Lookup(dir, name) # Root
    /\ Begin(t, k, ChildPath(dir, name), name, Root,
             IF k = "rmdir" THEN {dir, ChildPath(dir, name)} ELSE {dir}, "verb")

BeginRename(t, dir, name, newDir, newName) ==
    LET old == ChildPath(dir, name)
    IN /\ Lookup(dir, name) # Root
       /\ ~AtOrBelow(newDir, old)
       /\ <<dir, name>> # <<newDir, newName>>
       /\ Begin(t, "rename", ChildPath(newDir, newName), newName, old, {dir, newDir}, "check")

\* Mutant: the name is not checked against other spellings.
CheckNothing(t) ==
    /\ op[t].step = "check"
    /\ StepTo(t, "verb")
    /\ UNCHANGED <<tree, raw_names, cached, astray, ops, remote>>

(* refuse_nfc_collision: the visible name passes without IPC; any other    *)
(* spelling passes when nothing is cached or listed at the path.  The list *)
(* verb fills the cache, or fails, which ends the handler.                 *)
Check(t) ==
    LET o == op[t]
        passes == VisibleName(o.path) = o.name
        listed == cached \cup Children(Parent(o.path))
    IN /\ o.step = "check"
       /\ \/ passes /\ StepTo(t, "verb") /\ UNCHANGED cached
          \/ ~passes /\ o.path \in cached /\ End(t) /\ UNCHANGED cached
          \/ /\ ~passes /\ o.path \notin cached
             /\ cached' = listed
             /\ IF o.path \in listed THEN End(t) ELSE StepTo(t, "verb")
          \/ ~passes /\ o.path \notin cached /\ End(t) /\ UNCHANGED cached
       /\ UNCHANGED <<tree, raw_names, astray, ops, remote>>

------------------------------------------------------------------------------
(* The engine's pre-flight checks, and what the verb does to its entries.  *)
(* create empties a file that is already there.                            *)
Accepts(o) ==
    CASE o.kind = "create" -> IsFolder(Parent(o.path)) /\ ~IsFolder(o.path)
      [] o.kind = "mkdir" -> IsFolder(Parent(o.path)) /\ o.path \notin Entries
      [] o.kind = "unlink" -> o.path \in Entries /\ ~IsFolder(o.path)
      [] o.kind = "rmdir" -> o.path \in Entries /\ IsFolder(o.path) /\ Children(o.path) = {}
      [] o.kind = "rename" ->
            /\ o.old \in Entries /\ o.path \notin Entries /\ IsFolder(Parent(o.path))
            /\ ~AtOrBelow(o.path, o.old)
            /\ \A p \in Within(Entries, o.old) : Rebase(p, o.old, o.path) \in Paths

Effect(o) ==
    CASE o.kind \in {"create", "mkdir"} ->
            Put(tree, o.path, [folder |-> o.kind = "mkdir", as |-> o.name])
      [] o.kind \in {"unlink", "rmdir"} -> Without(tree, {o.path})
      [] o.kind = "rename" ->
            LET moved == Move(tree, Within(Entries, o.old), o.old, o.path)
            IN [moved EXCEPT ![o.path].as = o.name]

(* Where a handler's record would bring the raw names up to date.          *)
Concerns(o, p) == \/ AtOrBelow(p, o.path)
                  \/ o.kind = "rename" /\ AtOrBelow(p, o.old)

(* A folder is renamed with a handler at work inside: the kernel does not  *)
(* lock a folder it renames within its parent, and the handler goes on     *)
(* under the old path.                                                     *)
Inside(t) ==
    \/ "inside" \in Gaps
    \/ op[t].kind = "rename" =>
          \A u \in Tasks \ {t} :
              op[u] # Idle => Within({op[u].path, op[u].old}, op[t].old) = {}

Verb(t) ==
    /\ op[t].step = "verb" /\ Accepts(op[t]) /\ Inside(t)
    /\ tree' = Effect(op[t])
    /\ StepTo(t, "record")
    /\ UNCHANGED <<raw_names, cached, astray, ops, remote>>

(* An error reply: EEXIST, ENOENT, ... or EIO.                             *)
VerbRefused(t) ==
    /\ op[t].step = "verb"
    /\ End(t)
    /\ UNCHANGED <<tree, raw_names, cached, astray, ops, remote>>

(* The verb was executed and its reply lost: none of these is sent again,  *)
(* the caller gets EIO and the mount's maps stay as they were.             *)
VerbLost(t) ==
    /\ op[t].step = "verb" /\ Accepts(op[t]) /\ Inside(t)
    /\ tree' = Effect(op[t])
    /\ astray' = astray \cup {p \in Paths : Concerns(op[t], p)}
    /\ End(t)
    /\ UNCHANGED <<raw_names, cached, ops, remote>>

------------------------------------------------------------------------------
(* After the reply: path map, attributes and raw names, each under its own *)
(* lock; no other handler uses the entries of this directory meanwhile.    *)
(* What is recorded is no longer astray.                                   *)
RecordMake(t) ==
    /\ op[t].step = "record" /\ op[t].kind \in {"create", "mkdir"}
    /\ cached' = cached \cup {op[t].path}
    /\ raw_names' = RecordRawName(raw_names, op[t].path, op[t].name)
    /\ astray' = astray \ {op[t].path}
    /\ End(t)
    /\ UNCHANGED <<tree, ops, remote>>

(* create_internal cannot open the cache file: EIO, nothing is recorded,   *)
(* the new entry's name neither.                                           *)
CreateFails(t) ==
    /\ op[t].step = "record" /\ op[t].kind = "create"
    /\ astray' = astray \cup {op[t].path}
    /\ End(t)
    /\ UNCHANGED <<tree, raw_names, cached, ops, remote>>

RecordRemove(t) ==
    /\ op[t].step = "record" /\ op[t].kind \in {"unlink", "rmdir"}
    /\ cached' = cached \ {op[t].path}
    /\ raw_names' = ForgetRawNames(raw_names, op[t].path)
    /\ astray' = astray \ Within(astray, op[t].path)
    /\ End(t)
    /\ UNCHANGED <<tree, ops, remote>>

\* Mutant: the new name is recorded at the old path.
RecordRenameOldPath(t) ==
    LET old == op[t].old
        new == op[t].path
        follow(S) == (S \ Within(S, old)) \cup {Rebase(p, old, new) : p \in Within(S, old)}
    IN /\ op[t].step = "record" /\ op[t].kind = "rename"
       /\ cached' = follow(cached \ Within(cached, new))
       /\ raw_names' = RecordRawName(RenameRawNames(raw_names, old, new), old, op[t].name)
       /\ astray' = follow(astray) \ {new}
       /\ op' = [u \in Tasks |-> IF u = t THEN Idle
                                 ELSE [op[u] EXCEPT !.dirs = follow(@)]]
       /\ UNCHANGED <<tree, ops, remote>>

(* rename moves what lies below, and the locks of handlers below with it.  *)
RecordRename(t) ==
    LET old == op[t].old
        new == op[t].path
        follow(S) == (S \ Within(S, old)) \cup {Rebase(p, old, new) : p \in Within(S, old)}
    IN /\ op[t].step = "record" /\ op[t].kind = "rename"
       /\ cached' = follow(cached \ Within(cached, new))
       /\ raw_names' = RecordRawName(RenameRawNames(raw_names, old, new), new, op[t].name)
       /\ astray' = follow(astray) \ {new}
       /\ op' = [u \in Tasks |-> IF u = t THEN Idle
                                 ELSE [op[u] EXCEPT !.dirs = follow(@)]]
       /\ UNCHANGED <<tree, ops, remote>>

------------------------------------------------------------------------------
(* lookup on a miss, getattr on a miss, readdir and readdirplus.           *)
List(dir) ==
    /\ IsFolder(dir)
    /\ cached' = cached \cup Children(dir)
    /\ UNCHANGED <<tree, raw_names, op, astray, ops, remote>>

(* view.invalidated: attributes go, raw names stay.                        *)
Invalidate(p) ==
    /\ cached' = cached \ Within(cached, p)
    /\ UNCHANGED <<tree, raw_names, op, astray, ops, remote>>

(* An entry comes from the cloud at the path a handler has just checked,   *)
(* or at the one a rename has just left.                                   *)
Appears(p) ==
    \/ "appears" \in Gaps
    \/ \A t \in Tasks : op[t] # Idle => op[t].path # p /\ op[t].old # p

(* The cloud takes away what a handler is at work on: the handler goes on, *)
(* and may record a name for it.                                           *)
Vanishes(p) ==
    \/ "vanishes" \in Gaps
    \/ \A t \in Tasks :
          op[t] # Idle => /\ Within({op[t].path, op[t].old}, p) = {}
                          /\ op[t].step = "record" => ~AtOrBelow(p, op[t].path)

RemoteCreate(p, folder) ==
    /\ remote < MaxRemote
    /\ p \notin Entries /\ IsFolder(Parent(p)) /\ Appears(p)
    /\ tree' = Put(tree, p, [folder |-> folder, as |-> Basename(p)])
    /\ remote' = remote + 1
    /\ UNCHANGED <<raw_names, cached, op, astray, ops>>

RemoteRemove(p) ==
    /\ remote < MaxRemote
    /\ p \in Entries /\ Vanishes(p)
    /\ tree' = Without(tree, Within(Entries, p))
    /\ astray' = astray \cup Within(DOMAIN raw_names, p)
    /\ remote' = remote + 1
    /\ UNCHANGED <<raw_names, cached, op, ops>>

Next ==
    \/ \E t \in Tasks :
          \/ \E dir \in Paths, name \in Spellings :
                /\ op[t] = Idle /\ ops < MaxOps /\ Len(dir) < MaxDepth
                /\ \/ \E k \in {"create", "mkdir"} : BeginMake(t, k, dir, name)
                   \/ \E k \in {"unlink", "rmdir"} : BeginRemove(t, k, dir, name)
                   \/ \E newDir \in Paths, newName \in Spellings :
                         Len(newDir) < MaxDepth /\ BeginRename(t, dir, name, newDir, newName)
          \/ Check(t) \/ Verb(t) \/ VerbRefused(t) \/ VerbLost(t)
          \/ RecordMake(t) \/ CreateFails(t) \/ RecordRemove(t) \/ RecordRename(t)
    \/ \E p \in Paths : List(p) \/ Invalidate(p)
    \/ \E p \in Paths \ {Root} : RemoteRemove(p) \/ \E b \in BOOLEAN : RemoteCreate(p, b)

Spec == Init /\ [][Next]_vars

------------------------------------------------------------------------------
\* Types; only a name that is not in normal form is kept as a raw name.
TypeOK ==
    /\ Entries \subseteq Paths
    /\ \A p \in Entries : tree[p] \in [folder : BOOLEAN, as : Spellings]
    /\ \A p \in DOMAIN raw_names : p \in Seq(Names) /\ raw_names[p] \in Spellings \ Names
    /\ \A p \in cached \cup astray : p \in Seq(Names)
    /\ \A t \in Tasks : op[t].path \in Paths /\ op[t].dirs \subseteq Paths
    /\ ops \in Nat /\ remote \in Nat

(* A name that readdir shows can be looked up, and no other spelling of it *)
(* resolves to the entry: a raw name is always a spelling of the last      *)
(* component of its path.                                                  *)
ListedResolves ==
    \A p \in Entries : \A name \in Spellings :
        Lookup(Parent(p), name) = p <=> name = VisibleName(p)

(* A handler is about to record what it did to p, or to what p lies below. *)
Unsettled(p) == \E t \in Tasks : op[t].step = "record" /\ Concerns(op[t], p)

(* An entry named through the mount is visible under exactly the spelling  *)
(* it was given, one that came from the cloud under its NFC name, whatever *)
(* is created, renamed and removed at, above or below it.  Where a reply   *)
(* was lost, a create failed half way or an entry with a raw name was      *)
(* removed remotely, the name shown may be wrong until a handler names the *)
(* path again; nowhere else, unless a rename brings it there.              *)
VisibleAsNamed ==
    \A p \in Entries : Unsettled(p) \/ p \in astray \/ VisibleName(p) = tree[p].as

(* create never empties a file that is there, of this spelling or another: *)
(* between the collision check and the verb nothing that the mount does,   *)
(* replies lost or not, puts one at its path.                              *)
NoClobber ==
    [][\A t \in Tasks :
          /\ op[t].step = "verb" /\ op'[t].step = "record"
          /\ op[t].kind = "create"
          => op[t].path \notin Entries]_vars
==============================================================================
