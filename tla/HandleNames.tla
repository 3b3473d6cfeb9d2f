----------------------------- MODULE HandleNames -----------------------------
(***************************************************************************)
(* Renames against open files (fuse_fs.rs).  A rename changes four views   *)
(* of a name one after the other: the engine's (and with it where the      *)
(* cache file lies), the PathMap's, and that of every OpenHandle; an open, *)
(* an fsync or a release in flight carries a copy of its own.  The module  *)
(* asks whether an upload names the file it is for.                        *)
(*                                                                         *)
(* A file is an identity: its inode and its cache file, which an open fd   *)
(* keeps whatever it is called.  Remote path and cache path are one value: *)
(* the cache mirrors the remote tree and follow_rename moves both.         *)
(* External: the engine; and the kernel, which locks the inode of a file   *)
(* it renames, as FSYNC does, but locks neither for OPEN and RELEASE nor   *)
(* for what lies below a folder it renames.  It sends renames in different *)
(* directories at the same time, of a folder and of what lies below it     *)
(* too; the directory locks with which it orders the others are left out,  *)
(* so that any renames may overlap here.                                   *)
(***************************************************************************)
EXTENDS Paths

CONSTANTS
    Files,      \* regular files
    Home,       \* the path each of them has at first
    Handles,    \* handle ids
    NoFile,     \* no file
    Renames,    \* rename handlers that may be in flight at the same time
    MaxMoves,   \* bound: renames the engine executes
    Races       \* what may happen around a rename: handlers in flight, a lost reply

ASSUME HandleNamesAssumption ==
    /\ Home \in [Files -> Paths \ {Root}]
    /\ \A f, g \in Files : Home[f] = Home[g] => f = g
    /\ NoFile \notin Files
    /\ MaxMoves \in Nat
    /\ Races \subseteq {"open", "fsync", "release", "lost"}

VARIABLES
    where,       \* per file: its path in the engine, and of its cache file
    inodePath,   \* per file: the path PathMap has for its inode, Root if none
    phase,       \* per handle: where its handler is (see WritePath)
    name,        \* per handle: the path its handler or its OpenHandle holds
    file,        \* per handle: the file its fd is open on
    dirty,       \* per handle: OpenHandle.dirty
    fsync,       \* per handle: "idle", or the path its fsync copied
    strayed,     \* handles with an upload that took another file's content
    ren,         \* per rename: its stage, old and new path, the inode it locks, and
                 \* what the engine moved for it
    moves,       \* renames the engine has executed
    crossed,     \* ghost: handles that a rename of their file met half way
    estranged    \* ghost: files a rename without a reply, or two entangled ones, moved

handleVars == <<phase, name, file, dirty, fsync, strayed>>
renVars == <<ren, moves, crossed, estranged>>
vars == <<where, inodePath, handleVars, renVars>>

Idle == [stage |-> "idle", old |-> Root, new |-> Root, inode |-> NoFile, moved |-> {}]
Renaming == \E r \in Renames : ren[r].stage # "idle"
NoFsync == Root     \* no file is called ""

(* The file whose path is p, for the engine.                               *)
Occupant(p) == IF \E f \in Files : where[f] = p
               THEN CHOOSE f \in Files : where[f] = p
               ELSE NoFile

\* Mutant: the rest of a path below the renamed folder is forgotten.
FollowFlat(p, old, new) == IF AtOrBelow(p, old) THEN new ELSE p

(* What a name becomes when `old` is renamed to `new`: follow_rename for a *)
(* handle, PathMap::rename for an inode, and the engine for its entries.   *)
Follow(p, old, new) == IF AtOrBelow(p, old) THEN Rebase(p, old, new) ELSE p

\* Mutant: only the renamed entry itself follows, not what lies below it.
FollowExact(p, old, new) == IF p = old THEN new ELSE p

FollowHandle(p, old, new) == Follow(p, old, new)
FollowInode(p, old, new) == Follow(p, old, new)

Init ==
    /\ where = Home
    /\ inodePath = Home
    /\ phase = [h \in Handles |-> "none"]
    /\ name = [h \in Handles |-> Root]
    /\ file = [h \in Handles |-> NoFile]
    /\ dirty = [h \in Handles |-> FALSE]
    /\ fsync = [h \in Handles |-> NoFsync]
    /\ strayed = {}
    /\ ren = [r \in Renames |-> Idle]
    /\ moves = 0 /\ crossed = {} /\ estranged = {}

(* The handler, and with it what it knew of the file, is gone.             *)
Finish(h) ==
    /\ phase' = [phase EXCEPT ![h] = "done"]
    /\ name' = [name EXCEPT ![h] = Root]
    /\ file' = [file EXCEPT ![h] = NoFile]
    /\ dirty' = [dirty EXCEPT ![h] = FALSE]

(* Handlers in flight, by the kind of request.                             *)
Opening(h) == phase[h] \in {"resolved", "registered", "opened"}
Releasing(h) == phase[h] = "upload"
InFlight ==
    {k \in {"open", "fsync", "release"} :
        \E h \in Handles : \/ k = "open" /\ Opening(h)
                           \/ k = "fsync" /\ fsync[h] # NoFsync
                           \/ k = "release" /\ Releasing(h)}

May(k) == Renaming => k \in Races

------------------------------------------------------------------------------
(* open: the inode's path is read under the `paths` lock, used after it.   *)
OpenResolve(h, f) ==
    /\ phase[h] = "none" /\ May("open")
    /\ phase' = [phase EXCEPT ![h] = "resolved"]
    /\ name' = [name EXCEPT ![h] = inodePath[f]]
    /\ UNCHANGED <<where, inodePath, file, dirty, fsync, strayed, renVars>>

(* open_read: the engine refuses a path it does not have.                  *)
OpenRegister(h) ==
    /\ phase[h] = "resolved"
    /\ IF Occupant(name[h]) = NoFile
       THEN Finish(h)
       ELSE /\ phase' = [phase EXCEPT ![h] = "registered"]
            /\ UNCHANGED <<name, file, dirty>>
    /\ UNCHANGED <<where, inodePath, fsync, strayed, renVars>>

(* The cache file is opened by its path: whatever lies there now.          *)
OpenCacheFile(h) ==
    /\ phase[h] = "registered"
    /\ IF Occupant(name[h]) = NoFile
       THEN Finish(h)
       ELSE /\ file' = [file EXCEPT ![h] = Occupant(name[h])]
            /\ phase' = [phase EXCEPT ![h] = "opened"]
            /\ UNCHANGED <<name, dirty>>
    /\ UNCHANGED <<where, inodePath, fsync, strayed, renVars>>

OpenInsert(h) ==
    /\ phase[h] = "opened"
    /\ phase' = [phase EXCEPT ![h] = "open"]
    /\ UNCHANGED <<where, inodePath, name, file, dirty, fsync, strayed, renVars>>

Write(h) ==
    /\ phase[h] = "open"
    /\ dirty' = [dirty EXCEPT ![h] = TRUE]
    /\ UNCHANGED <<where, inodePath, phase, name, file, fsync, strayed, renVars>>

------------------------------------------------------------------------------
(* open_write of handle h under path p: the engine reads the cache file at *)
(* p and commits it as p; it fails when nothing lies there.                *)
Uploads(p) == Occupant(p) # NoFile
Stray(h, p) ==
    strayed' = IF Occupant(p) \in {file[h], NoFile} THEN strayed ELSE strayed \cup {h}

(* fsync copies the path and claims the dirty bit under the handles lock.  *)
FsyncClaim(h) ==
    /\ phase[h] = "open" /\ dirty[h] /\ fsync[h] = NoFsync /\ May("fsync")
    /\ \A r \in Renames : ren[r].inode # file[h]
    /\ fsync' = [fsync EXCEPT ![h] = name[h]]
    /\ dirty' = [dirty EXCEPT ![h] = FALSE]
    /\ UNCHANGED <<where, inodePath, phase, name, file, strayed, renVars>>

FsyncUpload(h) ==
    /\ fsync[h] # NoFsync
    /\ fsync' = [fsync EXCEPT ![h] = NoFsync]
    /\ dirty' = [dirty EXCEPT ![h] = @ \/ ~Uploads(fsync[h])]
    /\ Stray(h, fsync[h])
    /\ UNCHANGED <<where, inodePath, phase, name, file, renVars>>

(* The engine has renamed, PathMap and the handles have yet to follow.     *)
Pending(r) == ren[r].stage \in {"paths", "handles"}

(* release takes the handle out of open_handles, with the path it has now. *)
Release(h) ==
    /\ phase[h] = "open" /\ fsync[h] = NoFsync /\ May("release")
    /\ IF dirty[h]
       THEN /\ phase' = [phase EXCEPT ![h] = "upload"]
            /\ UNCHANGED <<name, file, dirty>>
       ELSE Finish(h)
    /\ crossed' = IF \E r \in Renames : Pending(r) /\ file[h] \in ren[r].moved
                  THEN crossed \cup {h} ELSE crossed
    /\ UNCHANGED <<where, inodePath, fsync, strayed, ren, moves, estranged>>

ReleaseUpload(h) ==
    /\ phase[h] = "upload"
    /\ Finish(h)
    /\ Stray(h, name[h])
    /\ UNCHANGED <<where, inodePath, fsync, renVars>>

------------------------------------------------------------------------------
(* rename of a file, or of a folder with files below it, that the kernel   *)
(* has looked up: PathMap or the engine knows it.  A folder is not moved   *)
(* into itself.                                                            *)
RenameResolve(r, old, new) ==
    LET inode == IF \E f \in Files : inodePath[f] = old
                 THEN CHOOSE f \in Files : inodePath[f] = old ELSE NoFile
    IN /\ ren[r].stage = "idle" /\ moves < MaxMoves
       /\ InFlight \subseteq Races
       /\ \E f \in Files : AtOrBelow(inodePath[f], old) \/ AtOrBelow(where[f], old)
       /\ ~AtOrBelow(new, old)
       /\ \A h \in Handles : fsync[h] # NoFsync => file[h] # inode
       /\ ren' = [ren EXCEPT ![r] = [stage |-> "verb", old |-> old, new |-> new,
                                     inode |-> inode, moved |-> {}]]
       /\ UNCHANGED <<where, inodePath, handleVars, moves, crossed, estranged>>

(* What the engine moves, and when it does: the source exists, the         *)
(* destination does not, and no part of it is a file.                      *)
Taken(r) == {f \in Files : AtOrBelow(where[f], ren[r].old)}
Accepts(r) ==
    /\ Taken(r) # {}
    /\ \A f \in Files : ~AtOrBelow(where[f], ren[r].new) /\ ~AtOrBelow(ren[r].new, where[f])
    /\ \A f \in Taken(r) : Rebase(where[f], ren[r].old, ren[r].new) \in Paths

(* The pending renames that r gets in the way of: a path of the one is, or *)
(* lies above or below, a path of the other.                               *)
Meets(p, q) == AtOrBelow(p, q) \/ AtOrBelow(q, p)
InTheWay(r, u) ==
    \E p \in {ren[r].old, ren[r].new}, q \in {ren[u].old, ren[u].new} : Meets(p, q)
Entangled(r) == {u \in Renames \ {r} : Pending(u) /\ InTheWay(r, u)}

(* The engine moves the remote entry and the cache files below it.         *)
Move(r) ==
    /\ ren[r].stage = "verb" /\ Accepts(r)
    /\ moves < MaxMoves
    /\ moves' = moves + 1
    /\ where' = [f \in Files |-> Follow(where[f], ren[r].old, ren[r].new)]
    /\ UNCHANGED <<inodePath, handleVars>>

RenameVerb(r) ==
    /\ Move(r)
    /\ ren' = [ren EXCEPT ![r].stage = "paths", ![r].moved = Taken(r)]
    /\ crossed' = crossed \cup {h \in Handles : /\ phase[h] \in {"opened", "upload"}
                                               /\ file[h] \in Taken(r)}
    /\ estranged' = IF Entangled(r) = {} THEN estranged
                    ELSE estranged \cup Taken(r) \cup UNION {ren[u].moved : u \in Entangled(r)}

(* The reply is lost: the verb is not sent again, the handler returns EIO  *)
(* and neither PathMap nor a handle follows.                               *)
RenameLost(r) ==
    /\ "lost" \in Races
    /\ Move(r)
    /\ ren' = [ren EXCEPT ![r] = Idle]
    /\ estranged' = estranged \cup Taken(r)
    /\ UNCHANGED crossed

(* The engine refuses it, or was not reached.                              *)
RenameRefused(r) ==
    /\ ren[r].stage = "verb"
    /\ ren' = [ren EXCEPT ![r] = Idle]
    /\ UNCHANGED <<where, inodePath, handleVars, moves, crossed, estranged>>

(* PathMap::rename (see PathMap): what lies at or below `old` moves, and   *)
(* if anything does, folders too, what lay at or below `new` is dropped.   *)
RenamePaths(r) ==
    LET old == ren[r].old
        new == ren[r].new
        moving == {f \in Files : AtOrBelow(inodePath[f], old)}
        stale == {f \in Files \ moving : AtOrBelow(inodePath[f], new)}
    IN /\ ren[r].stage = "paths"
       /\ \E dropped \in {stale, IF moving = {} THEN {} ELSE stale} :
             inodePath' = [f \in Files |-> IF f \in dropped THEN Root
                                           ELSE FollowInode(inodePath[f], old, new)]
       /\ ren' = [ren EXCEPT ![r].stage = "handles"]
       /\ UNCHANGED <<where, handleVars, moves, crossed, estranged>>

(* Every handle in open_handles follows, under one lock.                   *)
RenameHandles(r) ==
    /\ ren[r].stage = "handles"
    /\ name' = [h \in Handles |-> IF phase[h] = "open"
                                  THEN FollowHandle(name[h], ren[r].old, ren[r].new)
                                  ELSE name[h]]
    /\ ren' = [ren EXCEPT ![r] = Idle]
    /\ UNCHANGED <<where, inodePath, phase, file, dirty, fsync, strayed, moves, crossed, estranged>>

HandlerStep(h) ==
    \/ OpenRegister(h) \/ OpenCacheFile(h) \/ OpenInsert(h)
    \/ FsyncUpload(h) \/ ReleaseUpload(h)

Next ==
    \/ \E h \in Handles :
          \/ \E f \in Files : OpenResolve(h, f)
          \/ Write(h) \/ FsyncClaim(h) \/ Release(h)
          \/ HandlerStep(h)
    \/ \E r \in Renames :
          \/ \E old, new \in Paths \ {Root} : RenameResolve(r, old, new)
          \/ RenameVerb(r) \/ RenameLost(r) \/ RenameRefused(r)
          \/ RenamePaths(r) \/ RenameHandles(r)

Spec == Init /\ [][Next]_vars

------------------------------------------------------------------------------
\* Types; no two files share a path.
TypeOK ==
    /\ where \in [Files -> Paths \ {Root}]
    /\ inodePath \in [Files -> Seq(Names)]
    /\ \A f, g \in Files : where[f] = where[g] => f = g
    /\ phase \in [Handles -> {"none", "resolved", "registered", "opened", "open",
                              "upload", "done"}]
    /\ name \in [Handles -> Seq(Names)]
    /\ file \in [Handles -> Files \cup {NoFile}]
    /\ dirty \in [Handles -> BOOLEAN]
    /\ fsync \in [Handles -> Seq(Names)]
    /\ strayed \subseteq Handles
    /\ ren \in [Renames -> [stage : {"idle", "verb", "paths", "handles"}, old : Paths,
                             new : Paths, inode : Files \cup {NoFile}, moved : SUBSET Files]]
    /\ moves \in Nat /\ crossed \subseteq Handles /\ estranged \subseteq Files

(* "The upload at release must name the new remote path and the cache file *)
(* where it is now": whenever a release is about to send open_write, the   *)
(* path it sends is the one its file has, however many renames there were  *)
(* of it or of folders above it, unless one met the handle half way:       *)
(* before it was in open_handles, or after it was taken out; or its file   *)
(* was moved without a reply, or by two renames that got in each other's   *)
(* way.                                                                    *)
ReleaseNamesItsFile ==
    \A h \in Handles :
        phase[h] = "upload" => \/ name[h] = where[file[h]]
                               \/ h \in crossed \/ file[h] \in estranged

(* PathMap and every open handle, also one below a renamed folder, know    *)
(* the engine's path of a file once no rename that moved it is under way,  *)
(* whatever other renames are: with the same exceptions.                   *)
NamesAgree ==
    \A f \in Files \ estranged :
        (\A r \in Renames : f \notin ren[r].moved) =>
            /\ inodePath[f] = where[f]
            /\ \A h \in Handles \ crossed :
                  phase[h] = "open" /\ file[h] = f => name[h] = where[f]

(* An upload that succeeded took the content of the handle's own file: an  *)
(* fsync that returns Ok has committed the bytes it was asked to commit.   *)
UploadsItsOwn == strayed = {}
==============================================================================
