------------------------------ MODULE WritePath ------------------------------
(***************************************************************************)
(* The write path of fuse_fs.rs: open, create, mknod, write, fsync,        *)
(* release and the size half of setattr, as interleaved handlers of one    *)
(* mount.  A handler runs without interruption between two awaits; each    *)
(* IPC verb is one step of the engine, since the `ipc` mutex is held for   *)
(* the whole round trip.                                                   *)
(*                                                                         *)
(* File contents are version numbers: bytes[f] counts the changes made to  *)
(* the cache file of f, sent[f] is the version the cloud holds.  Names     *)
(* play no part here (see HandleNames for renames): a handle works on the  *)
(* file it was opened for.                                                 *)
(*                                                                         *)
(* External, as fuse_fs.rs uses it: the engine's open set of the current   *)
(* connection (dropped with the connection), and the kernel, which sends   *)
(* RELEASE of an fh once, after every other request on it was answered,    *)
(* and at most one FSYNC of an inode at a time.                            *)
(***************************************************************************)
EXTENDS Naturals, FiniteSets

CONSTANTS
    Files,              \* regular files
    NoFile,             \* none of them
    Handles,            \* handle ids: one per open, create, mknod, bare truncate
    MaxVersion,         \* bound: changes made to one file
    Faults              \* may the connection be lost and verbs fail?

ASSUME WritePathAssumption ==
    /\ NoFile \notin Files
    /\ MaxVersion \in Nat
    /\ Faults \in BOOLEAN

VARIABLES
    bytes, sent,    \* per file: version in the cache, version in the cloud
    reported,       \* per file: version whose upload failure was logged or returned
    openSet,        \* the engine's open set of the current connection
    phase, kind,    \* per handle: where its handler is, and what it is for
    file,           \* per handle: the file it is for
    dirty,          \* per handle: OpenHandle.dirty
    wrote,          \* per handle: the last version of its file made through it
    fsync,          \* per handle: where its FSYNC is
    claim,          \* per handle: wrote[h] when that FSYNC claimed the dirty bit
    acked           \* per handle: what the last successful FSYNC promised

handleVars == <<phase, kind, file, dirty, wrote>>
fsyncVars == <<fsync, claim, acked>>
vars == <<bytes, sent, reported, openSet, phase, kind, file, dirty, wrote,
          fsync, claim, acked>>

Opens == {"read", "write", "trunc"}          \* FUSE OPEN; "trunc" has O_TRUNC
Creates == {"create", "mknod"}               \* create_internal
Bare == {"trunc0", "truncN"}                 \* SETATTR size without an fh
Kinds == Opens \cup Creates \cup Bare

Phases == {"none",         \* the id is not in use yet
           "started",      \* the handler runs, its first IPC is still to come
           "registered",   \* the engine answered with the cache path
           "opened",       \* the cache file is open, the handle not inserted
           "open",         \* in open_handles
           "upload",       \* about to send open_write
           "close",        \* about to send close_handle
           "done",
           "abandoned"}    \* ended by a failed local open, never closed

Init ==
    /\ bytes = [f \in Files |-> 0]
    /\ sent = [f \in Files |-> 0]
    /\ reported = [f \in Files |-> 0]
    /\ openSet = {}
    /\ phase = [h \in Handles |-> "none"]
    /\ kind = [h \in Handles |-> "read"]
    /\ file = [h \in Handles |-> NoFile]
    /\ dirty = [h \in Handles |-> FALSE]
    /\ wrote = [h \in Handles |-> 0]
    /\ fsync = [h \in Handles |-> "idle"]
    /\ claim = [h \in Handles |-> 0]
    /\ acked = [h \in Handles |-> 0]

Goto(h, p) == phase' = [phase EXCEPT ![h] = p]

(* The handlers that will still change f: a bound must not stop them.      *)
WillChange(f) ==
    {h \in Handles :
        /\ file[h] = f
        /\ \/ phase[h] = "started" /\ kind[h] \in Creates \cup Bare \cup {"trunc"}
           \/ phase[h] = "registered" /\ kind[h] = "truncN"}

Room(f) == bytes[f] + Cardinality(WillChange(f)) < MaxVersion

(* A change of the cache file of h's file, made through h.                 *)
Change(h) ==
    /\ bytes' = [bytes EXCEPT ![file[h]] = @ + 1]
    /\ wrote' = [wrote EXCEPT ![h] = bytes[file[h]] + 1]

(* The failure of what h changed is logged, or returned to the caller.     *)
Report(h) ==
    reported' = [reported EXCEPT ![file[h]] = IF wrote[h] > @ THEN wrote[h] ELSE @]

------------------------------------------------------------------------------
(* open and the bare truncates, up to the first IPC: the kernel knows the  *)
(* inode, so no create of it is still unanswered.                          *)
Start(h, k, f) ==
    /\ phase[h] = "none"
    /\ k \in Opens \cup Bare
    /\ \A g \in Handles : file[g] = f /\ kind[g] \in Creates =>
          phase[g] \in {"open", "upload", "close", "done", "abandoned"}
    /\ Room(f)
    /\ Goto(h, "started")
    /\ kind' = [kind EXCEPT ![h] = k]
    /\ file' = [file EXCEPT ![h] = f]
    /\ UNCHANGED <<bytes, sent, reported, openSet, dirty, wrote, fsyncVars>>

\* Mutant: the handler does not note which file its handle is for.
StartCreateNameless(h, k, f) ==
    /\ phase[h] = "none"
    /\ k \in Creates
    /\ \A g \in Handles : file[g] # f
    /\ Room(f)
    /\ Goto(h, "started")
    /\ kind' = [kind EXCEPT ![h] = k]
    /\ UNCHANGED <<bytes, sent, reported, openSet, file, dirty, wrote, fsyncVars>>

(* create and mknod, up to the first IPC: the name is new.                 *)
StartCreate(h, k, f) ==
    /\ phase[h] = "none"
    /\ k \in Creates
    /\ \A g \in Handles : file[g] # f
    /\ Room(f)
    /\ Goto(h, "started")
    /\ kind' = [kind EXCEPT ![h] = k]
    /\ file' = [file EXCEPT ![h] = f]
    /\ UNCHANGED <<bytes, sent, reported, openSet, dirty, wrote, fsyncVars>>

(* open_read: the engine hydrates the cache file and registers the handle. *)
OpenRead(h) ==
    /\ phase[h] = "started" /\ kind[h] \in {"read", "write", "truncN"}
    /\ openSet' = openSet \cup {h}
    /\ Goto(h, "registered")
    /\ UNCHANGED <<bytes, sent, reported, kind, file, dirty, wrote, fsyncVars>>

(* open_write_begin empties the cache file.  It registers the handle of an *)
(* O_TRUNC open; the bare truncate passes no handle id.                    *)
OpenWriteBegin(h) ==
    /\ phase[h] = "started" /\ kind[h] \in {"trunc", "trunc0"}
    /\ Change(h)
    /\ openSet' = IF kind[h] = "trunc" THEN openSet \cup {h} ELSE openSet
    /\ Goto(h, IF kind[h] = "trunc" THEN "registered" ELSE "upload")
    /\ UNCHANGED <<sent, reported, kind, file, dirty, fsyncVars>>

(* The create verb: an empty cache file the cloud does not have yet.       *)
CreateVerb(h) ==
    /\ phase[h] = "started" /\ kind[h] \in Creates
    /\ Change(h)
    /\ openSet' = openSet \cup {h}
    /\ Goto(h, "registered")
    /\ UNCHANGED <<sent, reported, kind, file, dirty, fsyncVars>>

(* The first verb returns an error and had no effect.                      *)
FirstVerbRefused(h) ==
    /\ Faults
    /\ phase[h] = "started"
    /\ Goto(h, "done")
    /\ UNCHANGED <<bytes, sent, reported, openSet, kind, file, dirty, wrote, fsyncVars>>

(* open_write_begin and create are not retried: when the connection breaks *)
(* after the engine acted, the caller gets EIO and the change stays.       *)
FirstVerbLost(h) ==
    /\ Faults
    /\ phase[h] = "started" /\ kind[h] \in Creates \cup {"trunc", "trunc0"}
    /\ Change(h)
    /\ openSet' = {}
    /\ reported' = [reported EXCEPT ![file[h]] = bytes[file[h]] + 1]
    /\ Goto(h, "done")
    /\ UNCHANGED <<sent, kind, file, dirty, fsyncVars>>

(* Opening the cache file; truncN goes on to set_len and its upload.       *)
OpenCacheFile(h) ==
    /\ phase[h] = "registered"
    /\ IF kind[h] = "truncN"
       THEN Change(h) /\ Goto(h, "upload")
       ELSE Goto(h, "opened") /\ UNCHANGED <<bytes, wrote>>
    /\ UNCHANGED <<sent, reported, openSet, kind, file, dirty, fsyncVars>>

(* The cache file cannot be opened (or, for truncN, set_len fails): EIO.   *)
(* The bare truncate closes its handle first; open and create do not.      *)
OpenCacheFileFails(h) ==
    /\ phase[h] = "registered"
    /\ Goto(h, IF kind[h] = "truncN" THEN "close" ELSE "abandoned")
    /\ Report(h)
    /\ UNCHANGED <<bytes, sent, openSet, kind, file, dirty, wrote, fsyncVars>>

(* The handle goes into open_handles; an emptied or new file starts dirty. *)
InsertHandle(h) ==
    /\ phase[h] = "opened"
    /\ dirty' = [dirty EXCEPT ![h] = kind[h] \in Creates \cup {"trunc"}]
    /\ Goto(h, "open")
    /\ UNCHANGED <<bytes, sent, reported, openSet, kind, file, wrote, fsyncVars>>

------------------------------------------------------------------------------
Writable(h) == phase[h] = "open" /\ kind[h] \in {"write", "trunc", "create"}

(* pwrite and the dirty mark, both under the open_handles lock.            *)
Write(h) ==
    /\ Writable(h)
    /\ Room(file[h])
    /\ Change(h)
    /\ dirty' = [dirty EXCEPT ![h] = TRUE]
    /\ UNCHANGED <<sent, reported, openSet, phase, kind, file, fsyncVars>>

(* SETATTR size with an fh: set_len, then the dirty mark, under that lock. *)
SetLen(h) ==
    /\ Writable(h)
    /\ Room(file[h])
    /\ Change(h)
    /\ dirty' = [dirty EXCEPT ![h] = TRUE]
    /\ UNCHANGED <<sent, reported, openSet, phase, kind, file, fsyncVars>>

------------------------------------------------------------------------------
(* Local sync, then the claim of the dirty bit with swap(false); a clean   *)
(* handle is acknowledged at once.                                         *)
FsyncClaim(h) ==
    /\ phase[h] = "open" /\ kind[h] # "mknod" /\ fsync[h] = "idle"
    /\ \A g \in Handles : file[g] = file[h] => fsync[g] = "idle"
    /\ dirty' = [dirty EXCEPT ![h] = FALSE]
    /\ claim' = [claim EXCEPT ![h] = wrote[h]]
    /\ IF dirty[h]
       THEN fsync' = [fsync EXCEPT ![h] = "claimed"] /\ UNCHANGED acked
       ELSE acked' = [acked EXCEPT ![h] = wrote[h]] /\ UNCHANGED fsync
    /\ UNCHANGED <<bytes, sent, reported, openSet, phase, kind, file, wrote>>

(* open_write: the engine uploads the cache file as it is now, and has the *)
(* handle in its open set.                                                 *)
FsyncUpload(h) ==
    /\ fsync[h] = "claimed"
    /\ sent' = [sent EXCEPT ![file[h]] = bytes[file[h]]]
    /\ openSet' = openSet \cup {h}
    /\ fsync' = [fsync EXCEPT ![h] = "uploaded"]
    /\ UNCHANGED <<bytes, reported, handleVars, claim, acked>>

\* Mutant: the dirty bit is cleared again once the upload is through.
FsyncReturnsOkClears(h) ==
    /\ fsync[h] = "uploaded"
    /\ dirty' = [dirty EXCEPT ![h] = FALSE]
    /\ fsync' = [fsync EXCEPT ![h] = "idle"]
    /\ acked' = [acked EXCEPT ![h] = claim[h]]
    /\ UNCHANGED <<bytes, sent, reported, openSet, phase, kind, file, wrote, claim>>

(* Success leaves the dirty bit alone: a write may have set it again.      *)
FsyncReturnsOk(h) ==
    /\ fsync[h] = "uploaded"
    /\ fsync' = [fsync EXCEPT ![h] = "idle"]
    /\ acked' = [acked EXCEPT ![h] = claim[h]]
    /\ UNCHANGED <<bytes, sent, reported, openSet, handleVars, claim>>

(* open_write fails: refused, or the connection broke before (or after)    *)
(* the engine acted.                                                       *)
FsyncUploadFails(h) ==
    /\ Faults
    /\ fsync[h] = "claimed"
    /\ \/ UNCHANGED <<sent, openSet>>
       \/ /\ openSet' = {}
          /\ \/ UNCHANGED sent
             \/ sent' = [sent EXCEPT ![file[h]] = bytes[file[h]]]
    /\ fsync' = [fsync EXCEPT ![h] = "failed"]
    /\ UNCHANGED <<bytes, reported, handleVars, claim, acked>>

\* Mutant: the claimed dirty bit is not given back.
FsyncReturnsErrorClean(h) ==
    /\ fsync[h] = "failed"
    /\ fsync' = [fsync EXCEPT ![h] = "idle"]
    /\ UNCHANGED <<bytes, sent, reported, openSet, handleVars, claim, acked>>

(* The dirty bit is restored before the error is returned.                 *)
FsyncReturnsError(h) ==
    /\ fsync[h] = "failed"
    /\ dirty' = [dirty EXCEPT ![h] = TRUE]
    /\ fsync' = [fsync EXCEPT ![h] = "idle"]
    /\ UNCHANGED <<bytes, sent, reported, openSet, phase, kind, file, wrote, claim, acked>>

------------------------------------------------------------------------------
(* RELEASE takes the handle out of open_handles; mknod does the same to    *)
(* its synthetic handle.                                                   *)
Release(h) ==
    /\ phase[h] = "open" /\ fsync[h] = "idle"
    /\ Goto(h, IF dirty[h] THEN "upload" ELSE "close")
    /\ UNCHANGED <<bytes, sent, reported, openSet, kind, file, dirty, wrote, fsyncVars>>

(* open_write of release, mknod and the bare truncates.                    *)
Upload(h) ==
    /\ phase[h] = "upload"
    /\ sent' = [sent EXCEPT ![file[h]] = bytes[file[h]]]
    /\ openSet' = openSet \cup {h}
    /\ Goto(h, "close")
    /\ UNCHANGED <<bytes, reported, kind, file, dirty, wrote, fsyncVars>>

\* Mutant: a failed upload returns early, the handle is not closed.
UploadFailsEarly(h) ==
    /\ Faults
    /\ phase[h] = "upload"
    /\ \/ UNCHANGED <<sent, openSet>>
       \/ /\ openSet' = {}
          /\ \/ UNCHANGED sent
             \/ sent' = [sent EXCEPT ![file[h]] = bytes[file[h]]]
    /\ Report(h)
    /\ Goto(h, "done")
    /\ UNCHANGED <<bytes, kind, file, dirty, wrote, fsyncVars>>

\* Mutant: after a failed upload the handle is put back for a later release.
UploadFailsReinserts(h) ==
    /\ Faults
    /\ phase[h] = "upload"
    /\ openSet' = {}
    /\ Goto(h, "open")
    /\ UNCHANGED <<bytes, sent, reported, kind, file, dirty, wrote, fsyncVars>>

(* It fails: logged (release, mknod) or returned (truncate); the handle is *)
(* closed all the same.                                                    *)
UploadFails(h) ==
    /\ Faults
    /\ phase[h] = "upload"
    /\ \/ UNCHANGED <<sent, openSet>>
       \/ /\ openSet' = {}
          /\ \/ UNCHANGED sent
             \/ sent' = [sent EXCEPT ![file[h]] = bytes[file[h]]]
    /\ Report(h)
    /\ Goto(h, "close")
    /\ UNCHANGED <<bytes, kind, file, dirty, wrote, fsyncVars>>

(* close_handle is retried; when it still fails, the connection is gone,   *)
(* and its open set with it.                                               *)
Close(h) ==
    /\ phase[h] = "close"
    /\ openSet' = openSet \ {h}
    /\ Goto(h, "done")
    /\ UNCHANGED <<bytes, sent, reported, kind, file, dirty, wrote, fsyncVars>>

CloseFails(h) ==
    /\ Faults
    /\ phase[h] = "close"
    /\ openSet' = {}
    /\ Goto(h, "done")
    /\ UNCHANGED <<bytes, sent, reported, kind, file, dirty, wrote, fsyncVars>>

(* The daemon goes away: the engine forgets the open set of the connection.*)
ConnectionLost ==
    /\ Faults
    /\ openSet # {}
    /\ openSet' = {}
    /\ UNCHANGED <<bytes, sent, reported, handleVars, fsyncVars>>

------------------------------------------------------------------------------
(* The steps a started handler takes by itself.                            *)
FirstVerb(h) ==
    \/ OpenRead(h) \/ OpenWriteBegin(h) \/ CreateVerb(h)
    \/ FirstVerbRefused(h) \/ FirstVerbLost(h)

OpenSteps(h) == OpenCacheFile(h) \/ OpenCacheFileFails(h) \/ InsertHandle(h)

FsyncSteps(h) ==
    \/ FsyncUpload(h) \/ FsyncReturnsOk(h)
    \/ FsyncUploadFails(h) \/ FsyncReturnsError(h)

ReleaseSteps(h) == Upload(h) \/ UploadFails(h) \/ Close(h) \/ CloseFails(h)

MknodRelease(h) == kind[h] = "mknod" /\ Release(h)

KernelRelease(h) == kind[h] # "mknod" /\ Release(h)

Next ==
    \/ \E h \in Handles :
          \/ \E f \in Files, k \in Kinds : Start(h, k, f) \/ StartCreate(h, k, f)
          \/ FirstVerb(h) \/ OpenSteps(h)
          \/ Write(h) \/ SetLen(h)
          \/ FsyncClaim(h) \/ FsyncSteps(h)
          \/ KernelRelease(h) \/ MknodRelease(h) \/ ReleaseSteps(h)
    \/ ConnectionLost

Spec == Init /\ [][Next]_vars

(* A handler that was started is run to its end by the async runtime: its  *)
(* IPC verbs return within the reconnect budget (see Reconnect).  What the *)
(* kernel sends, and whether it sends it, is not fair.                     *)
Fairness ==
    \A h \in Handles :
        /\ WF_vars(FirstVerb(h))
        /\ WF_vars(OpenSteps(h))
        /\ WF_vars(FsyncSteps(h))
        /\ WF_vars(MknodRelease(h))
        /\ WF_vars(ReleaseSteps(h))

FairSpec == Spec /\ Fairness

------------------------------------------------------------------------------
\* Types.
TypeOK ==
    /\ bytes \in [Files -> Nat]
    /\ sent \in [Files -> Nat]
    /\ reported \in [Files -> Nat]
    /\ openSet \subseteq Handles
    /\ phase \in [Handles -> Phases]
    /\ kind \in [Handles -> Kinds]
    /\ file \in [Handles -> Files \cup {NoFile}]
    /\ \A h \in Handles : phase[h] # "none" => file[h] \in Files
    /\ dirty \in [Handles -> BOOLEAN]
    /\ wrote \in [Handles -> Nat]
    /\ fsync \in [Handles -> {"idle", "claimed", "uploaded", "failed"}]
    /\ claim \in [Handles -> Nat]
    /\ acked \in [Handles -> Nat]

(* What h changed is still on its way: its upload is owed by the dirty     *)
(* bit, by the fsync that claimed it, or by a handler yet to send it.      *)
Owed(h) ==
    \/ phase[h] \in {"registered", "opened", "upload"}
    \/ phase[h] = "open" /\ dirty[h]
    \/ fsync[h] \in {"claimed", "failed"}

(* No local change is silently dropped, however writes, fsyncs, releases   *)
(* and failed uploads interleave: what was changed through a handle is in  *)
(* the cloud, or its upload is still owed, or its failure was logged or    *)
(* returned to the caller.                                                 *)
NoSilentLoss ==
    \A h \in Handles :
        phase[h] # "none" =>
            \/ wrote[h] <= sent[file[h]]
            \/ Owed(h)
            \/ wrote[h] <= reported[file[h]]

(* A successful fsync is a durability promise: everything changed through  *)
(* the handle before the fsync has reached the cloud.                      *)
FsyncDurable ==
    \A h \in Handles : phase[h] # "none" => acked[h] <= sent[file[h]]

(* The upload comes before the close: open_write registers the handle      *)
(* again.  An id whose handler is finished is not in the engine's open     *)
(* set, whatever failed, unless its cache file could not be opened.        *)
OpenSetMatched == \A h \in openSet : phase[h] \notin {"none", "done"}

(* "Every JVM-registered open must be matched by a close_handle": also one *)
(* whose cache file could not be opened.                                   *)
EveryOpenMatched == \A h \in openSet : phase[h] \notin {"none", "done", "abandoned"}

(* Every request is answered in the end, whatever fails on the way: opens, *)
(* creates, truncates and fsyncs.  A released handle is closed, and what it*)
(* changed is by then in the cloud or its failure reported.                *)
HandlersSettle ==
    \A h \in Handles :
        /\ phase[h] = "upload" ~>
              /\ phase[h] = "done"
              /\ wrote[h] <= sent[file[h]] \/ wrote[h] <= reported[file[h]]
        /\ phase[h] \notin {"none", "open"} ~> phase[h] \in {"open", "done", "abandoned"}
        /\ fsync[h] # "idle" ~> fsync[h] = "idle"

(* The write path as its callers see it: a file that changes, a durable    *)
(* copy of it, and fsyncs that promise only what the copy has.             *)
Durable == INSTANCE DurableFile WITH
    current <- bytes, durable <- sent, promised <- acked, Clients <- Handles

(* The handlers implement it: the cloud only ever takes the cache file as  *)
(* it then is, and what an fsync promises it promises for good.            *)
ImplementsDurable == Durable!Spec
==============================================================================
