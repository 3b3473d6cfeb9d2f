------------------------------ MODULE Recovery ------------------------------
(***************************************************************************)
(* The life of a mount process: run_async of run.rs with the startup       *)
(* connect (reconnect.rs), the profile lock (profile_lock.rs) and the      *)
(* crash-recovery scan (cache_scanner.rs).  Several processes may be       *)
(* started on one profile, and any of them is killed at any point.         *)
(*                                                                         *)
(* File contents are version numbers, as in WritePath: bytes[f] counts the *)
(* changes of the cache file (0: there is none), cloud[f] is the version   *)
(* the cloud holds.  The clock counts milliseconds; connects are counted   *)
(* in retry intervals.  A served mount is reduced to what it does to the   *)
(* files and their timestamps.                                             *)
(*                                                                         *)
(* External: the daemon, whose create and open_write stamp the row of the  *)
(* path with the current time and whose unlink deletes it; the file        *)
(* system, which stamps a file with its clock's last granule; the kernel,  *)
(* which drops the flock of a process that ends.                           *)
(***************************************************************************)
EXTENDS Integers

CONSTANTS
    Procs,        \* mount processes of one profile
    Files,        \* files of the profile
    NoProc,       \* the lock is free
    NoFile,       \* no file is being looked at
    Granule,      \* file timestamps are multiples of this many ms
    Budget,       \* STARTUP_CONNECT_BUDGET, in intervals
    MaxVersion,   \* bound: changes of a file
    MaxClock,     \* bound: the clock
    MaxStarts     \* bound: processes started

ASSUME RecoveryAssumption ==
    /\ NoProc \notin Procs
    /\ NoFile \notin Files
    /\ Granule \in Nat \ {0}
    /\ Budget \in Nat /\ MaxVersion \in Nat /\ MaxClock \in Nat /\ MaxStarts \in Nat

VARIABLES
    pc,       \* per process: where run_async is
    conn,     \* per process: the scanner's connection
    tries,    \* per process: intervals slept in the startup connect
    todo,     \* per process: files the scan has yet to look at
    seen,     \* per process: the file being looked at
    time,     \* per process: its modification time as stat gave it
    warned,   \* per process: files its scan skipped with a warning
    lock,     \* who holds the profile lock
    daemon,   \* "up", "down", or "refuses" (up, but not for this token)
    bytes, mtime,   \* per file: the cache file
    cloud, stamp,   \* per file: the cloud's version, the daemon's last_synced
    gone,     \* files removed through a mount and not created again
    evict,    \* files whose cache file unlink has yet to remove
    clock, starts

scanVars == <<todo, seen, time, warned>>
procVars == <<pc, conn, tries, todo, seen, time, warned, lock, starts>>
diskVars == <<bytes, mtime, cloud, stamp, gone>>
fileVars == <<bytes, mtime, cloud, stamp, gone, evict>>
vars == <<pc, conn, tries, todo, seen, time, warned, lock, daemon,
          bytes, mtime, cloud, stamp, gone, evict, clock, starts>>

NoRow == -1     \* last_synced is unknown: the daemon has no row of the path

Present == {f \in Files : bytes[f] > 0}

(* A timestamp the file system gives now.                                  *)
FileTime == clock - (clock % Granule)

(* Some files are cached from earlier mounts: uploaded, or created and not *)
(* uploaded when the mount was killed; of some the daemon has no row.      *)
Init ==
    /\ pc = [p \in Procs |-> "off"]
    /\ conn = [p \in Procs |-> "none"]
    /\ tries = [p \in Procs |-> 0]
    /\ todo = [p \in Procs |-> {}]
    /\ seen = [p \in Procs |-> NoFile]
    /\ time = [p \in Procs |-> 0]
    /\ warned = [p \in Procs |-> {}]
    /\ lock = NoProc
    /\ daemon = "up"
    /\ bytes \in [Files -> {0, 1}]
    /\ mtime = [f \in Files |-> 0]
    /\ cloud \in [Files -> {0, 1}]
    /\ stamp \in [Files -> {NoRow, 0}]
    /\ \A f \in Files : cloud[f] <= bytes[f] /\ (bytes[f] = 0 => stamp[f] = NoRow)
    /\ gone = {}
    /\ evict = {}
    /\ clock = 0
    /\ starts = 0

Goto(p, l) == pc' = [pc EXCEPT ![p] = l]

(* The process ends, by returning an error or by being killed: its memory, *)
(* connection and lock go with it.                                         *)
Exit(p) ==
    /\ Goto(p, "off")
    /\ conn' = [conn EXCEPT ![p] = "none"]
    /\ tries' = [tries EXCEPT ![p] = 0]
    /\ todo' = [todo EXCEPT ![p] = {}]
    /\ seen' = [seen EXCEPT ![p] = NoFile]
    /\ time' = [time EXCEPT ![p] = 0]
    /\ warned' = [warned EXCEPT ![p] = {}]
    /\ lock' = IF lock = p THEN NoProc ELSE lock
    /\ evict' = IF pc[p] \in {"live", "unmount"} THEN {} ELSE evict
    /\ UNCHANGED starts

------------------------------------------------------------------------------
Start(p) ==
    /\ pc[p] = "off" /\ starts < MaxStarts
    /\ Goto(p, "connect")
    /\ starts' = starts + 1
    /\ UNCHANGED <<conn, tries, scanVars, lock, daemon, fileVars, clock>>

(* connect_auth_at_startup.                                                *)
StartupConnect(p) ==
    /\ pc[p] = "connect" /\ daemon = "up"
    /\ conn' = [conn EXCEPT ![p] = "live"]
    /\ Goto(p, "lock")
    /\ UNCHANGED <<tries, scanVars, lock, starts, daemon, fileVars, clock>>

\* Mutant: the budget of the startup connect is not looked at.
StartupRetryForever(p) ==
    /\ pc[p] = "connect" /\ daemon = "down"
    /\ tries' = [tries EXCEPT ![p] = (tries[p] + 1) % (Budget + 1)]
    /\ UNCHANGED <<pc, conn, scanVars, lock, starts, daemon, fileVars, clock>>

(* Only a listener that is not there yet is waited for.                    *)
StartupRetry(p) ==
    /\ pc[p] = "connect" /\ daemon = "down" /\ tries[p] < Budget
    /\ tries' = [tries EXCEPT ![p] = @ + 1]
    /\ UNCHANGED <<pc, conn, scanVars, lock, starts, daemon, fileVars, clock>>

(* The budget is used up, or the daemon went away in the middle of the     *)
(* handshake, or it refuses: the error is returned.                        *)
StartupGivesUp(p) ==
    /\ pc[p] = "connect" /\ daemon # "up"
    /\ Exit(p)
    /\ UNCHANGED <<daemon, diskVars, clock>>

\* Mutant: a lock that is held does not stop the mount.
AcquireShared(p) ==
    /\ pc[p] = "lock"
    /\ lock' = IF lock = NoProc THEN p ELSE lock
    /\ Goto(p, "collect")
    /\ UNCHANGED <<conn, tries, scanVars, starts, daemon, fileVars, clock>>

(* flock(LOCK_EX | LOCK_NB).                                               *)
Acquire(p) ==
    /\ pc[p] = "lock" /\ lock = NoProc
    /\ lock' = p
    /\ Goto(p, "collect")
    /\ UNCHANGED <<conn, tries, scanVars, starts, daemon, fileVars, clock>>

(* The lock is held, or the lock file cannot be opened.                    *)
AcquireFails(p) ==
    /\ pc[p] = "lock"
    /\ Exit(p)
    /\ UNCHANGED <<daemon, diskVars, clock>>

------------------------------------------------------------------------------
(* collect_files: what cannot be read is skipped with a warning, unless    *)
(* reading an entry fails: that ends the mount.                            *)
CollectFiles(p) ==
    /\ pc[p] = "collect"
    /\ \E S \in SUBSET Present :
          /\ todo' = [todo EXCEPT ![p] = S]
          /\ warned' = [warned EXCEPT ![p] = Present \ S]
    /\ Goto(p, "scan")
    /\ UNCHANGED <<conn, tries, seen, time, lock, starts, daemon, fileVars, clock>>

CollectFails(p) ==
    /\ pc[p] = "collect"
    /\ Exit(p)
    /\ UNCHANGED <<daemon, diskVars, clock>>

(* mtime_ms of the next file.                                              *)
Stat(p, f) ==
    /\ pc[p] = "scan" /\ seen[p] = NoFile /\ f \in todo[p]
    /\ todo' = [todo EXCEPT ![p] = @ \ {f}]
    /\ \/ /\ seen' = [seen EXCEPT ![p] = f]
          /\ time' = [time EXCEPT ![p] = mtime[f]]
          /\ UNCHANGED warned
       \/ warned' = [warned EXCEPT ![p] = @ \cup {f}] /\ UNCHANGED <<seen, time>>
    /\ UNCHANGED <<pc, conn, tries, lock, starts, daemon, fileVars, clock>>

(* A file is done with.                                                    *)
Skip(p) ==
    /\ seen' = [seen EXCEPT ![p] = NoFile]
    /\ time' = [time EXCEPT ![p] = 0]
    /\ Goto(p, "scan")

Warn(p) == warned' = [warned EXCEPT ![p] = @ \cup {seen[p]}]

\* Mutant: the comparison is strict.
BehindWatermarkStrict(p) == time[p] <= stamp[seen[p]]

BehindWatermark(p) == time[p] < stamp[seen[p]]

\* Mutant: a path without a row is replayed like one never uploaded.
LastSyncedUnknownReplays(p) ==
    /\ pc[p] = "scan" /\ seen[p] # NoFile /\ conn[p] = "live"
    /\ IF BehindWatermark(p) THEN Skip(p) ELSE Goto(p, "replay") /\ UNCHANGED <<seen, time>>
    /\ UNCHANGED <<conn, tries, todo, warned, lock, starts, daemon, fileVars, clock>>

(* last_synced, and the decision: no row is a warning, a file older than   *)
(* its watermark needs nothing, any other is replayed.                     *)
LastSynced(p) ==
    /\ pc[p] = "scan" /\ seen[p] # NoFile /\ conn[p] = "live"
    /\ \/ stamp[seen[p]] = NoRow /\ Warn(p) /\ Skip(p)
       \/ stamp[seen[p]] # NoRow /\ BehindWatermark(p) /\ Skip(p) /\ UNCHANGED warned
       \/ /\ stamp[seen[p]] # NoRow /\ ~BehindWatermark(p)
          /\ Goto(p, "replay")
          /\ UNCHANGED <<seen, time, warned>>
    /\ UNCHANGED <<conn, tries, todo, lock, starts, daemon, fileVars, clock>>

(* The daemon's open_write: the cache file as it is, and a new stamp.      *)
OpenWrite(f) ==
    /\ cloud' = [cloud EXCEPT ![f] = bytes[f]]
    /\ stamp' = [stamp EXCEPT ![f] = clock]
    /\ UNCHANGED <<bytes, mtime, gone, evict>>

Replay(p) ==
    /\ pc[p] = "replay" /\ conn[p] = "live"
    /\ OpenWrite(seen[p])
    /\ Skip(p)
    /\ UNCHANGED <<conn, tries, todo, warned, lock, starts, daemon, clock>>

\* Mutant: a warning names the file even when none is being looked at.
VerbFailsAnywhere(p) ==
    /\ pc[p] \in {"scan", "replay"}
    /\ Warn(p)
    /\ Skip(p)
    /\ UNCHANGED <<conn, tries, todo, lock, starts, daemon, fileVars, clock>>

(* A verb fails: refused, or the raw connection is gone, which it stays.   *)
VerbFails(p) ==
    /\ pc[p] \in {"scan", "replay"} /\ seen[p] # NoFile
    /\ Warn(p)
    /\ Skip(p)
    /\ UNCHANGED <<conn, tries, todo, lock, starts, daemon, fileVars, clock>>

(* The scan is over; its connection is dropped.                            *)
EndScan(p) ==
    /\ pc[p] = "scan" /\ seen[p] = NoFile /\ todo[p] = {}
    /\ conn' = [conn EXCEPT ![p] = "none"]
    /\ Goto(p, "reconnect")
    /\ UNCHANGED <<tries, scanVars, lock, starts, daemon, fileVars, clock>>

------------------------------------------------------------------------------
(* ReconnectingIpcClient::connect_auth tries once.                         *)
ConnectAuth(p) ==
    /\ pc[p] = "reconnect" /\ daemon = "up"
    /\ Goto(p, "mount")
    /\ UNCHANGED <<conn, tries, scanVars, lock, starts, daemon, fileVars, clock>>

ConnectAuthFails(p) ==
    /\ pc[p] = "reconnect" /\ daemon # "up"
    /\ Exit(p)
    /\ UNCHANGED <<daemon, diskVars, clock>>

Mount(p) ==
    /\ pc[p] = "mount"
    /\ Goto(p, "live")
    /\ warned' = [warned EXCEPT ![p] = {}]
    /\ UNCHANGED <<conn, tries, todo, seen, time, lock, starts, daemon, fileVars, clock>>

MountFails(p) ==
    /\ pc[p] = "mount"
    /\ Exit(p)
    /\ UNCHANGED <<daemon, diskVars, clock>>

------------------------------------------------------------------------------
(* The mount at work.  create: the daemon empties or makes the cache file  *)
(* and stamps its row, and create_internal opens it with O_TRUNC.          *)
Create(p, f) ==
    /\ pc[p] = "live" /\ daemon = "up" /\ stamp[f] = NoRow /\ cloud[f] = 0
    /\ f \notin evict /\ bytes[f] < MaxVersion
    /\ bytes' = [bytes EXCEPT ![f] = @ + 1]
    /\ mtime' = [mtime EXCEPT ![f] = FileTime]
    /\ stamp' = [stamp EXCEPT ![f] = clock]
    /\ gone' = gone \ {f}
    /\ UNCHANGED <<cloud, evict, procVars, daemon, clock>>

Write(p, f) ==
    /\ pc[p] = "live" /\ bytes[f] \in 1..(MaxVersion - 1) /\ stamp[f] # NoRow
    /\ bytes' = [bytes EXCEPT ![f] = @ + 1]
    /\ mtime' = [mtime EXCEPT ![f] = FileTime]
    /\ UNCHANGED <<cloud, stamp, gone, evict, procVars, daemon, clock>>

(* fsync or release.                                                       *)
Upload(p, f) ==
    /\ pc[p] = "live" /\ daemon = "up" /\ bytes[f] > cloud[f] /\ stamp[f] # NoRow
    /\ OpenWrite(f)
    /\ UNCHANGED <<procVars, daemon, clock>>

(* unlink: the daemon's row and the cloud's copy go first, ...             *)
Unlink(p, f) ==
    /\ pc[p] = "live" /\ daemon = "up" /\ stamp[f] # NoRow
    /\ cloud' = [cloud EXCEPT ![f] = 0]
    /\ stamp' = [stamp EXCEPT ![f] = NoRow]
    /\ gone' = gone \cup {f}
    /\ evict' = evict \cup {f}
    /\ UNCHANGED <<bytes, mtime, procVars, daemon, clock>>

(* ... the cache file after the reply, if it can be removed.               *)
Evict(p, f) ==
    /\ pc[p] = "live" /\ f \in evict
    /\ evict' = evict \ {f}
    /\ bytes' = [bytes EXCEPT ![f] = 0]
    /\ UNCHANGED <<mtime, cloud, stamp, gone, procVars, daemon, clock>>

EvictFails(p, f) ==
    /\ pc[p] = "live" /\ f \in evict
    /\ evict' = evict \ {f}
    /\ UNCHANGED <<bytes, mtime, cloud, stamp, gone, procVars, daemon, clock>>

(* SIGTERM or SIGINT: unmount, under the lock.                             *)
Signal(p) ==
    /\ pc[p] = "live"
    /\ Goto(p, "unmount")
    /\ UNCHANGED <<conn, tries, scanVars, lock, starts, daemon, fileVars, clock>>

Unmount(p) ==
    /\ pc[p] = "unmount"
    /\ Exit(p)
    /\ UNCHANGED <<daemon, diskVars, clock>>

(* SIGKILL at any point, or the end of the FUSE session.                   *)
Kill(p) ==
    /\ pc[p] # "off"
    /\ Exit(p)
    /\ UNCHANGED <<daemon, diskVars, clock>>

------------------------------------------------------------------------------
DaemonStops ==
    /\ daemon # "down"
    /\ daemon' = "down"
    /\ conn' = [p \in Procs |-> IF conn[p] = "live" THEN "dead" ELSE conn[p]]
    /\ UNCHANGED <<pc, tries, scanVars, lock, starts, fileVars, clock>>

DaemonStarts ==
    /\ daemon = "down"
    /\ daemon' \in {"up", "refuses"}
    /\ UNCHANGED <<procVars, fileVars, clock>>

Tick ==
    /\ clock < MaxClock
    /\ clock' = clock + 1
    /\ UNCHANGED <<procVars, daemon, fileVars>>

StartupStep(p) ==
    \/ StartupConnect(p) \/ StartupRetry(p) \/ StartupGivesUp(p)
    \/ Acquire(p) \/ AcquireFails(p)
    \/ CollectFiles(p) \/ CollectFails(p)
    \/ (\E f \in Files : Stat(p, f)) \/ LastSynced(p) \/ Replay(p) \/ VerbFails(p)
    \/ EndScan(p) \/ ConnectAuth(p) \/ ConnectAuthFails(p) \/ Mount(p) \/ MountFails(p)

Serve(p) ==
    \/ \E f \in Files :
          Create(p, f) \/ Write(p, f) \/ Upload(p, f) \/ Unlink(p, f)
          \/ Evict(p, f) \/ EvictFails(p, f)
    \/ Signal(p) \/ Unmount(p)

Next ==
    \/ \E p \in Procs : Start(p) \/ StartupStep(p) \/ Serve(p) \/ Kill(p)
    \/ DaemonStops \/ DaemonStarts \/ Tick

Spec == Init /\ [][Next]_vars

(* A process that runs goes on; what the daemon, the users and the clock   *)
(* do is up to them.                                                       *)
FairSpec == Spec /\ \A p \in Procs : WF_vars(StartupStep(p))

------------------------------------------------------------------------------
\* Types.
TypeOK ==
    /\ pc \in [Procs -> {"off", "connect", "lock", "collect", "scan", "replay",
                         "reconnect", "mount", "live", "unmount"}]
    /\ conn \in [Procs -> {"none", "live", "dead"}]
    /\ tries \in [Procs -> Nat]
    /\ todo \in [Procs -> SUBSET Files]
    /\ seen \in [Procs -> Files \cup {NoFile}]
    /\ time \in [Procs -> Nat]
    /\ warned \in [Procs -> SUBSET Files]
    /\ lock \in Procs \cup {NoProc}
    /\ daemon \in {"up", "down", "refuses"}
    /\ bytes \in [Files -> Nat] /\ mtime \in [Files -> Nat]
    /\ cloud \in [Files -> Nat] /\ stamp \in [Files -> Nat \cup {NoRow}]
    /\ gone \subseteq Files /\ evict \subseteq Files
    /\ clock \in Nat /\ starts \in Nat

(* The cache file of f has bytes the cloud does not.                       *)
Unsent(f) == bytes[f] > cloud[f]

(* "Replay missed open_write IPCs": when the scan is over, wherever the    *)
(* mounts before it were killed, every cache file whose bytes never        *)
(* reached the cloud has been uploaded, or a warning names it.             *)
NoneLeftBehind ==
    \A p \in Procs : pc[p] \in {"reconnect", "mount"} =>
        \A f \in Files : Unsent(f) => f \in warned[p]

(* A file removed through the mount stays removed: a cache file that       *)
(* unlink could not remove, or was killed before removing, is not uploaded *)
(* by a later scan.                                                        *)
RemovedStaysRemoved == \A f \in gone : cloud[f] = 0

(* The scan works on a cache at rest: from the walk to the last replay no  *)
(* other process of the profile changes a cache file or uploads one, so    *)
(* the time, the watermark and the bytes it compares belong together.      *)
ScanAlone ==
    [][\A p \in Procs : pc[p] \in {"scan", "replay"} =>
          /\ UNCHANGED <<bytes, mtime>>
          /\ cloud' # cloud => pc[p] = "replay" /\ pc'[p] = "scan"]_vars

(* A start comes to an end: the mount is served, or the process has        *)
(* exited, also when the daemon stays away or fails during the scan.       *)
StartupEnds ==
    \A p \in Procs :
        pc[p] \notin {"off", "live", "unmount"} ~> pc[p] \in {"off", "live"}
==============================================================================
