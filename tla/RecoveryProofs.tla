---------------------------- MODULE RecoveryProofs ----------------------------
(***************************************************************************)
(* Theorems about Recovery, for any number of processes, files, starts and *)
(* changes, with a kill at any point.                                      *)
(***************************************************************************)
EXTENDS Recovery, TLAPS

(* The places of run_async behind the profile lock.                        *)
UnderLock == {"collect", "scan", "replay", "reconnect", "mount", "live", "unmount"}

Locked == \A p \in Procs : pc[p] \in UnderLock => lock = p

(* A cache file with bytes the cloud does not have is not older than its   *)
(* row: what stamps the row either takes the bytes or comes before them.   *)
Fresh ==
    /\ \A f \in Files : mtime[f] <= clock /\ stamp[f] <= clock
    /\ \A f \in Files : Unsent(f) => stamp[f] <= mtime[f]

(* What a scan remembers of the file it looks at holds: nobody else is at  *)
(* the files.                                                              *)
Looking ==
    \A p \in Procs :
        /\ pc[p] \in {"reconnect", "mount"} => todo[p] = {}
        /\ pc[p] \notin {"scan", "replay"} => seen[p] = NoFile
        /\ pc[p] \in {"scan", "replay"} /\ seen[p] # NoFile => time[p] = mtime[seen[p]]
        /\ pc[p] = "replay" => seen[p] # NoFile /\ stamp[seen[p]] # NoRow

(* Every file the cloud is behind of is still to be looked at, is being    *)
(* looked at, or was warned of.                                            *)
Covered ==
    \A p \in Procs : pc[p] \in {"scan", "replay", "reconnect", "mount"} =>
        \A f \in Files : Unsent(f) => f \in warned[p] \/ f \in todo[p] \/ f = seen[p]

(* A removed file has no row and no copy in the cloud.                     *)
Removed == \A f \in gone : stamp[f] = NoRow /\ cloud[f] = 0

(* What holds of every file system ...                                     *)
IInv == TypeOK /\ Locked /\ Looking /\ Removed

(* ... and what needs timestamps as fine as the daemon's.                  *)
FineInv == Fresh /\ Covered

------------------------------------------------------------------------------
(* The steps of a process by what they do: it ends, ...                    *)
Ends(p) ==
    \/ StartupGivesUp(p) \/ AcquireFails(p) \/ CollectFails(p)
    \/ ConnectAuthFails(p) \/ MountFails(p) \/ Unmount(p) \/ Kill(p)

(* ... goes on without touching lock or files, ...                         *)
GoesOn(p) ==
    \/ Start(p) \/ StartupConnect(p) \/ StartupRetry(p) \/ CollectFiles(p)
    \/ (\E f \in Files : Stat(p, f)) \/ LastSynced(p) \/ VerbFails(p)
    \/ EndScan(p) \/ ConnectAuth(p) \/ Mount(p) \/ Signal(p)

(* ... or serves a request.                                                *)
Serves(p, f) ==
    \/ Create(p, f) \/ Write(p, f) \/ Upload(p, f) \/ Unlink(p, f)
    \/ Evict(p, f) \/ EvictFails(p, f)

Elsewhere == DaemonStops \/ DaemonStarts \/ Tick \/ UNCHANGED vars

LEMMA KindsOfSteps ==
    ASSUME [Next]_vars
    PROVE  \/ \E p \in Procs : Ends(p) \/ GoesOn(p) \/ Acquire(p) \/ Replay(p)
           \/ \E p \in Procs, f \in Files : Serves(p, f)
           \/ Elsewhere
BY DEF Next, StartupStep, Serve, Ends, GoesOn, Serves, Elsewhere

LEMMA EndsFrame ==
    ASSUME NEW p \in Procs, Ends(p)
    PROVE  Exit(p) /\ UNCHANGED <<daemon, bytes, mtime, cloud, stamp, gone, clock>>
BY DEF Ends, StartupGivesUp, AcquireFails, CollectFails, ConnectAuthFails, MountFails,
   Unmount, Kill, diskVars

LEMMA GoesOnFrame ==
    ASSUME NEW p \in Procs, GoesOn(p)
    PROVE  UNCHANGED <<lock, daemon, bytes, mtime, cloud, stamp, gone, evict, clock>>
BY DEF GoesOn, Start, StartupConnect, StartupRetry, CollectFiles, Stat, LastSynced,
   VerbFails, EndScan, ConnectAuth, Mount, Signal, fileVars

LEMMA ServesFrame ==
    ASSUME NEW p \in Procs, NEW f \in Files, Serves(p, f)
    PROVE  /\ pc[p] = "live"
           /\ UNCHANGED <<pc, conn, tries, todo, seen, time, warned, lock, starts, daemon, clock>>
BY DEF Serves, Create, Write, Upload, Unlink, Evict, EvictFails, OpenWrite, procVars

(* A file's timestamp is a time, and not a later one than now.             *)
LEMMA FileTimeIsTime ==
    ASSUME clock \in Nat
    PROVE  FileTime \in Nat /\ FileTime <= clock
BY RecoveryAssumption DEF FileTime

LEMMA FileTimeIsNow ==
    ASSUME clock \in Nat, Granule = 1
    PROVE  FileTime = clock
BY DEF FileTime

------------------------------------------------------------------------------
LEMMA TypeStep == ASSUME TypeOK, Looking, [Next]_vars PROVE TypeOK'
<1>1. ASSUME NEW p \in Procs, Ends(p) PROVE TypeOK'
  <2>1. Exit(p) /\ UNCHANGED <<daemon, bytes, mtime, cloud, stamp, gone, clock>>
    BY <1>1, EndsFrame
  <2>2. lock' \in Procs \cup {NoProc} /\ evict' \subseteq Files
    BY <2>1 DEF Exit, TypeOK
  <2> QED BY <2>1, <2>2 DEF Exit, Goto, TypeOK
<1>2. ASSUME NEW p \in Procs, GoesOn(p) PROVE TypeOK'
  <2> USE <1>2, GoesOnFrame DEF TypeOK, scanVars, Goto, Skip, Warn
  <2>1. CASE Start(p) \/ StartupConnect(p) \/ StartupRetry(p) \/ ConnectAuth(p) \/ Signal(p)
    BY <2>1 DEF Start, StartupConnect, StartupRetry, ConnectAuth, Signal
  <2>2. CASE CollectFiles(p)
    <3>1. PICK S \in SUBSET Present :
             todo' = [todo EXCEPT ![p] = S] /\ warned' = [warned EXCEPT ![p] = Present \ S]
      BY <2>2 DEF CollectFiles
    <3>2. Present \subseteq Files
      BY DEF Present
    <3> QED BY <2>2, <3>1, <3>2 DEF CollectFiles
  <2>3. ASSUME NEW f \in Files, Stat(p, f) PROVE TypeOK'
    BY <2>3 DEF Stat
  <2>4. CASE LastSynced(p)
    BY <2>4 DEF LastSynced
  <2>5. CASE VerbFails(p)
    BY <2>5 DEF VerbFails
  <2>6. CASE EndScan(p) \/ Mount(p)
    BY <2>6 DEF EndScan, Mount
  <2> QED BY <2>1, <2>2, <2>3, <2>4, <2>5, <2>6 DEF GoesOn
<1>3. ASSUME NEW p \in Procs, Acquire(p) PROVE TypeOK'
  BY <1>3 DEF Acquire, Goto, scanVars, fileVars, TypeOK
<1>4. ASSUME NEW p \in Procs, Replay(p) PROVE TypeOK'
  BY <1>4 DEF Looking, Replay, OpenWrite, Skip, Goto, TypeOK
<1>5. ASSUME NEW p \in Procs, NEW f \in Files, Serves(p, f) PROVE TypeOK'
  <2> USE <1>5, ServesFrame DEF TypeOK
  <2>1. CASE Create(p, f) \/ Write(p, f)
    BY <2>1, FileTimeIsTime DEF Create, Write
  <2>2. CASE Upload(p, f) \/ Unlink(p, f)
    BY <2>2 DEF Upload, Unlink, OpenWrite
  <2>3. CASE Evict(p, f) \/ EvictFails(p, f)
    BY <2>3 DEF Evict, EvictFails
  <2> QED BY <2>1, <2>2, <2>3 DEF Serves
<1>6. CASE Elsewhere
  BY <1>6 DEF Elsewhere, DaemonStops, DaemonStarts, Tick, procVars, scanVars, fileVars, vars,
     TypeOK
<1> QED BY <1>1, <1>2, <1>3, <1>4, <1>5, <1>6, KindsOfSteps

(* flock admits one process, and its end frees the lock.                   *)
LEMMA LockedStep == ASSUME TypeOK, Locked, [Next]_vars PROVE Locked'
<1> USE DEF Locked, UnderLock
<1>1. ASSUME NEW p \in Procs, Ends(p) PROVE Locked'
  BY <1>1, EndsFrame DEF Exit, Goto, TypeOK
<1>2. ASSUME NEW p \in Procs, GoesOn(p) PROVE Locked'
  BY <1>2 DEF GoesOn, Start, StartupConnect, StartupRetry, CollectFiles, Stat, LastSynced,
     VerbFails, EndScan, ConnectAuth, Mount, Signal, Goto, Skip, TypeOK
<1>3. ASSUME NEW p \in Procs, Acquire(p) PROVE Locked'
  BY <1>3, RecoveryAssumption DEF Acquire, Goto, TypeOK
<1>4. ASSUME NEW p \in Procs, Replay(p) PROVE Locked'
  BY <1>4 DEF Replay, Skip, Goto, TypeOK
<1>5. ASSUME NEW p \in Procs, NEW f \in Files, Serves(p, f) PROVE Locked'
  BY <1>5, ServesFrame
<1>6. CASE Elsewhere
  BY <1>6 DEF Elsewhere, DaemonStops, DaemonStarts, Tick, procVars, vars
<1> QED BY <1>1, <1>2, <1>3, <1>4, <1>5, <1>6, KindsOfSteps

(* Nobody changes the files under a scan: whoever serves has the lock.     *)
LEMMA LookingStep == ASSUME TypeOK, Locked, Looking, [Next]_vars PROVE Looking'
<1> USE DEF Looking
<1>1. ASSUME NEW p \in Procs, Ends(p) PROVE Looking'
  BY <1>1, EndsFrame DEF Exit, Goto, TypeOK
<1>2. ASSUME NEW p \in Procs, GoesOn(p) PROVE Looking'
  <2> USE <1>2, GoesOnFrame DEF TypeOK, scanVars, Goto, Skip
  <2>1. CASE Start(p) \/ StartupConnect(p) \/ StartupRetry(p) \/ ConnectAuth(p) \/ Signal(p)
             \/ Mount(p)
    BY <2>1 DEF Start, StartupConnect, StartupRetry, ConnectAuth, Signal, Mount
  <2>2. CASE CollectFiles(p)
    BY <2>2 DEF CollectFiles
  <2>3. ASSUME NEW f \in Files, Stat(p, f) PROVE Looking'
    BY <2>3 DEF Stat
  <2>4. CASE LastSynced(p) \/ VerbFails(p)
    BY <2>4 DEF LastSynced, VerbFails
  <2>5. CASE EndScan(p)
    BY <2>5 DEF EndScan
  <2> QED BY <2>1, <2>2, <2>3, <2>4, <2>5 DEF GoesOn
<1>3. ASSUME NEW p \in Procs, Acquire(p) PROVE Looking'
  BY <1>3 DEF Acquire, Goto, scanVars, fileVars, TypeOK
<1>4. ASSUME NEW p \in Procs, Replay(p) PROVE Looking'
  BY <1>4 DEF Replay, OpenWrite, Skip, Goto, Locked, UnderLock, TypeOK
<1>5. ASSUME NEW p \in Procs, NEW f \in Files, Serves(p, f) PROVE Looking'
  BY <1>5, ServesFrame DEF Locked, UnderLock
<1>6. CASE Elsewhere
  BY <1>6 DEF Elsewhere, DaemonStops, DaemonStarts, Tick, procVars, scanVars, fileVars, vars
<1> QED BY <1>1, <1>2, <1>3, <1>4, <1>5, <1>6, KindsOfSteps

(* What has no row is not uploaded, by the scan or by the mount.           *)
LEMMA RemovedStep == ASSUME TypeOK, Looking, Removed, [Next]_vars PROVE Removed'
<1> USE DEF Removed
<1>1. ASSUME NEW p \in Procs, Ends(p) \/ GoesOn(p) PROVE Removed'
  BY <1>1, EndsFrame, GoesOnFrame
<1>2. ASSUME NEW p \in Procs, Acquire(p) PROVE Removed'
  BY <1>2 DEF Acquire, fileVars
<1>3. ASSUME NEW p \in Procs, Replay(p) PROVE Removed'
  BY <1>3 DEF Replay, OpenWrite, Looking, TypeOK
<1>4. ASSUME NEW p \in Procs, NEW f \in Files, Serves(p, f) PROVE Removed'
  BY <1>4 DEF Serves, Create, Write, Upload, Unlink, Evict, EvictFails, OpenWrite, TypeOK
<1>5. CASE Elsewhere
  BY <1>5 DEF Elsewhere, DaemonStops, DaemonStarts, Tick, fileVars, vars
<1> QED BY <1>1, <1>2, <1>3, <1>4, <1>5, KindsOfSteps

LEMMA FreshStep ==
    ASSUME Granule = 1, TypeOK, Looking, Fresh, [Next]_vars PROVE Fresh'
<1> USE DEF Fresh, Unsent
<1>1. ASSUME NEW p \in Procs, Ends(p) \/ GoesOn(p) PROVE Fresh'
  BY <1>1, EndsFrame, GoesOnFrame
<1>2. ASSUME NEW p \in Procs, Acquire(p) PROVE Fresh'
  BY <1>2 DEF Acquire, fileVars
<1>3. ASSUME NEW p \in Procs, Replay(p) PROVE Fresh'
  BY <1>3 DEF Replay, OpenWrite, Looking, TypeOK
<1>4. ASSUME NEW p \in Procs, NEW f \in Files, Serves(p, f) PROVE Fresh'
  <2>1. clock' = clock /\ FileTime = clock
    BY <1>4, FileTimeIsNow, ServesFrame DEF TypeOK
  <2>2. CASE Create(p, f) \/ Write(p, f)
    BY <2>1, <2>2 DEF Create, Write, NoRow, TypeOK
  <2>3. CASE Upload(p, f)
    BY <2>1, <2>3 DEF Upload, OpenWrite, NoRow, TypeOK
  <2>4. CASE Unlink(p, f)
    BY <2>1, <2>4 DEF Unlink, NoRow, TypeOK
  <2>5. CASE Evict(p, f) \/ EvictFails(p, f)
    BY <2>1, <2>5 DEF Evict, EvictFails, NoRow, TypeOK
  <2> QED BY <1>4, <2>2, <2>3, <2>4, <2>5 DEF Serves
<1>5. CASE Elsewhere
  BY <1>5 DEF Elsewhere, DaemonStops, DaemonStarts, Tick, fileVars, vars, TypeOK, NoRow
<1> QED BY <1>1, <1>2, <1>3, <1>4, <1>5, KindsOfSteps

(* A file leaves the scan only as warned of, older than its row, or        *)
(* uploaded.                                                               *)
LEMMA CoveredStep ==
    ASSUME TypeOK, Locked, Looking, Fresh, Covered, [Next]_vars PROVE Covered'
<1> USE DEF Covered, Unsent
<1>1. ASSUME NEW p \in Procs, Ends(p) PROVE Covered'
  BY <1>1, EndsFrame DEF Exit, Goto, TypeOK
<1>2. ASSUME NEW p \in Procs, GoesOn(p) PROVE Covered'
  <2> USE <1>2, GoesOnFrame DEF TypeOK, scanVars, Goto, Skip, Warn
  <2>1. CASE Start(p) \/ StartupConnect(p) \/ StartupRetry(p) \/ ConnectAuth(p) \/ Signal(p)
             \/ Mount(p)
    BY <2>1 DEF Start, StartupConnect, StartupRetry, ConnectAuth, Signal, Mount
  <2>2. CASE CollectFiles(p)
    <3>1. PICK S \in SUBSET Present :
             todo' = [todo EXCEPT ![p] = S] /\ warned' = [warned EXCEPT ![p] = Present \ S]
      BY <2>2 DEF CollectFiles
    <3>2. \A f \in Files : Unsent(f) => f \in Present
      BY DEF Present
    <3> QED BY <2>2, <3>1, <3>2 DEF CollectFiles
  <2>3. ASSUME NEW f \in Files, Stat(p, f) PROVE Covered'
    BY <2>3, RecoveryAssumption DEF Stat
  <2>4. CASE LastSynced(p)
    <3>1. BehindWatermark(p) => ~Unsent(seen[p])
      BY <2>4 DEF LastSynced, BehindWatermark, Looking, Fresh, NoRow
    <3> QED BY <2>4, <3>1 DEF LastSynced
  <2>5. CASE VerbFails(p)
    BY <2>5 DEF VerbFails
  <2>6. CASE EndScan(p)
    BY <2>6 DEF EndScan
  <2> QED BY <2>1, <2>2, <2>3, <2>4, <2>5, <2>6 DEF GoesOn
<1>3. ASSUME NEW p \in Procs, Acquire(p) PROVE Covered'
  BY <1>3 DEF Acquire, Goto, scanVars, fileVars, TypeOK
<1>4. ASSUME NEW p \in Procs, Replay(p) PROVE Covered'
  BY <1>4 DEF Replay, OpenWrite, Skip, Goto, Looking, Locked, UnderLock, TypeOK
<1>5. ASSUME NEW p \in Procs, NEW f \in Files, Serves(p, f) PROVE Covered'
  BY <1>5, ServesFrame DEF Locked, UnderLock
<1>6. CASE Elsewhere
  BY <1>6 DEF Elsewhere, DaemonStops, DaemonStarts, Tick, procVars, scanVars, fileVars, vars
<1> QED BY <1>1, <1>2, <1>3, <1>4, <1>5, <1>6, KindsOfSteps

LEMMA Invariance == Spec => []IInv
<1>1. Init => IInv
  <2> SUFFICES ASSUME Init PROVE IInv
    OBVIOUS
  <2>1. TypeOK
    BY DEF Init, TypeOK
  <2>2. Locked /\ Looking /\ Removed
    BY DEF Init, Locked, UnderLock, Looking, Removed
  <2> QED BY <2>1, <2>2 DEF IInv
<1>2. IInv /\ [Next]_vars => IInv'
  BY TypeStep, LockedStep, LookingStep, RemovedStep DEF IInv
<1> QED BY <1>1, <1>2, PTL DEF Spec

------------------------------------------------------------------------------
(* The types of processes, files, rows and the lock, whatever is killed.   *)
THEOREM TypeCorrect == Spec => []TypeOK
BY Invariance, PTL DEF IInv

(* last_synced has no row of a removed file, so that the scan of a later   *)
(* mount does not upload what is left of it in the cache.                  *)
THEOREM RemovedStay == Spec => []RemovedStaysRemoved
<1>1. IInv => RemovedStaysRemoved
  BY DEF IInv, Removed, RemovedStaysRemoved
<1> QED BY <1>1, Invariance, PTL

(* The profile lock keeps every other mount away from a running scan.      *)
THEOREM ScansAlone == Spec => ScanAlone
<1>1. ASSUME IInv, Next, NEW p \in Procs, pc[p] \in {"scan", "replay"}
      PROVE  UNCHANGED <<bytes, mtime>> /\ (cloud' # cloud => pc[p] = "replay" /\ pc'[p] = "scan")
  <2> USE DEF IInv, Locked, UnderLock
  <2>1. ASSUME NEW q \in Procs, Ends(q) \/ GoesOn(q) PROVE UNCHANGED <<bytes, mtime, cloud>>
    BY <2>1, EndsFrame, GoesOnFrame
  <2>2. ASSUME NEW q \in Procs, Acquire(q) PROVE UNCHANGED <<bytes, mtime, cloud>>
    BY <2>2 DEF Acquire, fileVars
  <2>3. ASSUME NEW q \in Procs, Replay(q)
        PROVE  UNCHANGED <<bytes, mtime>> /\ pc[p] = "replay" /\ pc'[p] = "scan"
    <3>1. q = p
      BY <1>1, <2>3 DEF Replay
    <3> QED BY <1>1, <2>3, <3>1 DEF Replay, OpenWrite, Skip, Goto, TypeOK
  <2>4. ASSUME NEW q \in Procs, NEW f \in Files, Serves(q, f) PROVE FALSE
    BY <1>1, <2>4, ServesFrame
  <2>5. CASE Elsewhere
    BY <2>5 DEF Elsewhere, DaemonStops, DaemonStarts, Tick, fileVars, vars
  <2> QED BY <1>1, <2>1, <2>2, <2>3, <2>4, <2>5, KindsOfSteps
<1>2. IInv /\ [Next]_vars =>
         [\A p \in Procs : pc[p] \in {"scan", "replay"} =>
             /\ UNCHANGED <<bytes, mtime>>
             /\ cloud' # cloud => pc[p] = "replay" /\ pc'[p] = "scan"]_vars
  BY <1>1
<1> QED BY <1>2, Invariance, PTL DEF Spec, ScanAlone

(* scan_and_replay leaves nothing behind: at the mount every cache file    *)
(* whose bytes never reached the cloud was uploaded or warned of, wherever *)
(* earlier mounts were killed, on a file system whose timestamps are as    *)
(* fine as the daemon's.  With coarser ones it is false (recovery_coarse). *)
THEOREM NothingLeftBehind ==
    ASSUME Granule = 1
    PROVE  Spec => []NoneLeftBehind
<1>1. Init => FineInv
  BY DEF Init, FineInv, Fresh, Covered, Unsent, NoRow
<1>2. IInv /\ FineInv /\ [Next]_vars => FineInv'
  BY FreshStep, CoveredStep DEF IInv, FineInv
<1>3. IInv /\ FineInv => NoneLeftBehind
  BY RecoveryAssumption DEF IInv, Looking, FineInv, Covered, NoneLeftBehind
<1> QED BY <1>1, <1>2, <1>3, Invariance, PTL DEF Spec
===============================================================================
