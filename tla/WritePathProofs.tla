--------------------------- MODULE WritePathProofs ---------------------------
(***************************************************************************)
(* Proofs about WritePath for any number of files, handles and writes,     *)
(* with and without faults.                                                *)
(***************************************************************************)
EXTENDS WritePath, TLAPS

(* The version in the cloud is one the cache has had.                      *)
SentBounded == \A f \in Files : sent[f] <= bytes[f]

(* What is known of one handle.  NoSilentLoss alone is not inductive: that *)
(* a clean handle may be released without an upload needs the third        *)
(* conjunct, which a failed upload reported for another handle must not be *)
(* able to excuse, and that a clean handle may be acknowledged needs it    *)
(* without the alternative "reported".                                     *)
HandleInv(h) ==
    /\ phase[h] \in {"none", "started"} => wrote[h] = 0 /\ acked[h] = 0
    /\ phase[h] \in {"registered", "opened"} /\ kind[h] \notin Creates \cup {"trunc"} =>
          wrote[h] = 0
    /\ phase[h] = "open" /\ ~dirty[h] /\ fsync[h] \in {"idle", "uploaded"} =>
          wrote[h] <= sent[file[h]]
    /\ phase[h] \in {"close", "done", "abandoned"} =>
          wrote[h] <= sent[file[h]] \/ wrote[h] <= reported[file[h]]
    /\ phase[h] # "none" => wrote[h] <= bytes[file[h]] /\ acked[h] <= sent[file[h]]
    /\ fsync[h] # "idle" => phase[h] = "open" /\ claim[h] <= wrote[h]
    /\ fsync[h] = "uploaded" => claim[h] <= sent[file[h]]

IInv == TypeOK /\ SentBounded /\ \A h \in Handles : HandleInv(h)

USE DEF Phases, Kinds, Opens, Creates, Bare

\* A fresh mount: nothing is open, nothing was written.
LEMMA InitIInv == Init => IInv
BY DEF Init, IInv, TypeOK, SentBounded, HandleInv

\* Every handler step keeps the types, and a handle in use has its file.
LEMMA TypeStep == TypeOK /\ [Next]_vars => TypeOK'
<1> SUFFICES ASSUME TypeOK, [Next]_vars PROVE TypeOK'
    OBVIOUS
<1>1. ASSUME NEW h \in Handles, NEW f \in Files, NEW k \in Kinds, Start(h, k, f)
      PROVE  TypeOK'
    BY <1>1 DEF TypeOK, Start, Goto, fsyncVars
<1>2. ASSUME NEW h \in Handles, NEW f \in Files, NEW k \in Kinds, StartCreate(h, k, f)
      PROVE  TypeOK'
    BY <1>2 DEF TypeOK, StartCreate, Goto, fsyncVars
<1>3. ASSUME NEW h \in Handles, FirstVerb(h) PROVE TypeOK'
  <2>1. CASE OpenRead(h)
      BY <2>1 DEF TypeOK, OpenRead, Goto, fsyncVars
  <2>2. CASE OpenWriteBegin(h)
      BY <2>2 DEF TypeOK, OpenWriteBegin, Change, Goto, fsyncVars
  <2>3. CASE CreateVerb(h)
      BY <2>3 DEF TypeOK, CreateVerb, Change, Goto, fsyncVars
  <2>4. CASE FirstVerbRefused(h)
      BY <2>4 DEF TypeOK, FirstVerbRefused, Goto, fsyncVars
  <2>5. CASE FirstVerbLost(h)
      BY <2>5 DEF TypeOK, FirstVerbLost, Change, Goto, fsyncVars
  <2> QED
      BY <1>3, <2>1, <2>2, <2>3, <2>4, <2>5 DEF FirstVerb
<1>4. ASSUME NEW h \in Handles, OpenSteps(h) PROVE TypeOK'
  <2>1. CASE OpenCacheFile(h)
      BY <2>1 DEF TypeOK, OpenCacheFile, Change, Goto, fsyncVars
  <2>2. CASE OpenCacheFileFails(h)
      BY <2>2 DEF TypeOK, OpenCacheFileFails, Report, Goto, fsyncVars
  <2>3. CASE InsertHandle(h)
      BY <2>3 DEF TypeOK, InsertHandle, Goto, fsyncVars
  <2> QED
      BY <1>4, <2>1, <2>2, <2>3 DEF OpenSteps
<1>5. ASSUME NEW h \in Handles, Write(h) \/ SetLen(h) PROVE TypeOK'
  <2>1. CASE Write(h)
      BY <2>1 DEF TypeOK, Write, Writable, Change, fsyncVars
  <2>2. CASE SetLen(h)
      BY <2>2 DEF TypeOK, SetLen, Writable, Change, fsyncVars
  <2> QED
      BY <1>5, <2>1, <2>2
<1>6. ASSUME NEW h \in Handles, FsyncClaim(h) PROVE TypeOK'
    BY <1>6 DEF TypeOK, FsyncClaim
<1>7. ASSUME NEW h \in Handles, FsyncSteps(h) PROVE TypeOK'
  <2>1. CASE FsyncUpload(h)
      BY <2>1 DEF TypeOK, FsyncUpload, handleVars
  <2>2. CASE FsyncReturnsOk(h)
      BY <2>2 DEF TypeOK, FsyncReturnsOk, handleVars
  <2>3. CASE FsyncUploadFails(h)
      BY <2>3 DEF TypeOK, FsyncUploadFails, handleVars
  <2>4. CASE FsyncReturnsError(h)
      BY <2>4 DEF TypeOK, FsyncReturnsError
  <2> QED
      BY <1>7, <2>1, <2>2, <2>3, <2>4 DEF FsyncSteps
<1>8. ASSUME NEW h \in Handles, Release(h) PROVE TypeOK'
    BY <1>8 DEF TypeOK, Release, Goto, fsyncVars
<1>9. ASSUME NEW h \in Handles, ReleaseSteps(h) PROVE TypeOK'
  <2>1. CASE Upload(h)
      BY <2>1 DEF TypeOK, Upload, Goto, fsyncVars
  <2>2. CASE UploadFails(h)
      BY <2>2 DEF TypeOK, UploadFails, Report, Goto, fsyncVars
  <2>3. CASE Close(h)
      BY <2>3 DEF TypeOK, Close, Goto, fsyncVars
  <2>4. CASE CloseFails(h)
      BY <2>4 DEF TypeOK, CloseFails, Goto, fsyncVars
  <2> QED
      BY <1>9, <2>1, <2>2, <2>3, <2>4 DEF ReleaseSteps
<1>10. CASE ConnectionLost
    BY <1>10 DEF TypeOK, ConnectionLost, handleVars, fsyncVars
<1>11. CASE UNCHANGED vars
    BY <1>11 DEF TypeOK, vars
<1> QED
    BY <1>1, <1>2, <1>3, <1>4, <1>5, <1>6, <1>7, <1>8, <1>9, <1>10, <1>11
    DEF Next, MknodRelease, KernelRelease

(* Type correctness.                                                       *)
THEOREM TypeCorrect == Spec => []TypeOK
<1>1. Init => TypeOK
    BY InitIInv DEF IInv
<1> QED
    BY <1>1, TypeStep, PTL DEF Spec

(* The inductive step: one case per action.                                *)
LEMMA IInvStep == IInv /\ [Next]_vars => IInv'
<1> SUFFICES ASSUME IInv, [Next]_vars PROVE SentBounded' /\ \A g \in Handles : HandleInv(g)'
    BY TypeStep DEF IInv
<1> DEFINE Goal == SentBounded' /\ \A g \in Handles : HandleInv(g)'
<1>0. TypeOK /\ SentBounded /\ \A g \in Handles : HandleInv(g)
    BY DEF IInv
<1> USE DEF SentBounded, HandleInv, TypeOK
<1>1. ASSUME NEW h \in Handles, NEW f \in Files, NEW k \in Kinds, Start(h, k, f)
      PROVE  Goal
    BY <1>0, <1>1 DEF Start, Goto, fsyncVars
<1>2. ASSUME NEW h \in Handles, NEW f \in Files, NEW k \in Kinds, StartCreate(h, k, f)
      PROVE  Goal
    BY <1>0, <1>2 DEF StartCreate, Goto, fsyncVars
<1>3. ASSUME NEW h \in Handles, FirstVerb(h) PROVE Goal
  <2>1. CASE OpenRead(h)
      BY <1>0, <2>1 DEF OpenRead, Goto, fsyncVars
  <2>2. CASE OpenWriteBegin(h)
      BY <1>0, <2>2 DEF OpenWriteBegin, Change, Goto, fsyncVars
  <2>3. CASE CreateVerb(h)
      BY <1>0, <2>3 DEF CreateVerb, Change, Goto, fsyncVars
  <2>4. CASE FirstVerbRefused(h)
      BY <1>0, <2>4 DEF FirstVerbRefused, Goto, fsyncVars
  <2>5. CASE FirstVerbLost(h)
      BY <1>0, <2>5 DEF FirstVerbLost, Change, Goto, fsyncVars
  <2> QED
      BY <1>3, <2>1, <2>2, <2>3, <2>4, <2>5 DEF FirstVerb
<1>4. ASSUME NEW h \in Handles, OpenSteps(h) PROVE Goal
  <2>1. CASE OpenCacheFile(h)
      BY <1>0, <2>1 DEF OpenCacheFile, Change, Goto, fsyncVars
  <2>2. CASE OpenCacheFileFails(h)
      BY <1>0, <2>2 DEF OpenCacheFileFails, Report, Goto, fsyncVars
  <2>3. CASE InsertHandle(h)
    <3>0. /\ phase[h] = "opened" /\ phase' = [phase EXCEPT ![h] = "open"]
          /\ UNCHANGED <<bytes, sent, reported, openSet, kind, file, wrote, fsync, claim, acked>>
        BY <2>3 DEF InsertHandle, Goto, fsyncVars
    <3>1. CASE kind[h] \in Creates \cup {"trunc"}
      <4>1. dirty' = [dirty EXCEPT ![h] = TRUE]
          BY <2>3, <3>1 DEF InsertHandle
      <4> QED
          BY <1>0, <3>0, <4>1
    <3>2. CASE kind[h] \notin Creates \cup {"trunc"}
      <4>1. (kind[h] \in Creates \cup {"trunc"}) = FALSE
          BY <3>2
      <4>2. dirty' = [dirty EXCEPT ![h] = FALSE]
          BY <2>3, <4>1 DEF InsertHandle
      <4>3. wrote[h] = 0 /\ sent[file[h]] \in Nat
          BY <1>0, <3>0, <3>2
      <4> QED
          BY <1>0, <3>0, <4>2, <4>3
    <3> QED
        BY <3>1, <3>2
  <2> QED
      BY <1>4, <2>1, <2>2, <2>3 DEF OpenSteps
<1>5. ASSUME NEW h \in Handles, Write(h) \/ SetLen(h) PROVE Goal
  <2>1. CASE Write(h)
      BY <1>0, <2>1 DEF Write, Writable, Change, fsyncVars
  <2>2. CASE SetLen(h)
      BY <1>0, <2>2 DEF SetLen, Writable, Change, fsyncVars
  <2> QED
      BY <1>5, <2>1, <2>2
<1>6. ASSUME NEW h \in Handles, FsyncClaim(h) PROVE Goal
    BY <1>0, <1>6 DEF FsyncClaim, handleVars
<1>7. ASSUME NEW h \in Handles, FsyncSteps(h) PROVE Goal
  <2>1. CASE FsyncUpload(h)
      BY <1>0, <2>1 DEF FsyncUpload, handleVars
  <2>2. CASE FsyncReturnsOk(h)
      BY <1>0, <2>2 DEF FsyncReturnsOk, handleVars
  <2>3. CASE FsyncUploadFails(h)
      BY <1>0, <2>3 DEF FsyncUploadFails, handleVars
  <2>4. CASE FsyncReturnsError(h)
      BY <1>0, <2>4 DEF FsyncReturnsError, handleVars
  <2> QED
      BY <1>7, <2>1, <2>2, <2>3, <2>4 DEF FsyncSteps
<1>8. ASSUME NEW h \in Handles, Release(h) PROVE Goal
    BY <1>0, <1>8 DEF Release, Goto, fsyncVars
<1>9. ASSUME NEW h \in Handles, ReleaseSteps(h) PROVE Goal
  <2>1. CASE Upload(h)
      BY <1>0, <2>1 DEF Upload, Goto, fsyncVars
  <2>2. CASE UploadFails(h)
      BY <1>0, <2>2 DEF UploadFails, Report, Goto, fsyncVars
  <2>3. CASE Close(h)
      BY <1>0, <2>3 DEF Close, Goto, fsyncVars
  <2>4. CASE CloseFails(h)
      BY <1>0, <2>4 DEF CloseFails, Goto, fsyncVars
  <2> QED
      BY <1>9, <2>1, <2>2, <2>3, <2>4 DEF ReleaseSteps
<1>10. CASE ConnectionLost
    BY <1>0, <1>10 DEF ConnectionLost, handleVars, fsyncVars
<1>11. CASE UNCHANGED vars
    BY <1>0, <1>11 DEF vars
<1> QED
    BY <1>1, <1>2, <1>3, <1>4, <1>5, <1>6, <1>7, <1>8, <1>9, <1>10, <1>11
    DEF Next, MknodRelease, KernelRelease

(* IInv holds throughout.                                                  *)
THEOREM InductiveInvariant == Spec => []IInv
BY InitIInv, IInvStep, PTL DEF Spec

(* No local change is silently dropped: it is in the cloud, or its upload  *)
(* is still owed, or its failure was logged or returned.                   *)
THEOREM NothingLostSilently == Spec => []NoSilentLoss
<1>1. IInv => NoSilentLoss
  <2> SUFFICES ASSUME IInv, NEW h \in Handles, phase[h] # "none", ~Owed(h)
               PROVE  \/ wrote[h] <= sent[file[h]]
                      \/ wrote[h] <= reported[file[h]]
      BY DEF NoSilentLoss
  <2>1. HandleInv(h) /\ phase[h] \in Phases /\ file[h] \in Files /\ dirty[h] \in BOOLEAN
        /\ sent[file[h]] \in Nat /\ fsync[h] \in {"idle", "claimed", "uploaded", "failed"}
      BY DEF IInv, TypeOK
  <2>2. CASE phase[h] = "started"
      BY <2>1, <2>2 DEF HandleInv
  <2>3. CASE phase[h] = "open"
      BY <2>1, <2>3 DEF HandleInv, Owed
  <2>4. CASE phase[h] \in {"close", "done", "abandoned"}
      BY <2>1, <2>4 DEF HandleInv
  <2> QED
      BY <2>1, <2>2, <2>3, <2>4 DEF Owed
<1> QED
    BY <1>1, InductiveInvariant, PTL

(* A successful fsync promises only what the cloud already has.            *)
THEOREM FsyncIsDurable == Spec => []FsyncDurable
<1>1. IInv => FsyncDurable
    BY DEF IInv, HandleInv, FsyncDurable
<1> QED
    BY <1>1, InductiveInvariant, PTL

(* Every registered open is matched by a close_handle, except of handlers  *)
(* that could not open the cache file the engine named.                    *)
THEOREM OpensAreMatched == Spec => []OpenSetMatched
<1> DEFINE J == IInv /\ OpenSetMatched /\ \A h \in openSet : phase[h] # "started"
<1>1. Init => J
    BY InitIInv DEF Init, OpenSetMatched
<1>2. J /\ [Next]_vars => J'
  <2> DEFINE Q == OpenSetMatched /\ \A h \in openSet : phase[h] # "started"
  <2> SUFFICES ASSUME J, [Next]_vars PROVE Q'
      BY IInvStep
  <2>0. /\ openSet \subseteq Handles
        /\ phase \in [Handles -> Phases]
        /\ \A h \in Handles : fsync[h] # "idle" => phase[h] = "open"
        /\ \A h \in openSet : phase[h] \notin {"none", "started", "done"}
      BY DEF IInv, TypeOK, HandleInv, OpenSetMatched
  <2> USE DEF OpenSetMatched, Goto
  <2>1. ASSUME NEW h \in Handles, NEW f \in Files, NEW k \in Kinds,
               Start(h, k, f) \/ StartCreate(h, k, f)
        PROVE  Q'
      BY <2>0, <2>1 DEF Start, StartCreate
  <2>2. ASSUME NEW h \in Handles, FirstVerb(h) PROVE Q'
    <3>1. phase[h] = "started" /\ openSet' \subseteq openSet \cup {h}
        BY <2>2 DEF FirstVerb, OpenRead, OpenWriteBegin, CreateVerb, FirstVerbRefused,
           FirstVerbLost
    <3>2. CASE phase' = [phase EXCEPT ![h] = "done"]
        BY <2>0, <2>2, <3>1, <3>2
        DEF FirstVerb, OpenRead, OpenWriteBegin, CreateVerb, FirstVerbRefused, FirstVerbLost
    <3>3. CASE phase' \in {[phase EXCEPT ![h] = "registered"], [phase EXCEPT ![h] = "upload"]}
        BY <2>0, <3>1, <3>3
    <3> QED
        BY <2>2, <3>2, <3>3
        DEF FirstVerb, OpenRead, OpenWriteBegin, CreateVerb, FirstVerbRefused, FirstVerbLost
  <2>3. ASSUME NEW h \in Handles, OpenSteps(h) PROVE Q'
      BY <2>0, <2>3 DEF OpenSteps, OpenCacheFile, OpenCacheFileFails, InsertHandle
  <2>4. ASSUME NEW h \in Handles, Write(h) \/ SetLen(h) \/ FsyncClaim(h) PROVE Q'
      BY <2>0, <2>4 DEF Write, SetLen, FsyncClaim
  <2>5. ASSUME NEW h \in Handles, FsyncSteps(h) PROVE Q'
      BY <2>0, <2>5
      DEF FsyncSteps, FsyncUpload, FsyncReturnsOk, FsyncUploadFails, FsyncReturnsError, handleVars
  <2>6. ASSUME NEW h \in Handles, Release(h) PROVE Q'
      BY <2>0, <2>6 DEF Release
  <2>7. ASSUME NEW h \in Handles, ReleaseSteps(h) PROVE Q'
      BY <2>0, <2>7 DEF ReleaseSteps, Upload, UploadFails, Close, CloseFails
  <2>8. CASE ConnectionLost
      BY <2>8 DEF ConnectionLost
  <2>9. CASE UNCHANGED vars
      BY <2>0, <2>9 DEF vars
  <2> QED
      BY <2>1, <2>2, <2>3, <2>4, <2>5, <2>6, <2>7, <2>8, <2>9
      DEF Next, MknodRelease, KernelRelease
<1>3. J => OpenSetMatched
    OBVIOUS
<1> QED
    BY <1>1, <1>2, <1>3, PTL DEF Spec

------------------------------------------------------------------------------
(* An fsync promises no less than the last one on its handle: what it      *)
(* claims includes all that was written before.                            *)
PromisesGrow ==
    \A h \in Handles :
        /\ acked[h] <= wrote[h]
        /\ fsync[h] # "idle" => acked[h] <= claim[h]

(* The steps that do not touch what DurableFile is about.                  *)
LEMMA HiddenSteps ==
    ASSUME NEW h \in Handles,
           \/ \E f \in Files, k \in Kinds : Start(h, k, f) \/ StartCreate(h, k, f)
           \/ OpenRead(h) \/ FirstVerbRefused(h) \/ OpenCacheFileFails(h) \/ InsertHandle(h)
           \/ Release(h) \/ Close(h) \/ CloseFails(h)
    PROVE  UNCHANGED <<bytes, sent, wrote, fsync, claim, acked>>
BY DEF Start, StartCreate, OpenRead, FirstVerbRefused, OpenCacheFileFails, InsertHandle,
   Release, Close, CloseFails, fsyncVars

(* The steps that change the cache file of h.                              *)
Changes(h) ==
    \/ OpenWriteBegin(h) \/ CreateVerb(h) \/ FirstVerbLost(h) \/ Write(h) \/ SetLen(h)
    \/ OpenCacheFile(h) /\ kind[h] = "truncN"

LEMMA ChangeSteps ==
    ASSUME TypeOK, NEW h \in Handles, Changes(h)
    PROVE  file[h] \in Files /\ Change(h) /\ UNCHANGED <<sent, fsync, claim, acked>>
BY DEF TypeOK, Changes, OpenWriteBegin, CreateVerb, FirstVerbLost, Write, SetLen, Writable,
   OpenCacheFile, fsyncVars

(* The steps that send the cache file, whether the reply arrives or not.   *)
Sends(h) == FsyncUpload(h) \/ FsyncUploadFails(h) \/ Upload(h) \/ UploadFails(h)

LEMMA SendSteps ==
    ASSUME IInv, NEW h \in Handles, Sends(h)
    PROVE  /\ file[h] \in Files
           /\ sent' = sent \/ sent' = [sent EXCEPT ![file[h]] = bytes[file[h]]]
           /\ UNCHANGED <<bytes, wrote, claim, acked>>
           /\ \A g \in Handles : fsync'[g] # "idle" => fsync[g] # "idle"
BY DEF IInv, TypeOK, HandleInv, Sends, FsyncUpload, FsyncUploadFails, Upload, UploadFails,
   handleVars, fsyncVars

LEMMA StepKinds ==
    ASSUME [Next]_vars
    PROVE  \/ \E h \in Handles : Changes(h) \/ Sends(h) \/ FsyncClaim(h) \/ FsyncReturnsOk(h)
           \/ \E h \in Handles : FsyncReturnsError(h)
           \/ UNCHANGED <<bytes, sent, wrote, fsync, claim, acked>>
<1>1. ASSUME NEW h \in Handles, OpenCacheFile(h), kind[h] # "truncN"
      PROVE  UNCHANGED <<bytes, sent, wrote, fsync, claim, acked>>
    BY <1>1 DEF OpenCacheFile, fsyncVars
<1>2. ConnectionLost \/ UNCHANGED vars => UNCHANGED <<bytes, sent, wrote, fsync, claim, acked>>
    BY DEF ConnectionLost, handleVars, fsyncVars, vars
<1> QED
    BY <1>1, <1>2, HiddenSteps DEF Next, FirstVerb, OpenSteps, FsyncSteps, ReleaseSteps,
       KernelRelease, MknodRelease, Changes, Sends

LEMMA PromisesStep == IInv /\ PromisesGrow /\ [Next]_vars => PromisesGrow'
<1> SUFFICES ASSUME IInv, PromisesGrow, [Next]_vars PROVE PromisesGrow'
    OBVIOUS
<1>0. TypeOK /\ \A h \in Handles : HandleInv(h)
    BY DEF IInv
<1> USE DEF PromisesGrow
<1>1. ASSUME NEW h \in Handles, Changes(h) PROVE PromisesGrow'
  <2>1. wrote[h] <= bytes[file[h]]
      BY <1>0, <1>1 DEF TypeOK, HandleInv, Changes, OpenWriteBegin, CreateVerb, FirstVerbLost,
         Write, SetLen, Writable, OpenCacheFile
  <2> QED
      BY <1>0, <1>1, <2>1, ChangeSteps DEF Change, TypeOK
<1>2. ASSUME NEW h \in Handles, Sends(h) PROVE PromisesGrow'
    BY <1>0, <1>2, SendSteps
<1>3. ASSUME NEW h \in Handles, FsyncClaim(h) PROVE PromisesGrow'
    BY <1>0, <1>3 DEF FsyncClaim, TypeOK
<1>4. ASSUME NEW h \in Handles, FsyncReturnsOk(h) PROVE PromisesGrow'
    BY <1>0, <1>4 DEF FsyncReturnsOk, handleVars, TypeOK, HandleInv
<1>5. ASSUME NEW h \in Handles, FsyncReturnsError(h) PROVE PromisesGrow'
    BY <1>0, <1>5 DEF FsyncReturnsError, TypeOK
<1> QED
    BY <1>1, <1>2, <1>3, <1>4, <1>5, StepKinds

(* The write path implements the durable file: open_write takes the cache  *)
(* file as it is, and fsync promises what has been taken, for good.        *)
THEOREM WritePathImplementsDurable == Spec => ImplementsDurable
<1> USE DEF Durable!Init, Durable!Next, Durable!Change, Durable!Persist, Durable!Promise
<1>1. Init => Durable!Init /\ PromisesGrow
    BY DEF Init, PromisesGrow
<1>2. ASSUME IInv, PromisesGrow, [Next]_vars
      PROVE  [Durable!Next]_<<bytes, sent, acked>>
  <2>0. TypeOK /\ SentBounded /\ \A h \in Handles : HandleInv(h)
      BY <1>2 DEF IInv
  <2>1. ASSUME NEW h \in Handles, Changes(h) PROVE Durable!Next
      BY <2>0, <2>1, ChangeSteps DEF Change, TypeOK
  <2>2. ASSUME NEW h \in Handles, Sends(h) PROVE Durable!Next \/ UNCHANGED <<bytes, sent, acked>>
      BY <1>2, <2>2, SendSteps
  <2>3. ASSUME NEW h \in Handles, FsyncClaim(h)
        PROVE  Durable!Next \/ UNCHANGED <<bytes, sent, acked>>
    <3>1. CASE dirty[h]
        BY <2>3, <3>1 DEF FsyncClaim
    <3>2. CASE ~dirty[h]
      <4>1. /\ file[h] \in Files
            /\ wrote[h] \in acked[h]..sent[file[h]]
            /\ acked' = [acked EXCEPT ![h] = wrote[h]] /\ UNCHANGED <<bytes, sent>>
          BY <1>2, <2>0, <2>3, <3>2 DEF FsyncClaim, HandleInv, PromisesGrow, TypeOK
      <4> QED
          BY <4>1
    <3> QED
        BY <3>1, <3>2
  <2>4. ASSUME NEW h \in Handles, FsyncReturnsOk(h) PROVE Durable!Next
    <3>1. /\ file[h] \in Files
          /\ claim[h] \in acked[h]..sent[file[h]]
          /\ acked' = [acked EXCEPT ![h] = claim[h]] /\ UNCHANGED <<bytes, sent>>
        BY <1>2, <2>0, <2>4 DEF FsyncReturnsOk, HandleInv, PromisesGrow, TypeOK
    <3> QED
        BY <3>1
  <2>5. ASSUME NEW h \in Handles, FsyncReturnsError(h) PROVE UNCHANGED <<bytes, sent, acked>>
      BY <2>5 DEF FsyncReturnsError
  <2> QED
      BY <1>2, <2>1, <2>2, <2>3, <2>4, <2>5, StepKinds
<1> QED
    BY <1>1, <1>2, PromisesStep, InductiveInvariant, PTL
    DEF Spec, ImplementsDurable, Durable!Spec
==============================================================================
