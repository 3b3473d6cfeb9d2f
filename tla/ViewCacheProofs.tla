--------------------------- MODULE ViewCacheProofs ---------------------------
(***************************************************************************)
(* Theorems about ViewCache, for any number of entries, handlers, uploads, *)
(* changes and broken streams.                                             *)
(***************************************************************************)
EXTENDS ViewCache, TLAPS

(* One of the invalidations in s covers e.                                 *)
Covers(s, e) == \E i \in 1..Len(s) : e \in s[i]

(* An invalidation of e is on its way to the cache: in the stream, in the  *)
(* queue, in the applier's hands, or due when the stream is back.          *)
OnItsWay(e) ==
    \/ ~up /\ hadStream
    \/ Covers(stream, e)
    \/ Covers(pending, e)
    \/ applying.busy /\ e \in applying.drop \ applying.keep

(* Whatever is stale will be dropped, unless its bytes are still to be     *)
(* sent or it was missed.                                                  *)
Announced == \A e \in Entries \ missed : Stale(e) => Unsent(e) \/ OnItsWay(e)

(* A stream that breaks is one that was had.                               *)
GapDue == up => hadStream

(* Without ListRace, a listing is inserted as it was answered.             *)
ReplyCurrent == ~ListRace => \A t \in Tasks : task[t] = "replied" => reply[t] = view

IInv == TypeOK /\ GapDue /\ ReplyCurrent

------------------------------------------------------------------------------
LEMMA CoversNothing == \A e : ~Covers(<< >>, e)
BY DEF Covers

LEMMA CoversOne == ASSUME NEW x, NEW e \in x PROVE Covers(<<x>>, e)
BY DEF Covers

LEMMA CoversAppend ==
    ASSUME NEW S, NEW s \in Seq(S), NEW x \in S, NEW e
    PROVE  Covers(Append(s, x), e) <=> Covers(s, e) \/ e \in x
<1>1. /\ Len(s) \in Nat /\ Len(Append(s, x)) = Len(s) + 1
      /\ \A i \in 1..Len(s) : Append(s, x)[i] = s[i]
      /\ Append(s, x)[Len(s) + 1] = x
  OBVIOUS
<1> QED BY <1>1 DEF Covers

LEMMA CoversHeadTail ==
    ASSUME NEW S, NEW s \in Seq(S), s # << >>, NEW e
    PROVE  Covers(s, e) <=> e \in Head(s) \/ Covers(Tail(s), e)
<1>1. /\ Len(s) \in Nat \ {0} /\ Len(Tail(s)) = Len(s) - 1
      /\ \A i \in 1..Len(Tail(s)) : Tail(s)[i] = s[i + 1]
      /\ Head(s) = s[1]
  OBVIOUS
<1>2. ASSUME NEW i \in 1..Len(s), e \in s[i] PROVE e \in Head(s) \/ Covers(Tail(s), e)
  <2>1. CASE i = 1
    BY <1>1, <1>2, <2>1
  <2>2. CASE i # 1
    <3>1. i - 1 \in 1..Len(Tail(s)) /\ (i - 1) + 1 = i
      BY <1>1, <2>2
    <3>2. Tail(s)[i - 1] = s[i]
      BY <1>1, <3>1
    <3> QED BY <1>2, <3>1, <3>2 DEF Covers
  <2> QED BY <2>1, <2>2
<1>3. ASSUME NEW i \in 1..Len(Tail(s)), e \in Tail(s)[i] PROVE Covers(s, e)
  <2>1. i + 1 \in 1..Len(s)
    BY <1>1
  <2> QED BY <1>1, <1>3, <2>1 DEF Covers
<1>4. e \in Head(s) => Covers(s, e)
  BY <1>1 DEF Covers
<1> QED BY <1>2, <1>3, <1>4 DEF Covers

------------------------------------------------------------------------------
LEMMA StepKinds ==
    ASSUME [Next]_vars
    PROVE  \/ \E t \in Tasks : Populate(t)
           \/ /\ ~Listing
              /\ \/ \E t \in Tasks : ListReply(t) \/ ListFails(t) \/ Readdir(t)
                 \/ \E t \in Tasks, e \in Entries : StatMiss(t, e)
                 \/ \E e \in Entries : RemoteChange(e) \/ LocalWrite(e)
                 \/ \E s \in Senders, e \in Entries, by \in {"fsync", "release"} :
                        UploadStep(s, e, by)
                 \/ Collect \/ Drop \/ Subscribe \/ ReadEvent
                 \/ StreamBreaks \/ SubscriptionRefused \/ EventsLost
           \/ UNCHANGED vars
BY Zenon DEF Next, TaskStep, ApplierStep, SubscriberStep

(* What an upload that the daemon executes, or refuses, does to the rest.  *)
LEMMA UploadFrames ==
    ASSUME NEW s \in Senders, NEW e \in Entries, NEW by \in {"fsync", "release"}
    PROVE  /\ Uploaded(s, e, by) \/ UploadReplyLost(s, e, by) =>
                /\ Changed(e) /\ sending' = sending \ {<<s, e, by>>}
                /\ dirty' = dirty \/ dirty' = dirty \cup {e}
           /\ UploadFails(s, e, by) =>
                /\ UNCHANGED <<view, attrs, taskVars, subVars, pending, applying>>
                /\ sending' = sending \ {<<s, e, by>>}
                /\ \/ dirty' = dirty \cup {e} /\ missed' = missed
                   \/ dirty' = dirty /\ missed' = missed \cup {e}
           /\ TakeDirty(s, e, by) =>
                /\ UNCHANGED <<view, missed, attrs, taskVars, subVars, pending, applying>>
                /\ sending' = sending \cup {<<s, e, by>>}
                /\ dirty' = dirty \/ dirty' = dirty \ {e}
<1>1. Uploaded(s, e, by) \/ UploadReplyLost(s, e, by) =>
        /\ Changed(e) /\ sending' = sending \ {<<s, e, by>>}
        /\ dirty' = dirty \/ dirty' = dirty \cup {e}
  BY DEF Uploaded, UploadReplyLost
<1>2. UploadFails(s, e, by) =>
        /\ UNCHANGED <<view, attrs, taskVars, subVars, pending, applying>>
        /\ sending' = sending \ {<<s, e, by>>}
        /\ \/ dirty' = dirty \cup {e} /\ missed' = missed
           \/ dirty' = dirty /\ missed' = missed \cup {e}
  BY DEF UploadFails
<1>3. TakeDirty(s, e, by) =>
        /\ UNCHANGED <<view, missed, attrs, taskVars, subVars, pending, applying>>
        /\ sending' = sending \cup {<<s, e, by>>}
        /\ dirty' = dirty \/ dirty' = dirty \ {e}
  BY DEF TakeDirty
<1> QED BY <1>1, <1>2, <1>3

LEMMA TypeStep ==
    ASSUME TypeOK, [Next]_vars
    PROVE  TypeOK'
<1> USE ViewCacheAssumption
<1> USE DEF TypeOK
<1>1. ASSUME NEW t \in Tasks, Populate(t) PROVE TypeOK'
  BY <1>1 DEF Populate, NoListing, subVars
<1>2. ASSUME Drop PROVE TypeOK'
  BY <1>2 DEF Drop, taskVars, subVars, Nothing
<1>3. ASSUME NEW t \in Tasks, ListReply(t) \/ ListFails(t) \/ Readdir(t) PROVE TypeOK'
  <2>1. CASE ListReply(t)
    BY <2>1 DEF ListReply, viewVars, uploadVars, subVars
  <2>2. CASE ListFails(t)
    BY <2>2 DEF ListFails, viewVars, uploadVars, subVars
  <2>3. CASE Readdir(t)
    BY <2>3 DEF Readdir, viewVars, uploadVars, subVars
  <2> QED BY <1>3, <2>1, <2>2, <2>3
<1>4. ASSUME NEW t \in Tasks, NEW e \in Entries, StatMiss(t, e) PROVE TypeOK'
  BY <1>4 DEF StatMiss, viewVars, uploadVars, subVars
<1>5. ASSUME NEW e \in Entries, Changed(e), dirty' \subseteq Entries,
             sending' \subseteq Senders \X Entries \X {"fsync", "release"}
      PROVE  TypeOK'
  <2>1. stream' \in Seq(SUBSET Entries) /\ missed' \subseteq Entries
    BY <1>5 DEF Changed
  <2>2. view' \in [Entries -> Nat]
    BY <1>5 DEF Changed
  <2> QED BY <1>5, <2>1, <2>2 DEF Changed, taskVars
<1>6. ASSUME NEW e \in Entries, RemoteChange(e) \/ LocalWrite(e) PROVE TypeOK'
  <2>1. CASE RemoteChange(e)
    BY <1>5, <2>1 DEF RemoteChange
  <2>2. CASE LocalWrite(e)
    BY <2>2 DEF LocalWrite, taskVars, subVars
  <2> QED BY <1>6, <2>1, <2>2
<1>7. ASSUME NEW s \in Senders, NEW e \in Entries, NEW by \in {"fsync", "release"},
             UploadStep(s, e, by)
      PROVE  TypeOK'
  <2>0. <<s, e, by>> \in Senders \X Entries \X {"fsync", "release"}
    OBVIOUS
  <2>1. CASE Uploaded(s, e, by) \/ UploadReplyLost(s, e, by)
    <3>1. /\ Changed(e) /\ sending' = sending \ {<<s, e, by>>}
          /\ dirty' = dirty \/ dirty' = dirty \cup {e}
      BY <2>1 DEF Uploaded, UploadReplyLost
    <3>2. sending' \subseteq Senders \X Entries \X {"fsync", "release"}
      BY <3>1
    <3>3. dirty' \subseteq Entries
      BY <3>1
    <3> QED BY <1>5, <3>1, <3>2, <3>3, Zenon
  <2>2. CASE UploadFails(s, e, by)
    <3>1. /\ UNCHANGED <<view, attrs, taskVars, subVars, pending, applying>>
          /\ sending' = sending \ {<<s, e, by>>}
          /\ \/ dirty' = dirty \cup {e} /\ missed' = missed
             \/ dirty' = dirty /\ missed' = missed \cup {e}
      BY <2>2 DEF UploadFails
    <3>2. sending' \subseteq Senders \X Entries \X {"fsync", "release"}
      BY <3>1
    <3>3. dirty' \subseteq Entries /\ missed' \subseteq Entries
      BY <3>1
    <3> QED BY <3>1, <3>2, <3>3 DEF taskVars, subVars
  <2>3. CASE TakeDirty(s, e, by)
    <3>1. /\ UNCHANGED <<view, missed, attrs, taskVars, subVars, pending, applying>>
          /\ sending' = sending \cup {<<s, e, by>>}
          /\ dirty' = dirty \/ dirty' = dirty \ {e}
      BY <2>3 DEF TakeDirty
    <3>2. sending' \subseteq Senders \X Entries \X {"fsync", "release"}
      BY <2>0, <3>1
    <3>3. dirty' \subseteq Entries
      BY <3>1
    <3> QED BY <3>1, <3>2, <3>3 DEF taskVars, subVars
  <2> QED BY <1>7, <2>1, <2>2, <2>3 DEF UploadStep
<1>8. ASSUME Collect PROVE TypeOK'
  BY <1>8 DEF Collect, viewVars, uploadVars, taskVars, subVars
<1>9. ASSUME Subscribe PROVE TypeOK'
  BY <1>9 DEF Subscribe, All, viewVars, uploadVars, taskVars
<1>10. ASSUME ReadEvent PROVE TypeOK'
  BY <1>10 DEF ReadEvent, viewVars, uploadVars, taskVars
<1>11. ASSUME StreamBreaks \/ SubscriptionRefused PROVE TypeOK'
  <2>1. CASE StreamBreaks
    <3>1. stream' \in Seq(SUBSET Entries)
      BY <2>1 DEF StreamBreaks
    <3>2. up' \in BOOLEAN
      BY <2>1, Zenon DEF StreamBreaks
    <3>4. drops' \in Nat
      BY <2>1 DEF StreamBreaks
    <3>3. UNCHANGED <<view, attrs, dirty, sending, missed, task, reply, hadStream, ended,
                      pending, applying>>
      BY <2>1 DEF StreamBreaks, viewVars, uploadVars, taskVars
    <3> QED BY <3>1, <3>2, <3>3, <3>4
  <2>2. CASE SubscriptionRefused
    BY <2>2 DEF SubscriptionRefused, viewVars, uploadVars, taskVars
  <2> QED BY <1>11, <2>1, <2>2
<1>12. ASSUME EventsLost PROVE TypeOK'
  BY <1>12 DEF EventsLost, All, viewVars, uploadVars, taskVars
<1>13. ASSUME UNCHANGED vars PROVE TypeOK'
  BY <1>13 DEF vars, uploadVars, taskVars, subVars
<1> HIDE DEF TypeOK
<1> QED BY StepKinds, <1>1, <1>2, <1>3, <1>4, <1>6, <1>7, <1>8, <1>9, <1>10, <1>11,
           <1>12, <1>13, ZenonT(30)

(* The stream once had is never unhad.                                     *)
LEMMA GapStep ==
    ASSUME GapDue, [Next]_vars
    PROVE  GapDue'
<1>1. ASSUME NEW e \in Entries, RemoteChange(e) \/ LocalWrite(e)
      PROVE  UNCHANGED <<up, hadStream>>
  BY <1>1 DEF RemoteChange, LocalWrite, Changed, subVars
<1>4. ASSUME NEW s \in Senders, NEW e \in Entries, NEW by \in {"fsync", "release"},
             UploadStep(s, e, by)
      PROVE  UNCHANGED <<up, hadStream>>
  BY <1>4, UploadFrames DEF UploadStep, Changed, subVars
<1>2. ASSUME \/ \E t \in Tasks : Populate(t) \/ ListReply(t) \/ ListFails(t) \/ Readdir(t)
             \/ \E t \in Tasks, e \in Entries : StatMiss(t, e)
             \/ Collect \/ Drop \/ ReadEvent \/ SubscriptionRefused \/ EventsLost
             \/ UNCHANGED vars
      PROVE  UNCHANGED <<up, hadStream>>
  BY <1>2 DEF Populate, Drop, ListReply, ListFails, Readdir, StatMiss, Collect, ReadEvent,
     SubscriptionRefused, EventsLost, subVars, vars
<1>3. ASSUME Subscribe \/ StreamBreaks PROVE GapDue'
  BY <1>3 DEF Subscribe, StreamBreaks, GapDue
<1> QED BY StepKinds, <1>1, <1>2, <1>3, <1>4 DEF GapDue

(* While an answered listing waits, the daemon's view does not change.     *)
LEMMA ReplyStep ==
    ASSUME TypeOK, ReplyCurrent, [Next]_vars
    PROVE  ReplyCurrent'
<1> SUFFICES ASSUME ~ListRace, NEW x \in Tasks, task'[x] = "replied"
             PROVE  reply'[x] = view'
  BY DEF ReplyCurrent
<1> USE DEF TypeOK, ReplyCurrent
<1>1. ASSUME NEW t \in Tasks, Populate(t) PROVE reply'[x] = view'
  BY <1>1 DEF Populate
<1>2. ASSUME NEW t \in Tasks, ListReply(t) PROVE reply'[x] = view'
  BY <1>2 DEF ListReply, viewVars
<1>3. ASSUME NEW t \in Tasks, ListFails(t) \/ Readdir(t) \/ \E e \in Entries : StatMiss(t, e)
      PROVE  reply'[x] = view'
  BY <1>3 DEF ListFails, Readdir, StatMiss, viewVars
<1>4. ASSUME ~Listing, NEW e \in Entries, Changed(e) PROVE FALSE
  BY <1>4 DEF Changed, taskVars, Listing
<1>5. ASSUME \/ \E e \in Entries : LocalWrite(e)
             \/ Drop \/ Collect \/ Subscribe \/ ReadEvent \/ StreamBreaks
             \/ SubscriptionRefused \/ EventsLost \/ UNCHANGED vars
      PROVE  reply'[x] = view'
  <2>1. UNCHANGED <<view, task, reply>>
    BY <1>5 DEF Drop, Collect, Subscribe, ReadEvent, StreamBreaks, SubscriptionRefused,
       EventsLost, LocalWrite, viewVars, taskVars, vars
  <2> QED BY <2>1
<1>6. ASSUME ~Listing, NEW e \in Entries, RemoteChange(e) PROVE reply'[x] = view'
  BY <1>4, <1>6 DEF RemoteChange
<1>7. ASSUME ~Listing, NEW s \in Senders, NEW e \in Entries, NEW by \in {"fsync", "release"},
             UploadStep(s, e, by)
      PROVE  reply'[x] = view'
  <2>1. Changed(e) \/ UNCHANGED <<view, task, reply>>
    BY <1>7, UploadFrames DEF UploadStep, taskVars
  <2> QED BY <1>4, <1>7, <2>1
<1> HIDE DEF TypeOK, ReplyCurrent
<1> QED BY StepKinds, <1>1, <1>2, <1>3, <1>5, <1>6, <1>7, ZenonT(30)

LEMMA InitIInv == Init => IInv
<1> SUFFICES ASSUME Init PROVE IInv
  OBVIOUS
<1> USE DEF Init
<1>1. TypeOK
  <2>1. /\ up \in BOOLEAN /\ hadStream \in BOOLEAN /\ ended \in BOOLEAN
    BY Zenon
  <2>2. stream \in Seq(SUBSET Entries) /\ pending \in Seq(SUBSET Entries)
    OBVIOUS
  <2>3. applying \in [drop : SUBSET Entries, keep : SUBSET Entries, busy : BOOLEAN]
    BY DEF Nothing
  <2>4. view \in [Entries -> Nat] /\ reply \in [Tasks -> [Entries -> Nat]]
    BY DEF NoListing
  <2>5. /\ attrs \in [Entries -> Nat \cup {Uncached}]
        /\ dirty \subseteq Entries /\ missed \subseteq Entries
        /\ sending \subseteq Senders \X Entries \X {"fsync", "release"}
        /\ task \in [Tasks -> {"idle", "asked", "replied"}] /\ drops \in Nat
    OBVIOUS
  <2> QED BY <2>1, <2>2, <2>3, <2>4, <2>5 DEF TypeOK
<1>2. GapDue
  BY DEF GapDue
<1>3. ReplyCurrent
  BY DEF ReplyCurrent
<1> QED BY <1>1, <1>2, <1>3 DEF IInv

LEMMA Invariance == Spec => []IInv
<1>1. IInv /\ [Next]_vars => IInv'
  BY TypeStep, GapStep, ReplyStep DEF IInv
<1> QED BY InitIInv, <1>1, PTL DEF Spec

(* Every variable of the cache has its type, ListRace or not.              *)
THEOREM TypeCorrect == Spec => []TypeOK
<1>1. IInv => TypeOK
  BY DEF IInv
<1> QED BY Invariance, <1>1, PTL

------------------------------------------------------------------------------
(* A change of one entry is announced, or was missed.                      *)
LEMMA ChangeAnnounced ==
    ASSUME IInv, Announced, NEW e \in Entries, Changed(e),
           NEW x \in Entries \ missed', Stale(x)', x # e => ~Unsent(x)
    PROVE  OnItsWay(x)'
<1>b. /\ stream \in Seq(SUBSET Entries)
      /\ view \in [Entries -> Nat] /\ attrs \in [Entries -> Nat \cup {Uncached}]
  BY DEF IInv, TypeOK
<1>1. /\ UNCHANGED <<attrs, up, hadStream, pending, applying>>
      /\ view' = [view EXCEPT ![e] = @ + 1]
      /\ stream' = IF up THEN Append(stream, {e}) ELSE stream
      /\ missed' = IF hadStream THEN missed ELSE missed \cup {e}
  BY DEF Changed
<1>2. up => (Covers(stream', x) <=> Covers(stream, x) \/ x \in {e})
  <2>1. {e} \in SUBSET Entries
    OBVIOUS
  <2>2. Covers(Append(stream, {e}), x) <=> Covers(stream, x) \/ x \in {e}
    BY <1>b, <2>1, CoversAppend
  <2> QED BY <1>1, <2>2
<1>3. CASE x = e
  BY <1>1, <1>2, <1>3 DEF OnItsWay, IInv, GapDue
<1>4. CASE x # e
  <2>1. Stale(x) /\ x \notin missed
    BY <1>b, <1>1, <1>4 DEF Stale
  <2>2. OnItsWay(x)
    BY <1>4, <2>1 DEF Announced
  <2> QED BY <1>1, <1>2, <2>2 DEF OnItsWay
<1> QED BY <1>3, <1>4

(* What is stale is announced, and stays announced until it is dropped.    *)
LEMMA AnnouncedStep ==
    ASSUME IInv, Announced, [Next]_vars, ~ListRace
    PROVE  Announced'
<1> SUFFICES ASSUME NEW x \in Entries, x \notin missed', Stale(x)', ~Unsent(x)'
             PROVE  OnItsWay(x)'
  BY DEF Announced
<1> USE DEF IInv
<1>a. x \notin missed /\ Stale(x) /\ ~Unsent(x) => OnItsWay(x)
  BY DEF Announced
<1>b. /\ stream \in Seq(SUBSET Entries) /\ pending \in Seq(SUBSET Entries)
      /\ view \in [Entries -> Nat] /\ attrs \in [Entries -> Nat \cup {Uncached}]
      /\ applying \in [drop : SUBSET Entries, keep : SUBSET Entries, busy : BOOLEAN]
  BY DEF TypeOK
<1>1. ASSUME NEW t \in Tasks, Populate(t) PROVE OnItsWay(x)'
  <2>1. attrs' = view'
    BY <1>1 DEF ReplyCurrent, Populate
  <2> QED BY <2>1 DEF Stale
<1>2. ASSUME Drop PROVE OnItsWay(x)'
  <2>1. /\ UNCHANGED <<view, dirty, sending, up, hadStream, stream, pending>>
        /\ x \notin applying.drop \ applying.keep
        /\ x \notin missed /\ Stale(x)
    BY <1>2 DEF Drop, subVars, Stale
  <2>2. OnItsWay(x)
    BY <1>a, <2>1 DEF Unsent
  <2> QED BY <2>1, <2>2 DEF OnItsWay
<1>3. ASSUME NEW e \in Entries, RemoteChange(e) PROVE OnItsWay(x)'
  <2>1. ~Unsent(x)
    BY <1>3 DEF RemoteChange, Unsent
  <2> QED BY <1>3, <2>1, ChangeAnnounced DEF RemoteChange
<1>4. ASSUME NEW e \in Entries, LocalWrite(e) PROVE OnItsWay(x)'
  <2>1. /\ UNCHANGED <<view, attrs, missed, up, hadStream, stream, pending, applying>>
        /\ ~Unsent(x)
    BY <1>4 DEF LocalWrite, subVars, Unsent
  <2> QED BY <1>a, <2>1 DEF OnItsWay, Stale
<1>5. ASSUME NEW s \in Senders, NEW e \in Entries, NEW by \in {"fsync", "release"},
             Uploaded(s, e, by) \/ UploadReplyLost(s, e, by)
      PROVE  OnItsWay(x)'
  <2>1. /\ Changed(e) /\ sending' = sending \ {<<s, e, by>>}
        /\ dirty' = dirty \/ dirty' = dirty \cup {e}
    BY <1>5, UploadFrames
  <2>2. x # e => ~Unsent(x)
    BY <2>1 DEF Unsent
  <2> QED BY <2>1, <2>2, ChangeAnnounced
<1>6. ASSUME NEW s \in Senders, NEW e \in Entries, NEW by \in {"fsync", "release"},
             UploadFails(s, e, by)
      PROVE  OnItsWay(x)'
  <2>1. /\ UNCHANGED <<view, attrs, up, hadStream, stream, pending, applying>>
        /\ sending' = sending \ {<<s, e, by>>}
        /\ \/ dirty' = dirty \cup {e} /\ missed' = missed
           \/ dirty' = dirty /\ missed' = missed \cup {e}
    BY <1>6, UploadFrames DEF subVars
  <2>2. x # e /\ x \notin missed /\ ~Unsent(x)
    BY <2>1 DEF Unsent
  <2> QED BY <1>a, <2>1, <2>2 DEF OnItsWay, Stale
<1>7. ASSUME NEW s \in Senders, NEW e \in Entries, NEW by \in {"fsync", "release"},
             TakeDirty(s, e, by)
      PROVE  OnItsWay(x)'
  <2>1. /\ UNCHANGED <<view, attrs, missed, up, hadStream, stream, pending, applying>>
        /\ sending' = sending \cup {<<s, e, by>>}
        /\ dirty' = dirty \/ dirty' = dirty \ {e}
    BY <1>7, UploadFrames DEF subVars
  <2>2. x # e
    <3>1. <<s, e, by>> \in sending' /\ <<s, e, by>>[2] = e
      BY <2>1
    <3> QED BY <3>1 DEF Unsent
  <2>3. ~Unsent(x)
    BY <2>1, <2>2 DEF Unsent
  <2> QED BY <1>a, <2>1, <2>3 DEF OnItsWay, Stale
<1>8. ASSUME Collect PROVE OnItsWay(x)'
  <2>1. /\ UNCHANGED <<view, attrs, dirty, sending, missed, up, hadStream, stream>>
        /\ pending # << >> /\ ~applying.busy
        /\ applying' = [drop |-> Head(pending), keep |-> dirty, busy |-> TRUE]
        /\ pending' = Tail(pending)
    BY <1>8 DEF Collect, viewVars, uploadVars, subVars
  <2>2. x \notin dirty /\ OnItsWay(x)
    BY <1>a, <2>1 DEF Stale, Unsent
  <2>3. Covers(pending, x) => x \in Head(pending) \/ Covers(Tail(pending), x)
    BY <1>b, <2>1, CoversHeadTail
  <2> QED BY <2>1, <2>2, <2>3 DEF OnItsWay
<1>9. ASSUME Subscribe PROVE OnItsWay(x)'
  <2>1. /\ UNCHANGED <<view, attrs, dirty, sending, missed, stream, applying>> /\ ~up
        /\ pending' = IF hadStream THEN Append(pending, Entries) ELSE pending
    BY <1>9 DEF Subscribe, All, viewVars, uploadVars
  <2>2. Entries \in SUBSET Entries
    OBVIOUS
  <2>3. hadStream => Covers(pending', x)
    BY <1>b, <2>1, <2>2, CoversAppend, ZenonT(30)
  <2>4. OnItsWay(x)
    BY <1>a, <2>1 DEF Stale, Unsent
  <2> QED BY <2>1, <2>3, <2>4 DEF OnItsWay
<1>10. ASSUME ReadEvent PROVE OnItsWay(x)'
  <2>1. /\ UNCHANGED <<view, attrs, dirty, sending, missed, up, hadStream, applying>>
        /\ stream # << >>
        /\ pending' = Append(pending, Head(stream))
        /\ stream' = Tail(stream)
    BY <1>10 DEF ReadEvent, viewVars, uploadVars
  <2>2. OnItsWay(x)
    BY <1>a, <2>1 DEF Stale, Unsent
  <2>3. Covers(stream, x) => x \in Head(stream) \/ Covers(Tail(stream), x)
    BY <1>b, <2>1, CoversHeadTail
  <2>4. Head(stream) \in SUBSET Entries
    BY <1>b, <2>1
  <2>5. Covers(pending', x) <=> Covers(pending, x) \/ x \in Head(stream)
    BY <1>b, <2>1, <2>4, CoversAppend
  <2> QED BY <2>1, <2>2, <2>3, <2>5 DEF OnItsWay
<1>11. ASSUME EventsLost PROVE OnItsWay(x)'
  <2>1. stream' = <<Entries>>
    BY <1>11 DEF EventsLost, All
  <2> QED BY <2>1, CoversOne DEF OnItsWay
<1>12. ASSUME StreamBreaks PROVE OnItsWay(x)'
  BY <1>12 DEF StreamBreaks, OnItsWay, GapDue
<1>13. ASSUME \/ SubscriptionRefused \/ UNCHANGED vars
              \/ \E t \in Tasks : ListReply(t) \/ ListFails(t) \/ Readdir(t)
              \/ \E t \in Tasks, e \in Entries : StatMiss(t, e)
       PROVE  OnItsWay(x)'
  <2>1. UNCHANGED <<view, attrs, dirty, sending, missed, up, hadStream, stream, pending,
                    applying>>
    BY <1>13 DEF SubscriptionRefused, ListReply, ListFails, Readdir, StatMiss, viewVars,
       uploadVars, subVars, vars
  <2> QED BY <1>a, <2>1 DEF OnItsWay, Stale, Unsent
<1>14. ASSUME NEW s \in Senders, NEW e \in Entries, NEW by \in {"fsync", "release"},
              UploadStep(s, e, by)
       PROVE  OnItsWay(x)'
  BY <1>5, <1>6, <1>7, <1>14 DEF UploadStep
<1> QED BY StepKinds, <1>1, <1>2, <1>3, <1>4, <1>8, <1>9, <1>10, <1>11, <1>12, <1>13, <1>14,
           ZenonT(30)

(* "Keeps the cached view in step with the daemon" (view_refresh.rs): with *)
(* listings inserted as they were answered, nothing stale is left once     *)
(* every event has been applied but entries whose bytes are still to be    *)
(* sent and those missed, whatever the daemon, the stream, the applier,    *)
(* the writers and the uploads, failed ones too, do in between.            *)
THEOREM CacheInStep ==
    ASSUME ~ListRace
    PROVE  Spec => []InStep
<1>1. Init => Announced
  BY ViewCacheAssumption DEF Init, Announced, Stale
<1>2. IInv /\ Announced /\ [Next]_vars => Announced'
  BY AnnouncedStep
<1>3. Announced => InStep
  BY CoversNothing DEF Announced, InStep, Quiet, OnItsWay
<1> QED BY Invariance, <1>1, <1>2, <1>3, PTL DEF Spec
=============================================================================
