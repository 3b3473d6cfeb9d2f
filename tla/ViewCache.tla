------------------------------ MODULE ViewCache ------------------------------
(***************************************************************************)
(* The attribute cache of fuse_fs.rs and what keeps it in step with the    *)
(* daemon: lookup, getattr and readdir fill it from listings, the change-  *)
(* event subscription (subscribe.rs, view_refresh.rs) empties it, and      *)
(* local writes keep entries in it.  The fills, the event stream, the      *)
(* queue between the subscriber and the applier, and the applier itself    *)
(* run concurrently.                                                       *)
(*                                                                         *)
(* Entries are the children of one folder: one list verb reports them all. *)
(* The attributes of an entry are the version of it they describe.         *)
(* External: the daemon, which changes entries and sends each subscriber   *)
(* one view.invalidated event for a change, or `lost` for events dropped.  *)
(***************************************************************************)
EXTENDS Naturals, Sequences

CONSTANTS
    Entries,      \* the entries of the folder
    Tasks,        \* concurrent lookup, getattr and readdir handlers
    Uncached,     \* no attributes cached
    Written,      \* the entries that are written to through this mount
    MaxVersion,   \* bound, per entry: its last version
    Senders,      \* concurrent fsync and release handlers that upload
    MaxDrops,     \* bound: how often the event stream breaks
    ListRace      \* may anything happen between a listing's answer and Populate?

ASSUME ViewCacheAssumption ==
    /\ Uncached \notin Nat
    /\ Written \subseteq Entries
    /\ MaxVersion \in [Entries -> Nat] /\ MaxDrops \in Nat
    /\ ListRace \in BOOLEAN

VARIABLES
    view,       \* per entry: the version the daemon's listing reports
    attrs,      \* per entry: the cached version, or Uncached
    dirty,      \* entries with a dirty open handle
    sending,    \* uploads under way: <<handler, entry, "fsync" or "release">>
    missed,     \* ghost: entries whose attributes nothing will ever announce stale
    task,       \* per handler: "idle", "asked", or "replied"
    reply,      \* per handler: the listing the daemon answered
    stream,     \* events on the way to the subscriber
    up,         \* is the subscription established?
    hadStream,  \* run_subscription's had_stream
    drops,      \* how often the stream broke
    ended,      \* run_subscription has returned: it was refused
    pending,    \* invalidations sent to the applier, not yet received
    applying    \* the applier: the entries to drop and those to keep, or Nothing

uploadVars == <<dirty, sending, missed>>
viewVars == <<view, uploadVars>>
taskVars == <<task, reply>>
subVars == <<stream, up, hadStream, drops, ended>>
vars == <<view, attrs, uploadVars, taskVars, subVars, pending, applying>>

(* An invalidation is the set of entries it covers: Invalidation::All      *)
(* covers every entry, Paths those at or below one of its paths.           *)
All == Entries
NoListing == [e \in Entries |-> 0]
Nothing == [drop |-> {}, keep |-> {}, busy |-> FALSE]

(* The mount serves requests while the subscription is being established.  *)
Init ==
    /\ view = [e \in Entries |-> 0]
    /\ attrs = [e \in Entries |-> Uncached]
    /\ dirty = {} /\ sending = {} /\ missed = {}
    /\ task = [t \in Tasks |-> "idle"]
    /\ reply = [t \in Tasks |-> NoListing]
    /\ stream = << >>
    /\ up = FALSE /\ hadStream = FALSE
    /\ drops = 0
    /\ ended = FALSE
    /\ pending = << >>
    /\ applying = Nothing

------------------------------------------------------------------------------
(* The daemon: an entry changes, and the subscriber is told.  A change     *)
(* before the first stream is announced by nothing.                        *)
Changed(e) ==
    /\ view[e] < MaxVersion[e]
    /\ view' = [view EXCEPT ![e] = @ + 1]
    /\ stream' = IF up THEN Append(stream, {e}) ELSE stream
    /\ missed' = IF hadStream THEN missed ELSE missed \cup {e}
    /\ UNCHANGED <<attrs, taskVars, up, hadStream, drops, ended, pending, applying>>

RemoteChange(e) ==
    /\ Changed(e)
    /\ UNCHANGED <<dirty, sending>>

(* A slow subscriber: the daemon drops its events and says `lost`.         *)
EventsLost ==
    /\ Len(stream) > 1
    /\ stream' = <<All>>
    /\ UNCHANGED <<viewVars, attrs, taskVars, up, hadStream, drops, ended, pending, applying>>

------------------------------------------------------------------------------
(* getattr and lookup list the parent when they have nothing cached;       *)
(* readdir and readdirplus always do.                                      *)
StatMiss(t, e) ==
    /\ task[t] = "idle"
    /\ attrs[e] = Uncached
    /\ task' = [task EXCEPT ![t] = "asked"]
    /\ UNCHANGED <<viewVars, attrs, reply, subVars, pending, applying>>

Readdir(t) ==
    /\ task[t] = "idle"
    /\ task' = [task EXCEPT ![t] = "asked"]
    /\ UNCHANGED <<viewVars, attrs, reply, subVars, pending, applying>>

\* Mutant: a failed list verb is taken for a listing without attributes.
ListReplyEmpty(t) ==
    /\ task[t] = "asked"
    /\ task' = [task EXCEPT ![t] = "replied"]
    /\ reply' = [reply EXCEPT ![t] = [e \in Entries |-> Uncached]]
    /\ UNCHANGED <<viewVars, attrs, subVars, pending, applying>>

(* The daemon answers the list verb.  Without ListRace nothing happens     *)
(* between its answer and Populate.                                        *)
ListReply(t) ==
    /\ task[t] = "asked"
    /\ task' = [task EXCEPT ![t] = "replied"]
    /\ reply' = [reply EXCEPT ![t] = view]
    /\ UNCHANGED <<viewVars, attrs, subVars, pending, applying>>

(* The verb fails: the handler returns an error, the cache is as it was.   *)
ListFails(t) ==
    /\ task[t] = "asked"
    /\ task' = [task EXCEPT ![t] = "idle"]
    /\ UNCHANGED <<viewVars, attrs, reply, subVars, pending, applying>>

(* populate_from_list: every listed entry overwrites what was cached, what *)
(* was missed with it.                                                     *)
Populate(t) ==
    /\ task[t] = "replied"
    /\ task' = [task EXCEPT ![t] = "idle"]
    /\ attrs' = reply[t]
    /\ reply' = [reply EXCEPT ![t] = NoListing]
    /\ missed' = {}
    /\ UNCHANGED <<view, dirty, sending, subVars, pending, applying>>

------------------------------------------------------------------------------
(* write, and the open handle's dirty bit with it.                         *)
LocalWrite(e) ==
    /\ e \in Written
    /\ dirty' = dirty \cup {e}
    /\ UNCHANGED <<view, sending, missed, attrs, taskVars, subVars, pending, applying>>

(* fsync takes a handle's dirty bit, release the handle itself, before the *)
(* upload.  Another handle of the entry may still be dirty.                *)
TakeDirty(s, e, by) ==
    /\ e \in dirty
    /\ \A x \in sending : x[1] # s
    /\ dirty' \in {dirty, dirty \ {e}}
    /\ sending' = sending \cup {<<s, e, by>>}
    /\ UNCHANGED <<view, missed, attrs, taskVars, subVars, pending, applying>>

(* open_write is executed: to the daemon, one more change.                 *)
Uploaded(s, e, by) ==
    /\ <<s, e, by>> \in sending
    /\ Changed(e)
    /\ sending' = sending \ {<<s, e, by>>}
    /\ dirty' = dirty

(* It is executed and its reply lost: fsync makes the handle dirty again,  *)
(* release only logs a warning.                                            *)
UploadReplyLost(s, e, by) ==
    /\ <<s, e, by>> \in sending
    /\ Changed(e)
    /\ sending' = sending \ {<<s, e, by>>}
    /\ dirty' = IF by = "fsync" THEN dirty \cup {e} ELSE dirty

\* Mutant: a failed fsync does not restore the dirty bit.
UploadFailsForgotten(s, e, by) ==
    /\ <<s, e, by>> \in sending
    /\ sending' = sending \ {<<s, e, by>>}
    /\ missed' = IF by = "release" THEN missed \cup {e} ELSE missed
    /\ UNCHANGED <<view, dirty, attrs, taskVars, subVars, pending, applying>>

(* It fails: nothing changes at the daemon and no event comes.  After a    *)
(* release no handle is left to try again, and attributes kept through an  *)
(* invalidation stay as they are.                                          *)
UploadFails(s, e, by) ==
    /\ <<s, e, by>> \in sending
    /\ sending' = sending \ {<<s, e, by>>}
    /\ dirty' = IF by = "fsync" THEN dirty \cup {e} ELSE dirty
    /\ missed' = IF by = "release" THEN missed \cup {e} ELSE missed
    /\ UNCHANGED <<view, attrs, taskVars, subVars, pending, applying>>

------------------------------------------------------------------------------
\* Mutant: no Gap is announced when the stream comes back.
SubscribeWithoutGap ==
    /\ ~up /\ ~ended
    /\ up' = TRUE
    /\ hadStream' = TRUE
    /\ UNCHANGED <<viewVars, attrs, taskVars, stream, drops, ended, pending, applying>>

(* run_subscription (re-)establishes the stream; what happened since the   *)
(* last one broke is covered by a Gap.  The first stream announces none.   *)
Subscribe ==
    /\ ~up /\ ~ended
    /\ up' = TRUE
    /\ hadStream' = TRUE
    /\ pending' = IF hadStream THEN Append(pending, All) ELSE pending
    /\ UNCHANGED <<viewVars, attrs, taskVars, stream, drops, ended, applying>>

(* The daemon refuses the token: the subscription ends for good, the mount *)
(* goes on without it.                                                     *)
SubscriptionRefused ==
    /\ ~up /\ ~ended
    /\ ended' = TRUE
    /\ UNCHANGED <<viewVars, attrs, taskVars, stream, up, hadStream, drops, pending, applying>>

StreamBreaks ==
    /\ up
    /\ drops < MaxDrops
    /\ up' = FALSE
    /\ drops' = drops + 1
    /\ stream' = << >>
    /\ UNCHANGED <<viewVars, attrs, taskVars, hadStream, ended, pending, applying>>

(* on_event: invalidation_of the line, sent to the applier.                *)
ReadEvent ==
    /\ stream # << >>
    /\ pending' = Append(pending, Head(stream))
    /\ stream' = Tail(stream)
    /\ UNCHANGED <<viewVars, attrs, taskVars, up, hadStream, drops, ended, applying>>

(* ViewCache::apply, first half: the entries with a dirty handle, under    *)
(* the open_handles lock.  One whose bytes are being sent is not among     *)
(* them.                                                                   *)
Collect ==
    /\ pending # << >> /\ ~applying.busy
    /\ applying' = [drop |-> Head(pending), keep |-> dirty, busy |-> TRUE]
    /\ pending' = Tail(pending)
    /\ UNCHANGED <<viewVars, attrs, taskVars, subVars>>

(* Second half, under the paths and attrs locks.                           *)
Drop ==
    /\ applying.busy
    /\ attrs' = [e \in Entries |-> IF e \in applying.drop \ applying.keep
                                   THEN Uncached ELSE attrs[e]]
    /\ missed' = missed \ (applying.drop \ applying.keep)
    /\ applying' = Nothing
    /\ UNCHANGED <<view, dirty, sending, taskVars, subVars, pending>>

------------------------------------------------------------------------------
(* Without ListRace an answered listing is inserted before anything else.  *)
Listing == ~ListRace /\ \E t \in Tasks : task[t] = "replied"

TaskStep(t) == Populate(t) \/ (~Listing /\ (ListReply(t) \/ ListFails(t)))
ApplierStep == ~Listing /\ (Collect \/ Drop)
SubscriberStep == ~Listing /\ (Subscribe \/ ReadEvent)
UploadStep(s, e, by) ==
    \/ TakeDirty(s, e, by) \/ Uploaded(s, e, by)
    \/ UploadReplyLost(s, e, by) \/ UploadFails(s, e, by)

Next ==
    \/ \E t \in Tasks : TaskStep(t)
    \/ ApplierStep
    \/ SubscriberStep
    \/ /\ ~Listing
       /\ \/ \E e \in Entries : RemoteChange(e) \/ LocalWrite(e)
          \/ \E s \in Senders, e \in Entries, by \in {"fsync", "release"} : UploadStep(s, e, by)
          \/ \E t \in Tasks : Readdir(t) \/ \E e \in Entries : StatMiss(t, e)
          \/ StreamBreaks \/ SubscriptionRefused \/ EventsLost

Spec == Init /\ [][Next]_vars

(* The subscriber retries for ever, the applier and the handlers are run   *)
(* by the async runtime.  The daemon and the applications owe nothing.     *)
Fairness ==
    /\ \A t \in Tasks : WF_vars(TaskStep(t))
    /\ WF_vars(ApplierStep)
    /\ WF_vars(SubscriberStep)

FairSpec == Spec /\ Fairness

------------------------------------------------------------------------------
\* Types.
TypeOK ==
    /\ view \in [Entries -> Nat]
    /\ attrs \in [Entries -> Nat \cup {Uncached}]
    /\ dirty \subseteq Entries /\ missed \subseteq Entries
    /\ sending \subseteq Senders \X Entries \X {"fsync", "release"}
    /\ task \in [Tasks -> {"idle", "asked", "replied"}]
    /\ reply \in [Tasks -> [Entries -> Nat]]
    /\ stream \in Seq(SUBSET Entries)
    /\ up \in BOOLEAN /\ hadStream \in BOOLEAN
    /\ drops \in Nat /\ ended \in BOOLEAN
    /\ pending \in Seq(SUBSET Entries)
    /\ applying \in [drop : SUBSET Entries, keep : SUBSET Entries, busy : BOOLEAN]

Stale(e) == attrs[e] # Uncached /\ attrs[e] # view[e]

(* Nothing more will reach the cache by itself.                            *)
Quiet ==
    /\ up /\ stream = << >> /\ pending = << >> /\ ~applying.busy
    /\ \A t \in Tasks : task[t] = "idle"

(* Its bytes are with the mount, not with the daemon.                      *)
Unsent(e) == e \in dirty \/ \E x \in sending : x[2] = e

(* "Keeps the cached view in step with the daemon": once every event has   *)
(* been applied, what is cached is what the daemon's listing would say,    *)
(* except of entries with bytes still to send and of those missed: changed *)
(* before the first stream, or left behind by a failed upload at release,  *)
(* and neither dropped nor listed since.  No lost event, dropped stream,   *)
(* failed fsync or order of writes, fills, uploads and invalidations       *)
(* leaves another stale entry, which getattr would trust for ever.         *)
InStep == Quiet => \A e \in Entries \ missed : Stale(e) => Unsent(e)

(* A stale entry does not stay: its attributes are dropped or refreshed,   *)
(* also when the event for it was lost with the stream, unless its bytes   *)
(* are still to be sent, their last upload failed, or the daemon has       *)
(* refused the subscription.                                               *)
StaleEnds ==
    \A e \in Entries :
        Stale(e) /\ ~Unsent(e) /\ e \notin missed
            ~> ~Stale(e) \/ Unsent(e) \/ e \in missed \/ ended
==============================================================================
