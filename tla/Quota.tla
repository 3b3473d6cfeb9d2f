-------------------------------- MODULE Quota --------------------------------
(***************************************************************************)
(* quota.rs and its use in fuse_fs.rs: statfs answers at once from a cache *)
(* and starts a background refresh of it when one is due.  Several statfs  *)
(* handlers and refresh tasks run concurrently; the state of the cache is  *)
(* under a mutex that is never held across an await.                       *)
(*                                                                         *)
(* The clock counts seconds.  A reply's numbers are bytes, or Null when    *)
(* they are absent, null or negative.  External: the daemon and its        *)
(* account.  The n-th state of the account is Account[n].                  *)
(***************************************************************************)
EXTENDS Integers, Sequences

CONSTANTS
    Tasks,        \* names for refresh tasks
    Account,      \* the states the account goes through: a sequence of replies
    Interval,     \* the refresh interval
    BLOCK_SIZE, FALLBACK_BLOCKS,
    Null,         \* no such number in the reply
    Never,        \* no attempt yet
    MaxClock      \* bound: the clock

ASSUME QuotaAssumption ==
    /\ Null \notin Nat /\ Never \notin Nat
    /\ Account \in Seq([used : Nat \cup {Null}, total : Nat \cup {Null}])
    /\ Len(Account) > 0
    /\ Interval \in Nat /\ MaxClock \in Nat
    /\ BLOCK_SIZE \in Nat \ {0} /\ FALLBACK_BLOCKS \in Nat \ {0}

VARIABLES
    known,          \* State.quota: the number of the account state, 0 for None
    last_attempt,   \* State.last_attempt
    in_flight,      \* State.in_flight
    task,           \* per task: "none", "waiting" for the daemon, or "fetched"
    fetched,        \* per task: what it got, 0 for None
    now,            \* the account's state
    answer,         \* what the last statfs answered
    clock

vars == <<known, last_attempt, in_flight, task, fetched, now, answer, clock>>

(* Quota::from_status: unknown numbers, or a total of zero, are no quota.  *)
FromStatus(n) ==
    LET q == Account[n]
    IN IF q.used # Null /\ q.total # Null /\ q.total # 0 THEN n ELSE 0

\* Mutant: an account over its quota has a negative rest.
BlocksSigned(q) ==
    [blocks |-> q.total \div BLOCK_SIZE, bfree |-> (q.total - q.used) \div BLOCK_SIZE]

\* Mutant: the subtraction wraps around.
BlocksWraps(q) ==
    [blocks |-> q.total \div BLOCK_SIZE,
     bfree |-> ((q.total - q.used) % 2^16) \div BLOCK_SIZE]

(* Quota::blocks, with a subtraction that saturates.                       *)
Blocks(q) ==
    [blocks |-> q.total \div BLOCK_SIZE,
     bfree |-> (IF q.used > q.total THEN 0 ELSE q.total - q.used) \div BLOCK_SIZE]

StatfsBlocks(n) ==
    IF n = 0 THEN [blocks |-> FALLBACK_BLOCKS, bfree |-> FALLBACK_BLOCKS]
             ELSE Blocks(Account[n])

Init ==
    /\ known = 0
    /\ last_attempt = Never
    /\ in_flight = FALSE
    /\ task = [t \in Tasks |-> "none"]
    /\ fetched = [t \in Tasks |-> 0]
    /\ now = 1
    /\ answer = StatfsBlocks(0)
    /\ clock = 0

\* Mutant: a refresh is due by its time alone.
DueByTime == last_attempt # Never => clock - last_attempt >= Interval

(* begin_refresh.                                                          *)
Due ==
    /\ ~in_flight
    /\ last_attempt # Never => clock - last_attempt >= Interval

(* statfs: refresh_quota_if_due spawns a task, and the answer is what is   *)
(* known.                                                                  *)
StatfsRefreshes(t) ==
    /\ Due
    /\ task[t] = "none"
    /\ in_flight' = TRUE
    /\ last_attempt' = clock
    /\ task' = [task EXCEPT ![t] = "waiting"]
    /\ answer' = StatfsBlocks(known)
    /\ UNCHANGED <<known, fetched, now, clock>>

Statfs ==
    /\ ~Due
    /\ answer' = StatfsBlocks(known)
    /\ UNCHANGED <<known, last_attempt, in_flight, task, fetched, now, clock>>

(* daemon_status answers, or fails once its retries are used up.           *)
Fetch(t) ==
    /\ task[t] = "waiting"
    /\ task' = [task EXCEPT ![t] = "fetched"]
    /\ \E r \in {FromStatus(now), 0} : fetched' = [fetched EXCEPT ![t] = r]
    /\ UNCHANGED <<known, last_attempt, in_flight, now, answer, clock>>

\* Mutant: an unknown quota replaces the known one.
FinishOverwrites(t) ==
    /\ task[t] = "fetched"
    /\ task' = [task EXCEPT ![t] = "none"]
    /\ in_flight' = FALSE
    /\ known' = fetched[t]
    /\ fetched' = [fetched EXCEPT ![t] = 0]
    /\ UNCHANGED <<last_attempt, now, answer, clock>>

\* Mutant: a failed refresh leaves the claim in place.
FinishKeepsClaim(t) ==
    /\ task[t] = "fetched"
    /\ task' = [task EXCEPT ![t] = "none"]
    /\ in_flight' = (fetched[t] = 0)
    /\ known' = IF fetched[t] # 0 THEN fetched[t] ELSE known
    /\ fetched' = [fetched EXCEPT ![t] = 0]
    /\ UNCHANGED <<last_attempt, now, answer, clock>>

(* finish_refresh.                                                         *)
Finish(t) ==
    /\ task[t] = "fetched"
    /\ task' = [task EXCEPT ![t] = "none"]
    /\ in_flight' = FALSE
    /\ known' = IF fetched[t] # 0 THEN fetched[t] ELSE known
    /\ fetched' = [fetched EXCEPT ![t] = 0]
    /\ UNCHANGED <<last_attempt, now, answer, clock>>

AccountChanges ==
    /\ now < Len(Account)
    /\ now' = now + 1
    /\ UNCHANGED <<known, last_attempt, in_flight, task, fetched, answer, clock>>

Tick ==
    /\ clock < MaxClock
    /\ clock' = clock + 1
    /\ UNCHANGED <<known, last_attempt, in_flight, task, fetched, now, answer>>

TaskStep(t) == Fetch(t) \/ Finish(t)

Next ==
    \/ \E t \in Tasks : StatfsRefreshes(t) \/ TaskStep(t)
    \/ Statfs \/ AccountChanges \/ Tick

Spec == Init /\ [][Next]_vars

(* A spawned task is run on, and daemon_status returns (CallsReturn of     *)
(* Reconnect).  Nobody need call statfs.                                   *)
FairSpec == Spec /\ \A t \in Tasks : WF_vars(TaskStep(t))

------------------------------------------------------------------------------
\* Types.
TypeOK ==
    /\ known \in 0..Len(Account)
    /\ last_attempt \in Nat \cup {Never}
    /\ in_flight \in BOOLEAN
    /\ task \in [Tasks -> {"none", "waiting", "fetched"}]
    /\ fetched \in [Tasks -> 0..Len(Account)]
    /\ now \in 1..Len(Account)
    /\ answer \in [blocks : Nat, bfree : Nat]
    /\ clock \in Nat

(* "Claim a refresh when none is running": however statfs calls and slow   *)
(* refreshes overlap, at most one task is under way, and the claim is held *)
(* exactly while it is.                                                    *)
SingleFlight ==
    /\ \A t, u \in Tasks : task[t] # "none" /\ task[u] # "none" => t = u
    /\ in_flight <=> \E t \in Tasks : task[t] # "none"

(* A failed or quota-less reply keeps the last known value, and a late     *)
(* reply never replaces a newer one: the account statfs reports from never *)
(* goes back.                                                              *)
NeverGoesBack == [][known' >= known]_vars

(* What statfs answered is a volume: the fallback, or a quota the account  *)
(* has had, rounded down to blocks, never with more free than there is,    *)
(* and full when the account has reached or exceeded its quota.            *)
AnswersAreVolumes ==
    \/ answer = [blocks |-> FALLBACK_BLOCKS, bfree |-> FALLBACK_BLOCKS]
    \/ \E n \in 1..known :
          LET q == Account[n]
          IN /\ q.used # Null /\ q.total \notin {Null, 0}
             /\ BLOCK_SIZE * answer.blocks <= q.total
             /\ q.total < BLOCK_SIZE * (answer.blocks + 1)
             /\ answer.bfree <= answer.blocks
             /\ q.used >= q.total => answer.bfree = 0

(* A refresh does not stay claimed: the next statfs after the interval can *)
(* start another, also after one that failed.                              *)
RefreshEnds == in_flight ~> ~in_flight
==============================================================================
