---------------------------- MODULE QuotaProofs ----------------------------
(***************************************************************************)
(* For every account, interval and number of tasks: statfs has at most one *)
(* refresh under way, and what it reports from never goes back.  That a    *)
(* late reply cannot overwrite a newer one rests on there being one task:  *)
(* what it fetched is then no older than what is known (Ordered).          *)
(***************************************************************************)
EXTENDS Quota, SequenceTheorems, TLAPS

HasQuota(n) == Account[n].used # Null /\ Account[n].total \notin {Null, 0}

(* What is known, and what a task brings, are quotas the account has had.  *)
Genuine ==
    /\ known # 0 => HasQuota(known)
    /\ \A t \in Tasks : fetched[t] # 0 => HasQuota(fetched[t])

(* Nothing known is of the future, nothing fetched is of the past.         *)
Ordered ==
    /\ known <= now
    /\ \A t \in Tasks : fetched[t] # 0 =>
          task[t] = "fetched" /\ known <= fetched[t] /\ fetched[t] <= now

IInv == TypeOK /\ SingleFlight /\ Genuine /\ Ordered

LEMMA AccountStates == Len(Account) \in Nat \ {0}
BY QuotaAssumption

(* Quota::blocks: a known quota gives a size and a rest, neither negative. *)
LEMMA BlocksNat ==
    ASSUME NEW n \in 0..Len(Account), n # 0 => HasQuota(n)
    PROVE  StatfsBlocks(n) \in [blocks : Nat, bfree : Nat]
<1>1. CASE n = 0
  BY <1>1, QuotaAssumption DEF StatfsBlocks
<1>2. CASE n # 0
  <2> DEFINE q == Account[n]
  <2>0. q \in [used : Nat \cup {Null}, total : Nat \cup {Null}]
    BY <1>2, n \in 1..Len(Account), ElementOfSeq, QuotaAssumption, AccountStates
  <2>1. q.used \in Nat /\ q.total \in Nat
    <3>1. q.used # Null /\ q.total # Null
      BY <1>2 DEF HasQuota
    <3> HIDE DEF q
    <3> QED BY <2>0, <3>1
  <2> HIDE DEF q
  <2>2. \A a \in Nat : a \div BLOCK_SIZE \in Nat
    BY QuotaAssumption
  <2>3. (IF q.used > q.total THEN 0 ELSE q.total - q.used) \in Nat
    BY <2>1
  <2>4. Blocks(q) \in [blocks : Nat, bfree : Nat]
    BY <2>1, <2>2, <2>3 DEF Blocks
  <2> QED BY <1>2, <2>4 DEF StatfsBlocks, q
<1> QED BY <1>1, <1>2

(* Quota::from_status keeps only replies with both numbers.                *)
LEMMA FromStatusGenuine ==
    ASSUME NEW n \in 1..Len(Account)
    PROVE  /\ FromStatus(n) \in {0, n}
           /\ FromStatus(n) # 0 => HasQuota(FromStatus(n))
BY DEF FromStatus, HasQuota

LEMMA InitIInv == Init => IInv
<1> SUFFICES ASSUME Init PROVE IInv
  OBVIOUS
<1>1. answer \in [blocks : Nat, bfree : Nat]
  BY BlocksNat, AccountStates DEF Init
<1>2. known \in 0..Len(Account) /\ now \in 1..Len(Account)
  BY AccountStates DEF Init
<1>3. fetched \in [Tasks -> 0..Len(Account)]
  BY AccountStates DEF Init
<1>4. TypeOK
  BY <1>1, <1>2, <1>3 DEF Init, TypeOK
<1> QED BY <1>4 DEF Init, IInv, SingleFlight, Genuine, Ordered

LEMMA StepIInv == IInv /\ [Next]_vars => IInv'
<1> SUFFICES ASSUME IInv, [Next]_vars PROVE IInv'
  OBVIOUS
<1> USE DEF IInv
<1>0. StatfsBlocks(known) \in [blocks : Nat, bfree : Nat]
  BY BlocksNat DEF TypeOK, Genuine
<1>1. ASSUME NEW t \in Tasks, StatfsRefreshes(t) PROVE IInv'
  <2>1. TypeOK'
    BY <1>0, <1>1 DEF StatfsRefreshes, TypeOK
  <2>2. SingleFlight'
    BY <1>1 DEF StatfsRefreshes, TypeOK, SingleFlight, Due
  <2>3. Genuine' /\ Ordered'
    BY <1>1 DEF StatfsRefreshes, TypeOK, Genuine, Ordered, HasQuota
  <2> QED BY <2>1, <2>2, <2>3
<1>2. ASSUME NEW t \in Tasks, Fetch(t) PROVE IInv'
  <2>1. PICK r \in {FromStatus(now), 0} : fetched' = [fetched EXCEPT ![t] = r]
    BY <1>2 DEF Fetch
  <2>2. r \in {0, now} /\ (r # 0 => HasQuota(r))
    BY <2>1, FromStatusGenuine DEF TypeOK
  <2>3. TypeOK'
    BY <1>2, <2>1, <2>2, AccountStates DEF Fetch, TypeOK
  <2>4. SingleFlight'
    BY <1>2 DEF Fetch, TypeOK, SingleFlight
  <2>5. Genuine'
    BY <1>2, <2>1, <2>2 DEF Fetch, TypeOK, Genuine, HasQuota
  <2>6. Ordered'
    BY <1>2, <2>1, <2>2 DEF Fetch, TypeOK, Ordered
  <2> QED BY <2>3, <2>4, <2>5, <2>6
<1>3. ASSUME NEW t \in Tasks, Finish(t) PROVE IInv'
  <2>1. TypeOK'
    <3>1. known' \in 0..Len(Account) /\ now' \in 1..Len(Account)
      BY <1>3 DEF Finish, TypeOK
    <3>2. fetched' \in [Tasks -> 0..Len(Account)]
      BY <1>3, AccountStates DEF Finish, TypeOK
    <3>3. task' \in [Tasks -> {"none", "waiting", "fetched"}]
      BY <1>3 DEF Finish, TypeOK
    <3> QED BY <1>3, <3>1, <3>2, <3>3 DEF Finish, TypeOK
  <2>2. SingleFlight'
    BY <1>3 DEF Finish, TypeOK, SingleFlight
  <2>3. Genuine'
    BY <1>3 DEF Finish, TypeOK, Genuine, HasQuota
  <2>4. \A u \in Tasks : u # t => fetched[u] = 0
    BY <1>3 DEF Finish, SingleFlight, Ordered
  <2>5. Ordered'
    BY <1>3, <2>4 DEF Finish, TypeOK, Ordered
  <2> QED BY <2>1, <2>2, <2>3, <2>5
<1>4. CASE Statfs
  BY <1>0, <1>4 DEF Statfs, TypeOK, SingleFlight, Genuine, Ordered, HasQuota
<1>5. CASE AccountChanges
  BY <1>5, AccountStates DEF AccountChanges, TypeOK, SingleFlight, Genuine, Ordered, HasQuota
<1>6. CASE Tick
  BY <1>6 DEF Tick, TypeOK, SingleFlight, Genuine, Ordered, HasQuota
<1>7. CASE UNCHANGED vars
  BY <1>7 DEF vars, TypeOK, SingleFlight, Genuine, Ordered, HasQuota
<1> QED BY <1>1, <1>2, <1>3, <1>4, <1>5, <1>6, <1>7 DEF Next, TaskStep

LEMMA Invariance == Spec => []IInv
BY InitIInv, StepIInv, PTL DEF Spec

(* statfs never answers a negative number of blocks, whatever the account  *)
(* reports.                                                                *)
THEOREM TypeCorrect == Spec => []TypeOK
BY Invariance, PTL DEF IInv

(* begin_refresh and finish_refresh keep at most one refresh under way.    *)
THEOREM OneRefresh == Spec => []SingleFlight
BY Invariance, PTL DEF IInv

------------------------------------------------------------------------------
(* Division by a positive number, for every block size.                    *)
LEMMA DivBounds ==
    ASSUME NEW a \in Nat, NEW b \in Nat \ {0}
    PROVE  /\ a \div b \in Nat
           /\ b * (a \div b) <= a
           /\ a < b * (a \div b + 1)
OBVIOUS

LEMMA DivMonotone ==
    ASSUME NEW a \in Nat, NEW c \in Nat, NEW b \in Nat \ {0}, a <= c
    PROVE  a \div b <= c \div b
<1> DEFINE x == a \div b
           y == c \div b
<1>1. x \in Nat /\ y \in Nat /\ b * x <= a /\ c < b * (y + 1)
  BY DivBounds
<1> HIDE DEF x, y
<1>2. ASSUME x >= y + 1 PROVE FALSE
  <2>1. b * (y + 1) <= b * x
    BY <1>1, <1>2
  <2> QED BY <1>1, <2>1
<1>3. x <= y
  BY <1>1, <1>2
<1> QED BY <1>3 DEF x, y

(* a is the volume of the n-th state of the account.                       *)
VolumeOf(a, n) ==
    LET q == Account[n]
    IN /\ q.used # Null /\ q.total \notin {Null, 0}
       /\ BLOCK_SIZE * a.blocks <= q.total
       /\ q.total < BLOCK_SIZE * (a.blocks + 1)
       /\ a.bfree <= a.blocks
       /\ q.used >= q.total => a.bfree = 0

LEMMA BlocksVolume ==
    ASSUME NEW n \in 1..Len(Account), HasQuota(n)
    PROVE  VolumeOf(StatfsBlocks(n), n)
<1> DEFINE q == Account[n]
           rest == IF q.used > q.total THEN 0 ELSE q.total - q.used
<1>1. q \in [used : Nat \cup {Null}, total : Nat \cup {Null}]
  BY ElementOfSeq, QuotaAssumption, AccountStates
<1>2. q.used # Null /\ q.total \notin {Null, 0}
  BY DEF HasQuota
<1>3. StatfsBlocks(n) = [blocks |-> q.total \div BLOCK_SIZE, bfree |-> rest \div BLOCK_SIZE]
  BY AccountStates DEF StatfsBlocks, Blocks
<1>4. SUFFICES LET a == StatfsBlocks(n)
               IN /\ BLOCK_SIZE * a.blocks <= q.total
                  /\ q.total < BLOCK_SIZE * (a.blocks + 1)
                  /\ a.bfree <= a.blocks
                  /\ q.used >= q.total => a.bfree = 0
  BY <1>2 DEF VolumeOf
<1> HIDE DEF q
<1>5. q.used \in Nat /\ q.total \in Nat /\ BLOCK_SIZE \in Nat \ {0}
  BY <1>1, <1>2, QuotaAssumption
<1>6. rest \in Nat /\ rest <= q.total /\ (q.used >= q.total => rest = 0)
  BY <1>5
<1> HIDE DEF rest
<1>7. rest \div BLOCK_SIZE <= q.total \div BLOCK_SIZE
  BY <1>5, <1>6, DivMonotone
<1>8. 0 \div BLOCK_SIZE = 0
  BY <1>5
<1>9. /\ BLOCK_SIZE * (q.total \div BLOCK_SIZE) <= q.total
      /\ q.total < BLOCK_SIZE * (q.total \div BLOCK_SIZE + 1)
  BY <1>5, DivBounds
<1> QED BY <1>3, <1>6, <1>7, <1>8, <1>9

LEMMA KnownGrows == IInv /\ [Next]_vars => known' >= known
<1> SUFFICES ASSUME IInv, [Next]_vars PROVE known' >= known
  OBVIOUS
<1>1. ASSUME NEW t \in Tasks, Finish(t) PROVE known' >= known
  BY <1>1 DEF IInv, Finish, TypeOK, Ordered
<1>2. CASE ~\E t \in Tasks : Finish(t)
  BY <1>2 DEF IInv, TypeOK, Next, TaskStep, StatfsRefreshes, Fetch, Statfs, AccountChanges,
     Tick, vars
<1> QED BY <1>1, <1>2

(* finish_refresh never replaces a known quota by none or by an older one. *)
THEOREM AccountNeverGoesBack == Spec => NeverGoesBack
<1>1. IInv /\ [Next]_vars => [known' >= known]_vars
  BY KnownGrows
<1> QED BY <1>1, Invariance, PTL DEF Spec, NeverGoesBack

(* Quota::blocks and statfs: every answer is the fallback or the volume of *)
(* a quota the account has had, for every block size and every account.    *)
THEOREM AnswersVolumes == Spec => []AnswersAreVolumes
<1> USE DEF AnswersAreVolumes
<1>0. AnswersAreVolumes <=>
          \/ answer = [blocks |-> FALLBACK_BLOCKS, bfree |-> FALLBACK_BLOCKS]
          \/ \E n \in 1..known : VolumeOf(answer, n)
  BY DEF VolumeOf
<1>1. Init => AnswersAreVolumes
  BY DEF Init, StatfsBlocks
<1>2. ASSUME IInv, AnswersAreVolumes, [Next]_vars PROVE AnswersAreVolumes'
  <2>0. SUFFICES \/ answer' = [blocks |-> FALLBACK_BLOCKS, bfree |-> FALLBACK_BLOCKS]
                 \/ \E n \in 1..known' : VolumeOf(answer', n)
    BY DEF VolumeOf
  <2>1. known \in 0..Len(Account) /\ known' \in 0..Len(Account) /\ known' >= known
    BY <1>2, StepIInv, KnownGrows DEF IInv, TypeOK
  <2>2. CASE answer' = answer
    BY <1>0, <1>2, <2>1, <2>2
  <2>3. CASE answer' = StatfsBlocks(known)
    <3>1. CASE known = 0
      BY <2>3, <3>1 DEF StatfsBlocks
    <3>2. CASE known # 0
      <4>1. VolumeOf(StatfsBlocks(known), known)
        BY <1>2, <2>1, <3>2, BlocksVolume DEF IInv, Genuine
      <4> QED BY <2>1, <2>3, <3>2, <4>1
    <3> QED BY <3>1, <3>2
  <2> QED
    BY <1>2, <2>2, <2>3 DEF Next, TaskStep, StatfsRefreshes, Fetch, Finish, Statfs,
       AccountChanges, Tick, vars
<1> QED BY <1>1, <1>2, Invariance, PTL DEF Spec
============================================================================
