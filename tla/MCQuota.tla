------------------------------- MODULE MCQuota -------------------------------
(* An account without a quota, within it, at its limit, over it, with a    *)
(* total of zero, and within it again; two names for tasks, so that a      *)
(* second one could run.                                                   *)
EXTENDS Quota

CONSTANTS t1, t2

MCTasks == {t1, t2}

MCAccount ==
    <<[used |-> Null, total |-> Null], [used |-> 3, total |-> 9],
      [used |-> 9, total |-> 9], [used |-> 12, total |-> 9],
      [used |-> 0, total |-> 0], [used |-> 1, total |-> 20]>>
==============================================================================
