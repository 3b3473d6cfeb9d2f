----------------------------- MODULE MCViewCache -----------------------------
(* Two entries tell "the changed entry" from "everything"; one handler in  *)
(* flight is enough for a fill to race an invalidation, one upload for it  *)
(* to fail between two writes; two changes of one entry let it change       *)
(* after it was listed and again after that.                               *)
EXTENDS ViewCache

CONSTANTS e1, e2, t1, s1

MCEntries == {e1, e2}
MCTasks == {t1}
MCWritten == {e1}
MCSenders == {s1}
MCVersions == [e \in MCEntries |-> IF e = e1 THEN 2 ELSE 1]
==============================================================================
