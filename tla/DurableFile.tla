----------------------------- MODULE DurableFile -----------------------------
(***************************************************************************)
(* What the write path promises: each file has a current version and a     *)
(* durable one that catches up with it; a client that syncs is promised a  *)
(* version that is durable, never an older one than it was promised before.*)
(***************************************************************************)
EXTENDS Naturals

CONSTANTS Files, Clients

VARIABLES
    current, durable,   \* per file
    promised            \* per client: the version its last sync promised

Init ==
    /\ current = [f \in Files |-> 0]
    /\ durable = [f \in Files |-> 0]
    /\ promised = [c \in Clients |-> 0]

Change(f) ==
    /\ current' = [current EXCEPT ![f] = @ + 1]
    /\ UNCHANGED <<durable, promised>>

Persist(f) ==
    /\ durable' = [durable EXCEPT ![f] = current[f]]
    /\ UNCHANGED <<current, promised>>

Promise(c, f) ==
    /\ \E v \in promised[c]..durable[f] : promised' = [promised EXCEPT ![c] = v]
    /\ UNCHANGED <<current, durable>>

Next == \E f \in Files : Change(f) \/ Persist(f) \/ \E c \in Clients : Promise(c, f)

Spec == Init /\ [][Next]_<<current, durable, promised>>
==============================================================================
