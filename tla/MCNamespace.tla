---------------------------- MODULE MCNamespace ----------------------------
(* Two names, one of them with a second spelling, in folders of depth two: *)
(* enough for a folder with a raw-named entry below it to be renamed, with *)
(* a handler at work inside.                                               *)
EXTENDS Namespace, TLC

CONSTANTS t1, t2

MCTasks == {t1, t2}
MCNames == {"a", "b"}
MCSpellings == {"a", "a~", "b"}
MCNfc == [n \in MCSpellings |-> IF n = "a~" THEN "a" ELSE n]

Sym == Permutations(MCTasks)
==============================================================================
