--------------------------- MODULE MCRoutineCosts ---------------------------
(* A measured routine, a doped one, a skipped and a discarded one.          *)
EXTENDS RoutineCosts, TLC

MCSymmetry == Permutations(Thread)

MCFn == {"f", "doped", "resolve", "unknown"}
MCSkipped == {"resolve"}
MCDiscarded == {"unknown"}
MCDopeFn == {"doped"}
\* Only the threads of a single report have anything in common.
MCMaxThreads == [threads |-> 1, contexts |-> 1, single |-> 2]
MCMaxBlocks == [threads |-> 4, contexts |-> 5, single |-> 4]

MCSize == {0, 2}
=============================================================================
