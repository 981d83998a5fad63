---------------------------- MODULE MCCallStack ----------------------------
(***************************************************************************)
(* A function of two blocks, a linkage stub and dl_runtime_resolve.        *)
(***************************************************************************)
EXTENDS TrackedProgram, TLC

CONSTANTS m0, m1, p0, r0, MaxLost, MaxShared

MCBlock == {m0, m1, p0, r0}
MCFirstBlock == {m0, p0, r0}

MCCode ==
  (m0 :> [fn |-> "main", home |-> "exe", entry |-> TRUE, resolver |-> FALSE,
          exit |-> "BBCALL", after |-> m1]) @@
  (m1 :> [fn |-> "main", home |-> "exe", entry |-> FALSE, resolver |-> FALSE,
          exit |-> "BBRET", after |-> p0]) @@
  (p0 :> [fn |-> "PLT", home |-> "plt", entry |-> FALSE, resolver |-> FALSE,
          exit |-> "BBOTHER", after |-> NoBlock]) @@
  (r0 :> [fn |-> "resolve", home |-> "ld", entry |-> TRUE, resolver |-> TRUE,
          exit |-> "BBRET", after |-> NoBlock])

\* A lost thread has at most MaxLost activations, two threads that exist at the same time
\* have at most MaxShared together, and a lost thread runs alone.
Bounded ==
  \A t \in alive :
    /\ lost[t] => Len(stack[t]) <= MaxLost
    /\ \A u \in alive \ {t} : Len(stack[t]) + Len(stack[u]) <= MaxShared /\ ~ lost[t]

Symmetry == Permutations(Thread)
=============================================================================
