------------------------------- MODULE MCDrms -------------------------------
(* Instances of DrmsRefinement: one or two threads and cells, close to the *)
(* overflow of the global counter.                                         *)
EXTENDS DrmsRefinement, TLC
CONSTANTS t1, t2, c1, c2, main, resolve, MaxPending, MaxSize, FirstCount
MCThread   == {t1, t2}
OneCell    == {c1}
TwoCells   == {c1, c2}
Together   == {{c1, c2}}
Alone      == {{c1}}
OnlyMain   == {main}
MCRoutine  == {main, resolve}
NoneSkipped    == {}
ResolveSkipped == {resolve}
OneThread == {t1}
ThreadSymmetry == Permutations(MCThread)

\* The runs start when switches between two idle threads have moved the counter to
\* FirstCount, which is within a few increments of its overflow.
MCInit ==
  /\ counter = FirstCount
  /\ global = Untouched /\ gchunks = {}
  /\ current \in Thread
  /\ alive = Thread
  /\ depth = [t \in Thread |-> 0]
  /\ stack = [t \in Thread |-> EmptyStack]
  /\ skip = [t \in Thread |-> 0]
  /\ local = [t \in Thread |-> Untouched] /\ chunks = [t \in Thread |-> {}]
  /\ filed = <<>>
  /\ corrupt = FALSE
  /\ frames = [t \in Thread |-> <<>>]

MCSpec == MCInit /\ [][HNext]_hvars

\* Sizes grow with every value read anew, and a renumbering with few activations puts
\* the counter far from its next overflow: such states are checked, not explored.
Window ==
  /\ counter >= FirstCount
  /\ Cardinality(Pending) <= MaxPending
  /\ \A t \in Thread : \A d \in Live(t) : frames[t][d].size <= MaxSize
  /\ \A t, u \in Thread : t = u \/ \A d \in Live(t), e \in Live(u) :
       frames[t][d].size + frames[u][e].size < MaxSize

\* The code compares timestamps and never computes with them, so states whose times
\* are in the same order behave alike.  Of a slot above its stack only the id matters,
\* to the skipped routine that may take it, and nothing reads what the last exit filed.
Shows(t, d) == d <= depth[t] \/ Skipped # {}
AllTimes == {0, counter} \cup {global[c] : c \in Cell}
              \cup {local[t][c] : t \in Thread, c \in Cell}
              \cup {stack[p[1]][p[2]].aid : p \in {q \in Thread \X Slot : Shows(q[1], q[2])}}

TimesByRank ==
  LET times == AllTimes
      Rank(time) == Cardinality({x \in times : x < time})
      Shown(t, d) == IF d <= depth[t] THEN stack[t][d] ELSE EmptySlot
  IN  <<counter, gchunks, current, alive, depth, skip, chunks, corrupt, frames,
        [c \in Cell |-> Rank(global[c])],
        [t \in Thread |-> [c \in Cell |-> Rank(local[t][c])]],
        [t \in Thread |-> [d \in Slot |-> [Shown(t, d) EXCEPT
                                           !.aid = IF Shows(t, d) THEN Rank(stack[t][d].aid) ELSE 0]]]>>
=============================================================================
