---------------------------- MODULE RoutineTimes ----------------------------
(***************************************************************************)
(* What the costs in a report mean.  Time is the number of basic blocks    *)
(* started; every unit of it is spent at once by whoever is on the stack,  *)
(* and nobody looks at a clock: the routine on top gets it as self cost,   *)
(* and every routine that has an activation on the stack gets it once, as  *)
(* real cumulative cost.  Under a skipped routine time stands still.       *)
(***************************************************************************)
EXTENDS Integers, Sequences, SequencesExt, Functions

CONSTANTS Thread,
          Fn,           \* the functions of the program
          Skipped,      \* those with fn->skip (dl_runtime_resolve)
          Discarded,    \* those with fn->discard
          DopeFn,       \* the functions with the name of --dope-fn
          Size          \* the input sizes an activation may end with

Measured == Fn \ (Skipped \cup Discarded)

VARIABLES stack,    \* per thread: the routines it is in, the outermost first
          self,     \* per routine: the time it was on top of a stack
          real,     \* per routine: the time it was on a stack
          spent     \* the time of the whole program

vars == <<stack, self, real, spent>>

Init ==
  /\ stack = [t \in Thread |-> <<>>]
  /\ self = [f \in Measured |-> 0] /\ real = self
  /\ spent = 0

\* The accounts as one thread changes them.
Accounts(t) == [stack |-> stack[t], self |-> self, real |-> real, spent |-> spent]

\* n units of time pass.
Spend(a, n) ==
  IF Range(a.stack) \cap Skipped # {} THEN a
  ELSE LET top == {f \in Measured : a.stack # <<>> /\ f = Last(a.stack)}
       IN  [a EXCEPT !.spent = @ + n,
              !.self = [f \in Measured |-> @[f] + IF f \in top THEN n ELSE 0],
              !.real = [f \in Measured |->
                          @[f] + IF f \in Range(a.stack) THEN n ELSE 0]]

\* The top routine returns with this input size.  Doping makes it spend the
\* square of it first.
Leave(a, size) ==
  [Spend(a, IF Last(a.stack) \in DopeFn THEN size * size ELSE 0)
     EXCEPT !.stack = Front(@)]

\* The top n do, each with its size.
LeaveMany(a, n, sizes) ==
  LET left[k \in 0..n] == IF k = 0 THEN a ELSE Leave(left[k - 1], sizes[k])
  IN  left[n]

Cost(a) == self' = a.self /\ real' = a.real /\ spent' = a.spent

\* Thread t's stack without its n top routines.
Left(t, n) == SubSeq(stack[t], 1, Len(stack[t]) - n)

\* A block starts: some routines are left, or one is called after at most one.
Block(t) ==
  LET now == Spend(Accounts(t), 1)
  IN  \E n \in 0..Len(stack[t]) :
        /\ \/ stack' = [stack EXCEPT ![t] = Left(t, n)]
           \/ n <= 1 /\ \E f \in Fn : stack' = [stack EXCEPT ![t] = Append(Left(t, n), f)]
        /\ \E sizes \in [1..n -> Size] : Cost(LeaveMany(now, n, sizes))

\* The thread ends inside its routines.
End(t) ==
  /\ stack' = [stack EXCEPT ![t] = <<>>]
  /\ LET n == Len(stack[t])
     IN  \E sizes \in [1..n -> Size] : Cost(LeaveMany(Accounts(t), n, sizes))

Next == \E t \in Thread : Block(t) \/ End(t)

Spec == Init /\ [][Next]_vars
=============================================================================
