------------------------- MODULE RoutineCostsProofs -------------------------
(***************************************************************************)
(* For any routines, sizes and bounds and any interleaving of the threads, *)
(* the counters of a thread agree with its stack, activations are filed    *)
(* under the chain of their callers, a report defines the contexts that it *)
(* names, and the costs of all stacks, input maps and reports add up to    *)
(* the times of RoutineTimes.                                              *)
(***************************************************************************)
EXTENDS RoutineCosts, NaturalLemmas, SequenceTheorems

-----------------------------------------------------------------------------
(* The invariant.                                                          *)

\* What follows is about the routines of a stack, fs, and not about the thread it
\* belongs to: an exit happens to a ThreadData that is in no state of a behaviour.
Activation == [fn : Fn, start : Nat, children : Nat]
Routines(stack) == [i \in 1..Len(stack) |-> stack[i].fn]
SkippedIn(fs) == {i \in 1..Len(fs) : fs[i] \in Skipped}
TimedIn(fs) == {i \in 1..Len(fs) : \A j \in 1..i : fs[j] \notin Skipped}
TimedOf(fs, f) == {i \in TimedIn(fs) : fs[i] = f}

\* An activation and its children fit between its start and that of the one above.
ClockOK(td) ==
  /\ td.skipCost <= td.cost
  /\ \A i \in 1..Len(td.stack) :
       td.stack[i].start + td.stack[i].children
         <= IF i < Len(td.stack) THEN td.stack[i + 1].start ELSE Now(td)

CountsOK(td, fs) ==
  /\ td.skip = Cardinality(SkippedIn(fs))
  /\ \A f \in Fn : td.pending[f] = Cardinality(TimedOf(fs, f))

\* The node in a slot is in the tree, whoever has left it there, or hangs from one that
\* nobody has made; and it is not too deep.
Known(c, tree) == c \in Range(tree) \/ IsStray(c)

SlotsOK(node, tree) ==
  \A d \in 1..MaxDepth : node[d] # NoNode => Known(node[d], tree) /\ Len(node[d]) \in 1..d

TreeOK(tree) ==
  \A c \in Range(tree) : ~ IsStray(c) /\ Front(c) \in Range(tree) \cup {NoContext}

\* Above its callers, a measured routine has the node that ends with it.
NodesOK(node, fs) ==
  \A i \in TimedIn(fs) :
    /\ fs[i] \notin Discarded => node[i] # NoNode /\ Last(node[i]) = fs[i]
    /\ (\A j \in 1..i : fs[j] \notin Discarded) => node[i] = [j \in 1..i |-> fs[j]]

ContextsOK(td, fs) ==
  SlotsOK(td.node, td.tree) /\ TreeOK(td.tree) /\ NodesOK(td.node, fs)

ThreadOK(m, td) ==
  /\ td \in ThreadData /\ Len(td.stack) <= MaxDepth
  /\ ClockOK(td)
  /\ CountsOK(td, Routines(td.stack))
  /\ m = "contexts" => ContextsOK(td, Routines(td.stack))

\* A tuple that will be printed in the report with this tree.
FiledIn(key, tree) == Known(key.context, tree) /\ Last(key.context) = key.fn

TuplesOK(m, ts, ths) ==
  /\ IsMap(ts, Key, Tuple)
  /\ \A key \in DOMAIN ts : MergeAssertions(ts[key])
  /\ m = "contexts" => \A key \in DOMAIN ts : /\ key.owner \in DOMAIN ths
                                              /\ FiledIn(key, ths[key.owner].tree)

ReportOK(m, report) ==
  /\ report \in Report
  /\ \A p \in report.tuples : MergeAssertions(p[2])
  /\ m = "contexts" => /\ \A p \in report.tuples : FiledIn(p[1], report.tree)
                       /\ TreeOK(report.tree)

IInv ==
  /\ mode \in {"threads", "contexts", "single"} /\ blocks \in 0..MaxBlocks[mode]
  /\ DOMAIN threads \subseteq Thread /\ \A t \in DOMAIN threads : ThreadOK(mode, threads[t])
  /\ TuplesOK(mode, tuples, threads)
  /\ extra \in [cost : 0..(ULongSpan - 1), skipped : Nat]
  /\ printed \in Seq(Report) /\ \A i \in 1..Len(printed) : ReportOK(mode, printed[i])

-----------------------------------------------------------------------------
(* Counting the routines of a stack.                                       *)

\* A stack is a sequence of routines.
LEMMA RoutinesType ==
  ASSUME NEW td \in ThreadData
  PROVE  /\ Routines(td.stack) \in Seq(Fn)
         /\ Len(Routines(td.stack)) = Len(td.stack)
         /\ \A i \in 1..Len(td.stack) : Routines(td.stack)[i] = td.stack[i].fn
<1>1. td.stack \in Seq(Activation)
  BY DEF ThreadData, Activation
<1>2. \A i \in 1..Len(td.stack) : td.stack[i].fn \in Fn
  <2>1. \A i \in 1..Len(td.stack) : td.stack[i] \in Activation
    BY <1>1
  <2> QED
    BY <2>1 DEF Activation
<1> DEFINE fs == [i \in 1..Len(td.stack) |-> td.stack[i].fn]
<1>3. Len(td.stack) \in Nat
  BY <1>1
<1>4. fs \in [1..Len(td.stack) -> Fn]
  BY <1>2
<1>5. fs \in Seq(Fn) /\ Len(fs) = Len(td.stack)
  BY <1>3, <1>4
<1> QED
  BY <1>5 DEF Routines

\* What one more routine adds.
LEMMA AppendedRoutine ==
  ASSUME NEW fs \in Seq(Fn), NEW f \in Fn
  PROVE  /\ SkippedIn(Append(fs, f))
              = SkippedIn(fs) \cup IF f \in Skipped THEN {Len(fs) + 1} ELSE {}
         /\ TimedIn(Append(fs, f))
              = TimedIn(fs) \cup IF SkippedIn(fs) = {} /\ f \notin Skipped
                                 THEN {Len(fs) + 1} ELSE {}
<1> DEFINE gs == Append(fs, f)
<1>1. /\ Len(gs) = Len(fs) + 1 /\ Len(fs) \in Nat
      /\ \A i \in 1..Len(fs) : gs[i] = fs[i]
      /\ gs[Len(fs) + 1] = f
  OBVIOUS
<1>2. 1..Len(gs) = (1..Len(fs)) \cup {Len(fs) + 1}
  BY <1>1
<1> HIDE DEF gs
<1>3. SkippedIn(gs) = SkippedIn(fs) \cup IF f \in Skipped THEN {Len(fs) + 1} ELSE {}
  BY <1>1, <1>2 DEF SkippedIn
<1>4. ASSUME NEW i \in 1..Len(fs) PROVE i \in TimedIn(gs) <=> i \in TimedIn(fs)
  <2>1. \A j \in 1..i : j \in 1..Len(fs)
    BY <1>1
  <2> QED
    BY <1>1, <1>2, <2>1 DEF TimedIn
<1>5. Len(fs) + 1 \in TimedIn(gs) <=> SkippedIn(fs) = {} /\ f \notin Skipped
  BY <1>1, <1>2 DEF TimedIn, SkippedIn
<1>6. TimedIn(gs) \subseteq 1..Len(gs) /\ TimedIn(fs) \subseteq 1..Len(fs)
  BY DEF TimedIn
<1>7. TimedIn(gs) = TimedIn(fs) \cup IF SkippedIn(fs) = {} /\ f \notin Skipped
                                     THEN {Len(fs) + 1} ELSE {}
  BY <1>2, <1>4, <1>5, <1>6
<1> QED
  BY <1>3, <1>7 DEF gs

\* These sets are finite, and a stack without skipped routines is timed throughout.
LEMMA RoutineSets ==
  ASSUME NEW fs \in Seq(Fn)
  PROVE  /\ IsFiniteSet(SkippedIn(fs)) /\ Cardinality(SkippedIn(fs)) \in Nat
         /\ \A f : IsFiniteSet(TimedOf(fs, f)) /\ Cardinality(TimedOf(fs, f)) \in Nat
         /\ Cardinality(SkippedIn(fs)) = 0 => /\ SkippedIn(fs) = {}
                                              /\ TimedIn(fs) = 1..Len(fs)
<1>1. IsFiniteSet(1..Len(fs))
  BY FS_Interval
<1>2. SkippedIn(fs) \subseteq 1..Len(fs) /\ \A f : TimedOf(fs, f) \subseteq 1..Len(fs)
  BY DEF SkippedIn, TimedOf, TimedIn
<1>3. /\ IsFiniteSet(SkippedIn(fs)) /\ Cardinality(SkippedIn(fs)) \in Nat
      /\ \A f : IsFiniteSet(TimedOf(fs, f)) /\ Cardinality(TimedOf(fs, f)) \in Nat
  BY <1>1, <1>2, FS_Subset, FS_CardinalityType
<1>4. Cardinality(SkippedIn(fs)) = 0 => SkippedIn(fs) = {}
  BY <1>3, FS_EmptySet
<1>5. SkippedIn(fs) = {} => TimedIn(fs) = 1..Len(fs)
  BY DEF SkippedIn, TimedIn
<1> QED
  BY <1>3, <1>4, <1>5

\* What one more routine adds to the counters of function_enter and function_exit.
LEMMA AppendedCounts ==
  ASSUME NEW fs \in Seq(Fn), NEW f \in Fn
  PROVE  /\ Cardinality(SkippedIn(Append(fs, f)))
              = Cardinality(SkippedIn(fs)) + IF f \in Skipped THEN 1 ELSE 0
         /\ \A g : Cardinality(TimedOf(Append(fs, f), g))
                     = Cardinality(TimedOf(fs, g))
                         + IF SkippedIn(fs) = {} /\ f \notin Skipped /\ f = g THEN 1 ELSE 0
<1> DEFINE new == Len(fs) + 1
<1>1. new \notin SkippedIn(fs) /\ \A g : new \notin TimedOf(fs, g)
  BY DEF SkippedIn, TimedOf, TimedIn
<1>2. /\ Cardinality(SkippedIn(fs)) \in Nat /\ \A g : Cardinality(TimedOf(fs, g)) \in Nat
      /\ Cardinality(SkippedIn(fs) \cup {new}) = Cardinality(SkippedIn(fs)) + 1
      /\ \A g : Cardinality(TimedOf(fs, g) \cup {new}) = Cardinality(TimedOf(fs, g)) + 1
  BY <1>1, RoutineSets, FS_AddElement
<1>3. /\ SkippedIn(Append(fs, f)) = SkippedIn(fs) \cup IF f \in Skipped THEN {new} ELSE {}
      /\ TimedIn(Append(fs, f))
           = TimedIn(fs) \cup IF SkippedIn(fs) = {} /\ f \notin Skipped THEN {new} ELSE {}
  BY AppendedRoutine
<1>4. /\ Append(fs, f)[new] = f /\ TimedIn(fs) \subseteq 1..Len(fs)
      /\ \A i \in 1..Len(fs) : Append(fs, f)[i] = fs[i]
  BY DEF TimedIn
<1>5. ASSUME NEW g
      PROVE  TimedOf(Append(fs, f), g)
               = IF SkippedIn(fs) = {} /\ f \notin Skipped /\ f = g
                 THEN TimedOf(fs, g) \cup {new} ELSE TimedOf(fs, g)
  <2> HIDE DEF new
  <2>1. \A i \in TimedIn(fs) : Append(fs, f)[i] = fs[i]
    BY <1>4
  <2> QED
    BY <1>3, <1>4, <2>1 DEF TimedOf
<1> HIDE DEF new
<1>6. Cardinality(SkippedIn(Append(fs, f)))
        = Cardinality(SkippedIn(fs)) + IF f \in Skipped THEN 1 ELSE 0
  <2>1. CASE f \in Skipped
    BY <1>2, <1>3, <2>1
  <2>2. CASE f \notin Skipped
    <3>1. SkippedIn(Append(fs, f)) = SkippedIn(fs)
      BY <1>3, <2>2
    <3> QED
      BY <1>2, <2>2, <3>1
  <2> QED
    BY <2>1, <2>2
<1>7. ASSUME NEW g
      PROVE  Cardinality(TimedOf(Append(fs, f), g))
               = Cardinality(TimedOf(fs, g))
                   + IF SkippedIn(fs) = {} /\ f \notin Skipped /\ f = g THEN 1 ELSE 0
  BY <1>2, <1>5
<1> QED
  BY <1>6, <1>7

-----------------------------------------------------------------------------
(* Threads.                                                                *)

LEMMA ThreadFields ==
  ASSUME NEW td \in ThreadData
  PROVE  /\ td.cost \in Nat /\ td.skip \in Nat /\ td.skipCost \in Nat
         /\ td.stack \in Seq(Activation) /\ Len(td.stack) \in Nat
         /\ \A i \in 1..Len(td.stack) : /\ td.stack[i] \in Activation
                                        /\ td.stack[i].fn \in Fn
                                        /\ td.stack[i].start \in Nat
                                        /\ td.stack[i].children \in Nat
         /\ td.node \in [1..MaxDepth -> Context \cup {NoNode}]
         /\ td.pending \in [Fn -> Nat]
         /\ td.tree \in Seq(Context)
<1>1. /\ td.cost \in Nat /\ td.skip \in Nat /\ td.skipCost \in Nat
      /\ td.stack \in Seq(Activation)
      /\ td.node \in [1..MaxDepth -> Context \cup {NoNode}]
      /\ td.pending \in [Fn -> Nat]
      /\ td.tree \in Seq(Context)
  BY DEF ThreadData, Activation
<1>2. Len(td.stack) \in Nat /\ \A i \in 1..Len(td.stack) : td.stack[i] \in Activation
  BY <1>1
<1>3. \A a \in Activation : a.fn \in Fn /\ a.start \in Nat /\ a.children \in Nat
  BY DEF Activation
<1> QED
  BY <1>1, <1>2, <1>3

ThreadFieldNames == {"cost", "skip", "skipCost", "stack", "node", "pending", "tree"}

\* A ThreadData from its fields.
LEMMA ThreadFrom ==
  ASSUME NEW u, DOMAIN u = ThreadFieldNames, u = [x \in ThreadFieldNames |-> u[x]],
         u.cost \in Nat, u.skip \in Nat, u.skipCost \in Nat, u.stack \in Seq(Activation),
         u.node \in [1..MaxDepth -> Context \cup {NoNode}], u.pending \in [Fn -> Nat],
         u.tree \in Seq(Context)
  PROVE  u \in ThreadData
<1>1. u = [cost |-> u.cost, skip |-> u.skip, skipCost |-> u.skipCost, stack |-> u.stack,
           node |-> u.node, pending |-> u.pending, tree |-> u.tree]
  BY DEF ThreadFieldNames
<1> QED
  BY <1>1 DEF ThreadData, Activation

\* The clock of a thread only runs forward: ticks and doping.
LEMMA CostGrows ==
  ASSUME NEW m, NEW td, ThreadOK(m, td), NEW n \in Nat
  PROVE  LET u == [td EXCEPT !.cost = @ + n]
         IN  /\ ThreadOK(m, u)
             /\ u.cost = td.cost + n /\ u.skip = td.skip /\ u.skipCost = td.skipCost
             /\ u.stack = td.stack /\ u.node = td.node /\ u.pending = td.pending
             /\ u.tree = td.tree
<1> DEFINE u == [td EXCEPT !.cost = @ + n]
<1>1. td \in ThreadData
  BY DEF ThreadOK
<1>2. /\ u.cost = td.cost + n /\ u.skip = td.skip /\ u.skipCost = td.skipCost
      /\ u.stack = td.stack /\ u.node = td.node /\ u.pending = td.pending
      /\ u.tree = td.tree
  BY <1>1 DEF ThreadData
<1>3. u \in ThreadData
  <2> DEFINE v == td.cost + n
  <2>1. v \in Nat
    BY <1>1, ThreadFields
  <2>2. u = [td EXCEPT !.cost = v]
    OBVIOUS
  <2> HIDE DEF u, v
  <2> QED
    BY <1>1, <2>1, <2>2 DEF ThreadData
<1> HIDE DEF u
<1>4. Now(u) = Now(td) + n /\ Now(td) \in Int
  BY <1>1, <1>2, ThreadFields DEF Now
<1>5. ClockOK(u)
  <2>1. ClockOK(td)
    BY DEF ThreadOK
  <2>2. u.skipCost <= u.cost
    BY <1>1, <1>2, <2>1, ThreadFields DEF ClockOK
  <2>3. ASSUME NEW i \in 1..Len(u.stack)
        PROVE  u.stack[i].start + u.stack[i].children
                 <= IF i < Len(u.stack) THEN u.stack[i + 1].start ELSE Now(u)
    <3>1. /\ u.stack[i].start \in Nat /\ u.stack[i].children \in Nat
          /\ Len(u.stack) \in Nat
      BY <1>3, ThreadFields
    <3>2. u.stack[i].start + u.stack[i].children
            <= IF i < Len(u.stack) THEN u.stack[i + 1].start ELSE Now(td)
      BY <1>2, <2>1 DEF ClockOK
    <3> QED
      BY <1>4, <3>1, <3>2
  <2> QED
    BY <2>2, <2>3 DEF ClockOK
<1>6. ThreadOK(m, u)
  BY <1>2, <1>3, <1>5 DEF ThreadOK, CountsOK, ContextsOK
<1> QED
  BY <1>2, <1>6 DEF u

\* A stack is one whose top has been left, with its top.
LEMMA RoutinesAppended ==
  ASSUME NEW st \in Seq(Activation), NEW rest \in Seq(Activation),
         Len(st) = Len(rest) + 1, \A i \in 1..Len(rest) : rest[i].fn = st[i].fn
  PROVE  Routines(st) = Append(Routines(rest), st[Len(st)].fn)
<1> DEFINE n == Len(rest)
           f == st[Len(st)].fn
           short == [i \in 1..n |-> rest[i].fn]
           long == [i \in 1..(n + 1) |-> st[i].fn]
<1>1. n \in Nat
  OBVIOUS
<1>2. short = Routines(rest) /\ long = Routines(st)
  BY DEF Routines
<1>3. short \in Seq(Fn) /\ Len(short) = n
  <2>1. \A i \in 1..n : rest[i] \in Activation
    OBVIOUS
  <2>2. short \in [1..n -> Fn]
    BY <2>1 DEF Activation
  <2> QED
    BY <1>1, <2>2
<1>4. \A i \in 1..(n + 1) : Append(short, f)[i] = long[i]
  <2>1. \A i \in 1..n : short[i] = st[i].fn
    OBVIOUS
  <2>2. /\ \A i \in 1..n : Append(short, f)[i] = short[i]
        /\ Append(short, f)[n + 1] = f
    <3> HIDE DEF short, f, n
    <3> QED
      BY <1>1, <1>3
  <2>3. \A i \in 1..(n + 1) : long[i] = st[i].fn
    OBVIOUS
  <2>4. \A i \in 1..(n + 1) : i \in 1..n \/ i = n + 1
    OBVIOUS
  <2> HIDE DEF short, long
  <2> QED
    BY <2>1, <2>2, <2>3, <2>4
<1>5. Append(short, f) = long
  <2>1. short \in Seq(Fn \cup {f}) /\ f \in Fn \cup {f}
    BY <1>3
  <2>2. Append(short, f) \in Seq(Fn \cup {f}) /\ Len(Append(short, f)) = n + 1
    <3> HIDE DEF short, f, n
    <3> QED
      BY <1>3, <2>1
  <2>3. long \in Seq(Fn \cup {f}) /\ Len(long) = n + 1
    <3>1. \A i \in 1..(n + 1) : st[i] \in Activation
      OBVIOUS
    <3>2. long \in [1..(n + 1) -> Fn \cup {f}]
      BY <3>1 DEF Activation
    <3> QED
      BY <1>1, <3>2
  <2> HIDE DEF short, long, f, n
  <2> QED
    BY <1>4, <2>2, <2>3, SeqEqual
<1> QED
  BY <1>2, <1>5

-----------------------------------------------------------------------------
(* function_exit.                                                          *)

\* What is known of the nodes of a stack is known of the activations below its top.
LEMMA NodesBelow ==
  ASSUME NEW node, NEW fs \in Seq(Fn), NEW f \in Fn, NodesOK(node, Append(fs, f))
  PROVE  NodesOK(node, fs)
<1> DEFINE gs == Append(fs, f)
<1>1. TimedIn(fs) \subseteq TimedIn(gs)
  BY AppendedRoutine
<1>2. /\ TimedIn(fs) \subseteq 1..Len(fs) /\ Len(fs) \in Nat
      /\ \A i \in 1..Len(fs) : gs[i] = fs[i]
  BY DEF TimedIn
<1>3. NodesOK(node, gs)
  OBVIOUS
<1> HIDE DEF gs
<1>4. ASSUME NEW i \in TimedIn(fs)
      PROVE  /\ fs[i] \notin Discarded => node[i] # NoNode /\ Last(node[i]) = fs[i]
             /\ (\A j \in 1..i : fs[j] \notin Discarded)
                  => node[i] = [j \in 1..i |-> fs[j]]
  <2>1. gs[i] = fs[i] /\ \A j \in 1..i : gs[j] = fs[j]
    BY <1>2
  <2>2. [j \in 1..i |-> gs[j]] = [j \in 1..i |-> fs[j]]
    BY <2>1
  <2>3. /\ gs[i] \notin Discarded => node[i] # NoNode /\ Last(node[i]) = gs[i]
        /\ (\A j \in 1..i : gs[j] \notin Discarded)
             => node[i] = [j \in 1..i |-> gs[j]]
    BY <1>1, <1>3 DEF NodesOK
  <2> QED
    BY <2>1, <2>2, <2>3
<1> QED
  BY <1>4 DEF NodesOK

\* A thread whose top activation has been left, with its counters and its clock.
LEMMA Popped ==
  ASSUME NEW m, NEW td, ThreadOK(m, td), td.stack # <<>>,
         NEW u \in ThreadData,
         Len(u.stack) = Len(td.stack) - 1,
         \A i \in 1..Len(u.stack) : u.stack[i].fn = td.stack[i].fn,
         u.node = td.node, u.tree = td.tree, ClockOK(u),
         NEW f, f = td.stack[Len(td.stack)].fn,
         u.skip = td.skip - IF f \in Skipped THEN 1 ELSE 0,
         \A g \in Fn : u.pending[g] = td.pending[g] - IF td.skip = 0 /\ f = g THEN 1 ELSE 0
  PROVE  ThreadOK(m, u)
<1> DEFINE fs == Routines(u.stack)
<1>1. /\ td \in ThreadData /\ Len(td.stack) <= MaxDepth
      /\ CountsOK(td, Routines(td.stack))
      /\ m = "contexts" => ContextsOK(td, Routines(td.stack))
  BY DEF ThreadOK
<1>2. fs \in Seq(Fn)
  BY RoutinesType
<1>3. Len(td.stack) \in Nat /\ Len(td.stack) > 0 /\ f \in Fn
  BY <1>1, ThreadFields
<1>4. Routines(td.stack) = Append(fs, f)
  <2>1. td.stack \in Seq(Activation) /\ u.stack \in Seq(Activation)
    BY <1>1, ThreadFields
  <2>2. Len(td.stack) = Len(u.stack) + 1
    BY <1>3
  <2> QED
    BY <2>1, <2>2, RoutinesAppended
<1> HIDE DEF fs
<1>5. /\ Cardinality(SkippedIn(fs)) \in Nat
      /\ \A g : Cardinality(TimedOf(fs, g)) \in Nat
      /\ Cardinality(SkippedIn(fs)) = 0 => SkippedIn(fs) = {}
  BY <1>2, RoutineSets
<1>6. td.skip = Cardinality(SkippedIn(fs)) + IF f \in Skipped THEN 1 ELSE 0
  BY <1>1, <1>2, <1>3, <1>4, AppendedCounts DEF CountsOK
<1>7. SkippedIn(fs) = {} => Cardinality(SkippedIn(fs)) = 0
  BY FS_EmptySet
<1>8. td.skip = 0 <=> SkippedIn(fs) = {} /\ f \notin Skipped
  BY <1>5, <1>6, <1>7
<1>9. u.skip = Cardinality(SkippedIn(fs))
  BY <1>5, <1>6
<1>10. ASSUME NEW g \in Fn PROVE u.pending[g] = Cardinality(TimedOf(fs, g))
  <2>1. td.pending[g] = Cardinality(TimedOf(fs, g))
          + IF SkippedIn(fs) = {} /\ f \notin Skipped /\ f = g THEN 1 ELSE 0
    BY <1>1, <1>2, <1>3, <1>4, AppendedCounts DEF CountsOK
  <2>2. u.pending[g] = td.pending[g] - IF td.skip = 0 /\ f = g THEN 1 ELSE 0
    OBVIOUS
  <2>3. Cardinality(TimedOf(fs, g)) \in Nat
    BY <1>5
  <2> DEFINE n == Cardinality(TimedOf(fs, g))
             top == IF td.skip = 0 /\ f = g THEN 1 ELSE 0
  <2>4. td.pending[g] = n + top
    BY <1>8, <2>1
  <2>5. u.pending[g] = td.pending[g] - top /\ top \in Nat
    BY <2>2
  <2> HIDE DEF n, top
  <2>6. n \in Nat
    BY <2>3 DEF n
  <2>7. u.pending[g] = n
    BY <2>4, <2>5, <2>6
  <2> QED
    BY <2>7 DEF n
<1>11. CountsOK(u, fs)
  BY <1>9, <1>10 DEF CountsOK
<1>12. m = "contexts" => ContextsOK(u, fs)
  <2>1. ContextsOK(td, Append(fs, f)) => ContextsOK(u, fs)
    BY <1>2, <1>3, NodesBelow DEF ContextsOK
  <2> QED
    BY <1>1, <1>4, <2>1
<1>13. Len(u.stack) <= MaxDepth
  BY <1>1, <1>3, BoundsAssumption
<1> QED
  BY <1>11, <1>12, <1>13 DEF ThreadOK, fs

\* The sequence below the top.
LEMMA FrontOf ==
  ASSUME NEW S, NEW s \in Seq(S), s # <<>>
  PROVE  /\ Front(s) \in Seq(S) /\ Len(Front(s)) = Len(s) - 1 /\ Len(s) \in Nat \ {0}
         /\ \A i \in 1..(Len(s) - 1) : Front(s)[i] = s[i]
         /\ Last(s) = s[Len(s)] /\ Last(s) \in S
<1>1. Len(s) \in Nat \ {0} /\ s[Len(s)] \in S
  OBVIOUS
<1>2. Front(s) = SubSeq(s, 1, Len(s) - 1) /\ Last(s) = s[Len(s)]
  BY DEF Front, Last
<1> DEFINE n == Len(s) - 1
           front == SubSeq(s, 1, n)
<1>3. n \in Nat /\ \A i \in 1..n : s[i] \in S
  BY <1>1
<1>4. /\ front \in Seq(S) /\ Len(front) = IF 1 <= n THEN n - 1 + 1 ELSE 0
      /\ \A i \in 1..(n - 1 + 1) : front[i] = s[1 + i - 1]
  BY <1>3, SubSeqProperties
<1> HIDE DEF front
<1>5. Len(front) = n
  <2>1. n \in Nat
    BY <1>3
  <2>2. Len(front) = IF 1 <= n THEN n - 1 + 1 ELSE 0
    BY <1>4
  <2> HIDE DEF n
  <2> QED
    BY <2>1, <2>2
<1>6. \A i \in 1..n : front[i] = s[i]
  <2>1. \A i \in 1..n : i \in 1..(n - 1 + 1) /\ 1 + i - 1 = i
    BY <1>3
  <2> HIDE DEF n
  <2> QED
    BY <1>4, <2>1
<1>7. Front(s) = front
  BY <1>2 DEF front
<1> QED
  BY <1>1, <1>2, <1>4, <1>5, <1>6, <1>7

\* The activation on top of a thread's stack, and the clock as it finds it.
LEMMA TopOf ==
  ASSUME NEW m, NEW td, ThreadOK(m, td), td.stack # <<>>
  PROVE  LET top == Last(td.stack)
             rest == Front(td.stack)
         IN  /\ td \in ThreadData
             /\ top = td.stack[Len(td.stack)] /\ top \in Activation
             /\ top.fn \in Fn /\ top.start \in Nat /\ top.children \in Nat
             /\ rest \in Seq(Activation) /\ Len(rest) = Len(td.stack) - 1
             /\ Len(td.stack) \in 1..MaxDepth
             /\ \A i \in 1..Len(rest) : rest[i] = td.stack[i]
             /\ Now(td) \in Nat /\ top.start + top.children <= Now(td)
             /\ \A i \in 1..Len(rest) :
                  rest[i].start + rest[i].children
                    <= IF i < Len(rest) THEN rest[i + 1].start ELSE top.start
<1> DEFINE top == Last(td.stack)
           rest == Front(td.stack)
           n == Len(td.stack)
<1>1. td \in ThreadData /\ n <= MaxDepth /\ ClockOK(td)
  BY DEF ThreadOK
<1>2. td.stack \in Seq(Activation) /\ td.cost \in Nat /\ td.skipCost \in Nat
  BY <1>1, ThreadFields
<1>3. /\ rest \in Seq(Activation) /\ Len(rest) = n - 1 /\ n \in Nat \ {0}
      /\ \A i \in 1..(n - 1) : rest[i] = td.stack[i]
      /\ top = td.stack[n] /\ top \in Activation
  BY <1>2, FrontOf
<1>4. top.fn \in Fn /\ top.start \in Nat /\ top.children \in Nat
  BY <1>3 DEF Activation
<1>5. n \in 1..MaxDepth
  BY <1>1, <1>3, BoundsAssumption
<1>6. \A i \in 1..n :
        td.stack[i].start + td.stack[i].children
          <= IF i < n THEN td.stack[i + 1].start ELSE Now(td)
  BY <1>1 DEF ClockOK
<1>7. top.start + top.children <= Now(td)
  BY <1>3, <1>5, <1>6
<1>8. Now(td) \in Nat
  <2>1. Now(td) \in Int
    BY <1>2 DEF Now
  <2> HIDE DEF top
  <2> QED
    BY <1>4, <1>7, <2>1
<1>9. ASSUME NEW i \in 1..Len(rest)
      PROVE  rest[i].start + rest[i].children
               <= IF i < Len(rest) THEN rest[i + 1].start ELSE top.start
  <2>1. i \in 1..n /\ i < n /\ i \in 1..(n - 1)
    BY <1>3
  <2>2. rest[i].start + rest[i].children <= td.stack[i + 1].start
    BY <1>3, <1>6, <2>1
  <2>3. CASE i < Len(rest)
    <3>1. i + 1 \in 1..(n - 1)
      BY <1>3, <2>1, <2>3
    <3>2. rest[i + 1] = td.stack[i + 1]
      BY <1>3, <3>1
    <3> QED
      BY <2>2, <2>3, <3>2
  <2>4. CASE ~ (i < Len(rest))
    <3>1. i + 1 = n
      BY <1>3, <2>1, <2>4
    <3>2. td.stack[i + 1] = top
      BY <1>3, <3>1
    <3> QED
      BY <2>2, <2>4, <3>2
  <2> QED
    BY <2>3, <2>4
<1> QED
  BY <1>1, <1>3, <1>4, <1>5, <1>7, <1>8, <1>9

\* An exit while a skipped routine is on the stack: the clock is set back to its start.
LEMMA ExitUnderSkipped ==
  ASSUME NEW m, NEW td, ThreadOK(m, td), td.stack # <<>>, td.skip > 0
  PROVE  LET act == Last(td.stack)
             cumul == Now(td) - act.start
             u == Pop(IF act.fn \in Skipped
                      THEN [td EXCEPT !.skip = @ - 1, !.skipCost = @ + cumul] ELSE td)
         IN  /\ ThreadOK(m, u) /\ u.tree = td.tree /\ u.cost = td.cost
             /\ u.stack = Front(td.stack) /\ Len(u.stack) = Len(td.stack) - 1
             /\ Now(u) = IF act.fn \in Skipped THEN act.start ELSE Now(td)
<1> DEFINE act == Last(td.stack)
           rest == Front(td.stack)
           cumul == Now(td) - act.start
           skip == IF act.fn \in Skipped THEN td.skip - 1 ELSE td.skip
           skipCost == IF act.fn \in Skipped THEN td.skipCost + cumul ELSE td.skipCost
           v == IF act.fn \in Skipped
                THEN [td EXCEPT !.skip = @ - 1, !.skipCost = @ + cumul] ELSE td
           u == Pop(v)
<1>1. /\ td \in ThreadData
      /\ act = td.stack[Len(td.stack)]
      /\ act.fn \in Fn /\ act.start \in Nat /\ act.children \in Nat
      /\ rest \in Seq(Activation) /\ Len(rest) = Len(td.stack) - 1
      /\ Len(td.stack) \in 1..MaxDepth
      /\ \A i \in 1..Len(rest) : rest[i] = td.stack[i]
      /\ Now(td) \in Nat /\ act.start + act.children <= Now(td)
      /\ \A i \in 1..Len(rest) :
           rest[i].start + rest[i].children
             <= IF i < Len(rest) THEN rest[i + 1].start ELSE act.start
  BY TopOf
<1>2. td.skip \in Nat /\ td.skipCost \in Nat /\ td.cost \in Nat
  BY <1>1, ThreadFields
<1>3. td.skipCost <= td.cost
  BY DEF ThreadOK, ClockOK
<1>4. cumul \in Nat
  <2> HIDE DEF act
  <2> QED
    BY <1>1
<1>5. skip \in Nat /\ skipCost \in Nat
  BY <1>2, <1>4
<1>6. v \in ThreadData /\ v.skip = skip /\ v.skipCost = skipCost /\ v.cost = td.cost
      /\ v.stack = td.stack /\ v.node = td.node /\ v.pending = td.pending /\ v.tree = td.tree
  <2>1. CASE act.fn \in Skipped
    <3>1. v = [td EXCEPT !.skip = skip, !.skipCost = skipCost]
      BY <2>1
    <3> HIDE DEF v, skip, skipCost
    <3> QED
      BY <1>1, <1>5, <3>1 DEF ThreadData
  <2>2. CASE act.fn \notin Skipped
    BY <1>1, <2>2
  <2> QED
    BY <2>1, <2>2
<1> HIDE DEF v
<1>7. u \in ThreadData /\ u.skip = skip /\ u.skipCost = skipCost /\ u.cost = td.cost
      /\ u.stack = rest /\ u.node = td.node /\ u.pending = td.pending /\ u.tree = td.tree
  <2>1. u = [v EXCEPT !.stack = rest]
    BY <1>6 DEF Pop
  <2> HIDE DEF u, rest, skip, skipCost
  <2> QED
    BY <1>1, <1>6, <2>1 DEF ThreadData, Activation
<1> HIDE DEF u
<1>8. /\ u.skipCost <= u.cost /\ act.start <= Now(u)
      /\ Now(u) = IF act.fn \in Skipped THEN act.start ELSE Now(td)
  <2>1. CASE act.fn \in Skipped
    <3>1. u.skipCost = td.skipCost + cumul /\ Now(u) = td.cost - (td.skipCost + cumul)
      BY <1>7, <2>1 DEF Now
    <3>2. cumul = td.cost - td.skipCost - act.start
      BY DEF Now
    <3> DEFINE start == act.start
    <3>3. start \in Nat /\ cumul = td.cost - td.skipCost - start
      BY <1>1, <3>2
    <3> HIDE DEF cumul, start
    <3>4. td.skipCost + cumul = td.cost - start
      BY <1>2, <1>4, <3>3
    <3>5. u.skipCost <= td.cost /\ Now(u) = start
      BY <1>2, <3>1, <3>3, <3>4
    <3>6. u.skipCost <= td.cost /\ start <= Now(u) /\ Now(u) = start
      BY <3>3, <3>5
    <3> QED
      BY <1>7, <2>1, <3>6 DEF start
  <2>2. CASE act.fn \notin Skipped
    <3>1. Now(u) = Now(td)
      BY <1>7, <2>2 DEF Now
    <3>2. act.start <= Now(td)
      BY <1>4, <1>1
    <3> QED
      BY <1>3, <1>7, <2>2, <3>1, <3>2
  <2> QED
    BY <2>1, <2>2
<1>9. ClockOK(u)
  <2>1. ASSUME NEW i \in 1..Len(rest)
        PROVE  rest[i].start + rest[i].children
                 <= IF i < Len(rest) THEN rest[i + 1].start ELSE Now(u)
    <3>1. rest[i].start + rest[i].children
            <= IF i < Len(rest) THEN rest[i + 1].start ELSE act.start
      BY <1>1
    <3>2. rest[i].start \in Nat /\ rest[i].children \in Nat
      BY <1>7, ThreadFields
    <3>3. Now(u) \in Int
      BY <1>7, ThreadFields DEF Now
    <3>4. Len(rest) \in Nat
      BY <1>1
    <3> DEFINE start == act.start
               n == Len(rest)
    <3>5. start \in Nat /\ start <= Now(u) /\ n \in Nat
          /\ rest[i].start + rest[i].children <= IF i < n THEN rest[i + 1].start ELSE start
      BY <1>1, <1>8, <3>1, <3>4
    <3> HIDE DEF rest, act, start
    <3>6. CASE i < n
      BY <3>5, <3>6
    <3>7. CASE ~ (i < n)
      <4> DEFINE sum == rest[i].start + rest[i].children
      <4>1. sum \in Nat /\ sum <= start
        BY <3>2, <3>5, <3>7
      <4> HIDE DEF sum
      <4>2. sum <= Now(u)
        BY <3>3, <3>5, <4>1
      <4> QED
        BY <3>7, <4>2 DEF sum
    <3> QED
      BY <3>6, <3>7
  <2> QED
    BY <1>7, <1>8, <2>1 DEF ClockOK
<1>10. u.skip = td.skip - IF act.fn \in Skipped THEN 1 ELSE 0
  BY <1>2, <1>7
<1>11. \A g \in Fn : u.pending[g]
                       = td.pending[g] - IF td.skip = 0 /\ act.fn = g THEN 1 ELSE 0
  <2>1. \A g \in Fn : td.pending[g] \in Nat
    BY <1>1, ThreadFields
  <2>2. td.skip # 0
    BY <1>2
  <2> QED
    BY <1>7, <2>1, <2>2
<1>12. /\ Len(u.stack) = Len(td.stack) - 1
       /\ \A i \in 1..Len(u.stack) : u.stack[i].fn = td.stack[i].fn
       /\ act.fn = td.stack[Len(td.stack)].fn
  BY <1>1, <1>7
<1>13. ThreadOK(m, u)
  <2> DEFINE f == act.fn
  <2>1. /\ f = td.stack[Len(td.stack)].fn
        /\ u.skip = td.skip - IF f \in Skipped THEN 1 ELSE 0
        /\ \A g \in Fn : u.pending[g]
                            = td.pending[g] - IF td.skip = 0 /\ f = g THEN 1 ELSE 0
    BY <1>10, <1>11, <1>12
  <2>2. u \in ThreadData /\ u.node = td.node /\ u.tree = td.tree
    BY <1>7
  <2> HIDE DEF act, rest, skip, skipCost, cumul, f
  <2> QED
    BY <1>9, <1>12, <2>1, <2>2, Popped
<1> QED
  BY <1>7, <1>8, <1>12, <1>13 DEF u, v

\* An exit that is timed: the caller learns what the call has cost.
LEMMA ExitTimed ==
  ASSUME NEW m, NEW td, ThreadOK(m, td), td.stack # <<>>, td.skip = 0
  PROVE  LET act == Last(td.stack)
             cumul == Now(td) - act.start
             left == ExitOf(td, act.fn)
             u == PopIntoParent(left, cumul)
         IN  /\ ThreadOK(m, u) /\ u.tree = td.tree
             /\ u.cost = td.cost /\ Now(u) = Now(td)
             /\ Len(u.stack) = Len(td.stack) - 1
             /\ \A i \in 1..Len(u.stack) :
                  /\ u.stack[i].fn = td.stack[i].fn /\ u.stack[i].start = td.stack[i].start
                  /\ u.stack[i].children = td.stack[i].children
                                             + IF i = Len(u.stack) THEN cumul ELSE 0
             /\ left.stack = td.stack /\ left.pending[act.fn] \in Nat
             /\ left.pending[act.fn] = Cardinality(TimedOf(Routines(u.stack), act.fn))
<1> DEFINE act == Last(td.stack)
           rest == Front(td.stack)
           cumul == Now(td) - act.start
           left == ExitOf(td, act.fn)
           pending == [td.pending EXCEPT ![act.fn] = @ - 1]
           stack == IF rest = <<>> THEN rest
                    ELSE [rest EXCEPT ![Len(rest)].children = @ + cumul]
           u == PopIntoParent(left, cumul)
<1>1. /\ td \in ThreadData
      /\ act = td.stack[Len(td.stack)]
      /\ act.fn \in Fn /\ act.start \in Nat /\ act.children \in Nat
      /\ rest \in Seq(Activation) /\ Len(rest) = Len(td.stack) - 1
      /\ Len(td.stack) \in 1..MaxDepth
      /\ \A i \in 1..Len(rest) : rest[i] = td.stack[i]
      /\ Now(td) \in Nat /\ act.start + act.children <= Now(td)
      /\ \A i \in 1..Len(rest) :
           rest[i].start + rest[i].children
             <= IF i < Len(rest) THEN rest[i + 1].start ELSE act.start
  BY TopOf
<1>2. td.skip \in Nat /\ td.skipCost \in Nat /\ td.cost \in Nat /\ td.pending \in [Fn -> Nat]
  BY <1>1, ThreadFields
<1>3. td.skipCost <= td.cost
  BY DEF ThreadOK, ClockOK
<1>4. cumul \in Nat /\ act.start + cumul = Now(td)
  <2> DEFINE start == act.start
             children == act.children
             now == Now(td)
  <2>1. start \in Nat /\ children \in Nat /\ now \in Nat /\ start + children <= now
        /\ cumul = now - start
    BY <1>1
  <2> HIDE DEF act, cumul, start, children, now
  <2>2. cumul \in Nat /\ start + cumul = now
    BY <2>1
  <2> QED
    BY <2>2 DEF start, now
<1>5. td.pending[act.fn] > 0 /\ act.fn \notin Skipped
  <2> DEFINE fs == Routines(td.stack)
             n == Len(td.stack)
             f == act.fn
  <2>1. fs \in Seq(Fn) /\ Len(fs) = n /\ n \in 1..n /\ fs[n] = f /\ f \in Fn
    BY <1>1, RoutinesType
  <2>2. td.skip = Cardinality(SkippedIn(fs)) /\ td.pending[f] = Cardinality(TimedOf(fs, f))
    BY <1>1 DEF ThreadOK, CountsOK
  <2> HIDE DEF fs, n, f
  <2>3. SkippedIn(fs) = {} /\ TimedIn(fs) = 1..Len(fs)
    BY <2>1, <2>2, RoutineSets
  <2>4. n \in TimedOf(fs, f)
    BY <2>1, <2>3 DEF TimedOf
  <2>5. IsFiniteSet(TimedOf(fs, f)) /\ Cardinality(TimedOf(fs, f)) \in Nat
    BY <2>1, RoutineSets
  <2>6. Cardinality(TimedOf(fs, f)) # 0
    BY <2>4, <2>5, FS_EmptySet
  <2>7. f \notin Skipped
    BY <2>1, <2>3 DEF SkippedIn
  <2>8. td.pending[f] > 0
    BY <2>2, <2>5, <2>6
  <2> QED
    BY <2>7, <2>8 DEF f
<1>6. /\ pending \in [Fn -> Nat]
      /\ \A g \in Fn : pending[g] = td.pending[g] - IF act.fn = g THEN 1 ELSE 0
  <2> DEFINE f == act.fn
  <2>1. td.pending[f] - 1 \in Nat /\ f \in Fn
    BY <1>1, <1>2, <1>5
  <2> HIDE DEF act, f
  <2> QED
    BY <1>2, <2>1 DEF f
<1> HIDE DEF pending
<1>7. /\ DOMAIN left = ThreadFieldNames
      /\ left = [x \in ThreadFieldNames |-> left[x]]
      /\ left.cost = td.cost /\ left.skip = td.skip /\ left.skipCost = td.skipCost
      /\ left.stack = td.stack /\ left.node = td.node /\ left.pending = pending
      /\ left.tree = td.tree
  <2>1. left = [td EXCEPT !.pending = pending]
    BY DEF ExitOf, pending
  <2> HIDE DEF left
  <2> QED
    BY <1>1, <2>1 DEF ThreadData, ThreadFieldNames
<1> HIDE DEF left
<1>8. /\ stack \in Seq(Activation) /\ Len(stack) = Len(rest)
      /\ \A i \in 1..Len(rest) :
           /\ stack[i].fn = rest[i].fn /\ stack[i].start = rest[i].start
           /\ stack[i].children = rest[i].children + IF i = Len(rest) THEN cumul ELSE 0
  <2> DEFINE n == Len(rest)
  <2>1. \A i \in 1..n : rest[i] \in Activation
    BY <1>1
  <2>2. \A a \in Activation : /\ a.children \in Nat
                              /\ [a EXCEPT !.children = @ + cumul] \in Activation
                              /\ [a EXCEPT !.children = @ + cumul].fn = a.fn
                              /\ [a EXCEPT !.children = @ + cumul].start = a.start
                              /\ [a EXCEPT !.children = @ + cumul].children
                                   = a.children + cumul
    <3> HIDE DEF cumul
    <3> QED
      BY <1>4 DEF Activation
  <2>3. CASE rest = <<>>
    BY <1>1, <2>3
  <2>4. CASE rest # <<>>
    <3>1. n \in 1..n
      <4> HIDE DEF rest
      <4> QED
        BY <1>1, <2>4
    <3> DEFINE b == [rest[n] EXCEPT !.children = @ + cumul]
    <3>2. stack = [rest EXCEPT ![n] = b]
      BY <2>4
    <3>3. b \in Activation /\ b.fn = rest[n].fn /\ b.start = rest[n].start
          /\ b.children = rest[n].children + cumul
      BY <2>1, <2>2, <3>1
    <3> HIDE DEF b, stack, rest
    <3>4. stack \in Seq(Activation) /\ Len(stack) = n
      BY <1>1, <3>1, <3>2, <3>3
    <3>5. stack[n] = b /\ \A i \in 1..n : i # n => stack[i] = rest[i]
      BY <1>1, <3>1, <3>2
    <3>6. \A i \in 1..n : rest[i].children \in Nat
      BY <2>1, <2>2
    <3> HIDE DEF n, cumul
    <3>7. ASSUME NEW i \in 1..n
          PROVE  /\ stack[i].fn = rest[i].fn /\ stack[i].start = rest[i].start
                 /\ stack[i].children = rest[i].children + IF i = n THEN cumul ELSE 0
      <4>1. CASE i = n
        BY <3>3, <3>5, <4>1
      <4>2. CASE i # n
        BY <3>5, <3>6, <4>2
      <4> QED
        BY <4>1, <4>2
    <3> QED
      BY <3>4, <3>7 DEF n
  <2> QED
    BY <2>3, <2>4
<1>9. /\ DOMAIN u = ThreadFieldNames
      /\ u = [x \in ThreadFieldNames |-> u[x]]
      /\ u.cost = td.cost /\ u.skip = td.skip /\ u.skipCost = td.skipCost
      /\ u.stack = stack /\ u.node = td.node /\ u.pending = pending /\ u.tree = td.tree
  <2>1. u = [left EXCEPT !.stack = stack]
    BY <1>7 DEF PopIntoParent
  <2> HIDE DEF u, stack
  <2> QED
    BY <1>7, <2>1 DEF ThreadFieldNames
<1> HIDE DEF u, stack
<1>10. u \in ThreadData
  BY <1>1, <1>2, <1>6, <1>8, <1>9, ThreadFields, ThreadFrom
<1>11. Now(u) = Now(td)
  BY <1>9 DEF Now
<1>12. ClockOK(u)
  <2> DEFINE n == Len(rest)
  <2>1. ASSUME NEW i \in 1..n
        PROVE  stack[i].start + stack[i].children
                 <= IF i < n THEN stack[i + 1].start ELSE Now(td)
    <3>1. rest[i].start + rest[i].children
            <= IF i < n THEN rest[i + 1].start ELSE act.start
      BY <1>1
    <3>2. rest[i].start \in Nat /\ rest[i].children \in Nat /\ n \in Nat
      <4>1. n \in Nat /\ rest[i] \in Activation
        BY <1>1
      <4> HIDE DEF rest, n
      <4> QED
        BY <4>1 DEF Activation
    <3>3. /\ stack[i].start = rest[i].start
          /\ stack[i].children = rest[i].children + IF i = n THEN cumul ELSE 0
      BY <1>8
    <3>4. CASE i < n
      <4>1. i + 1 \in 1..n /\ i # n
        BY <3>2, <3>4
      <4>2. stack[i + 1].start = rest[i + 1].start
        BY <1>8, <4>1
      <4>3. stack[i].children = rest[i].children
        BY <3>2, <3>3, <4>1
      <4> HIDE DEF rest, n, act
      <4> QED
        BY <3>1, <3>3, <3>4, <4>2, <4>3
    <3>5. CASE ~ (i < n)
      <4>1. i = n
        BY <3>2, <3>5
      <4> DEFINE start == act.start
      <4>2. start \in Nat /\ start + cumul = Now(td) /\ cumul \in Nat
            /\ rest[i].start + rest[i].children <= start
        BY <1>1, <1>4, <3>1, <3>5
      <4> HIDE DEF rest, n, act, cumul, start
      <4> QED
        BY <3>2, <3>3, <3>5, <4>1, <4>2
    <3> QED
      BY <3>4, <3>5
  <2> QED
    BY <1>3, <1>8, <1>9, <1>11, <2>1 DEF ClockOK
<1>13. /\ Len(u.stack) = Len(td.stack) - 1
       /\ \A i \in 1..Len(u.stack) : u.stack[i].fn = td.stack[i].fn
  BY <1>1, <1>8, <1>9
<1>14. ThreadOK(m, u)
  <2> DEFINE f == act.fn
  <2>1. f = td.stack[Len(td.stack)].fn /\ f \notin Skipped
    BY <1>1, <1>5
  <2>2. u.skip = td.skip - IF f \in Skipped THEN 1 ELSE 0
    BY <1>2, <1>9, <2>1
  <2>3. \A g \in Fn : u.pending[g]
                        = td.pending[g] - IF td.skip = 0 /\ f = g THEN 1 ELSE 0
    BY <1>6, <1>9
  <2>4. u.node = td.node /\ u.tree = td.tree
    BY <1>9
  <2> HIDE DEF act, rest, cumul, f
  <2> QED
    BY <1>10, <1>12, <1>13, <2>1, <2>2, <2>3, <2>4, Popped
<1>15. left.pending[act.fn] \in Nat
  BY <1>1, <1>6, <1>7
<1>16. left.pending[act.fn] = Cardinality(TimedOf(Routines(u.stack), act.fn))
  <2>1. CountsOK(u, Routines(u.stack)) /\ act.fn \in Fn
    BY <1>1, <1>14 DEF ThreadOK
  <2> QED
    BY <1>7, <1>9, <2>1 DEF CountsOK
<1>17. \A i \in 1..Len(u.stack) :
         /\ u.stack[i].fn = td.stack[i].fn /\ u.stack[i].start = td.stack[i].start
         /\ u.stack[i].children = td.stack[i].children
                                    + IF i = Len(u.stack) THEN cumul ELSE 0
  <2>1. /\ u.stack = stack /\ Len(stack) = Len(rest)
        /\ \A i \in 1..Len(rest) : rest[i] = td.stack[i]
    BY <1>1, <1>8, <1>9
  <2> HIDE DEF cumul, rest
  <2>2. \A i \in 1..Len(rest) :
          /\ stack[i].fn = td.stack[i].fn /\ stack[i].start = td.stack[i].start
          /\ stack[i].children = td.stack[i].children + IF i = Len(rest) THEN cumul ELSE 0
    BY <1>8, <2>1
  <2> QED
    BY <2>1, <2>2
<1> QED
  BY <1>7, <1>9, <1>11, <1>13, <1>14, <1>15, <1>16, <1>17 DEF u, left

-----------------------------------------------------------------------------
(* Tuples.                                                                 *)

LEMMA MinMaxOfTwo ==
  ASSUME NEW a \in Nat, NEW b \in Nat
  PROVE  /\ Min({a, b}) \in Nat /\ Min({a, b}) <= a /\ Min({a, b}) <= b
         /\ Min({a, b}) \in {a, b}
         /\ Max({a, b}) \in Nat /\ Max({a, b}) >= a /\ Max({a, b}) >= b
         /\ Max({a, b}) \in {a, b}
<1>1. \E x \in {a, b} : \A y \in {a, b} : x <= y
  OBVIOUS
<1>2. \E x \in {a, b} : \A y \in {a, b} : x >= y
  OBVIOUS
<1>3. Min({a, b}) \in {a, b} /\ \A y \in {a, b} : Min({a, b}) <= y
  BY <1>1, Zenon DEF Min
<1>4. Max({a, b}) \in {a, b} /\ \A y \in {a, b} : Max({a, b}) >= y
  BY <1>2, Zenon DEF Max
<1> QED
  BY <1>3, <1>4

\* A smaller factor does not make a product larger.
LEMMA ProductGrows ==
  ASSUME NEW a \in Nat, NEW b \in Nat, a <= b, NEW n \in Nat
  PROVE  a * n \in Nat /\ b * n \in Nat /\ a * n <= b * n /\ a * (n + 1) = a * n + a
<1> DEFINE S == {k \in Nat : /\ a * k \in Nat /\ b * k \in Nat /\ a * k <= b * k
                             /\ a * (k + 1) = a * k + a}
<1>1. 0 \in S
  OBVIOUS
<1>2. ASSUME NEW k \in S PROVE k + 1 \in S
  <2>1. /\ a * (k + 1) = a * k + a /\ b * (k + 1) = b * k + b
        /\ a * (k + 1 + 1) = a * (k + 1) + a
    OBVIOUS
  <2>2. a * k \in Nat /\ b * k \in Nat /\ a * k <= b * k
    OBVIOUS
  <2>3. a * (k + 1) \in Nat /\ b * (k + 1) \in Nat /\ a * (k + 1) <= b * (k + 1)
    BY <2>1, <2>2
  <2> QED
    BY <2>1, <2>3
<1> HIDE DEF S
<1>3. n \in S
  <2>1. S \in SUBSET Nat
    BY DEF S
  <2> QED
    BY <1>1, <1>2, <2>1, SetInduction
<1> QED
  BY <1>3 DEF S

TupleFields == {"calls", "sumCumul", "minCumul", "maxCumul", "sumSelf", "minSelf", "maxSelf",
                "real"}

\* What is true of a tuple before its first call, too.
Summable(v) ==
  /\ v.maxCumul <= v.sumCumul /\ v.minCumul * v.calls <= v.sumCumul
  /\ v.real <= v.sumCumul
  /\ v.minSelf <= v.minCumul /\ v.maxSelf <= v.maxCumul /\ v.sumSelf <= v.sumCumul
  /\ v.maxSelf <= v.sumSelf /\ v.minSelf * v.calls <= v.sumSelf

LEMMA NewTupleOK == NewTuple \in Tuple /\ Summable(NewTuple)
<1>1. ULongSpan - 1 \in Nat /\ (ULongSpan - 1) * 0 = 0
  BY BoundsAssumption
<1> QED
  BY <1>1 DEF NewTuple, Tuple, Summable

\* One more call keeps the sums, the least and the greatest costs consistent.
LEMMA AddedOK ==
  ASSUME NEW v \in Tuple, Summable(v), NEW cumul \in Nat, NEW self \in Nat, self <= cumul,
         NEW outermost \in BOOLEAN
  PROVE  LET u == Added(v, cumul, self, outermost)
         IN  u \in Tuple /\ MergeAssertions(u)
<1> DEFINE u == Added(v, cumul, self, outermost)
           mc == Min({v.minCumul, cumul})
           xc == Max({v.maxCumul, cumul})
           ms == Min({v.minSelf, self})
           xs == Max({v.maxSelf, self})
           real == IF outermost THEN cumul ELSE 0
<1>1. /\ v.calls \in Nat /\ v.sumCumul \in Nat /\ v.minCumul \in Nat /\ v.maxCumul \in Nat
      /\ v.sumSelf \in Nat /\ v.minSelf \in Nat /\ v.maxSelf \in Nat /\ v.real \in Nat
  BY DEF Tuple
<1>2. real \in Nat /\ real <= cumul
  OBVIOUS
<1>3. mc \in Nat /\ mc <= v.minCumul /\ mc <= cumul /\ mc \in {v.minCumul, cumul}
  BY <1>1, MinMaxOfTwo
<1>4. xc \in Nat /\ xc >= v.maxCumul /\ xc >= cumul /\ xc \in {v.maxCumul, cumul}
  BY <1>1, MinMaxOfTwo
<1>5. ms \in Nat /\ ms <= v.minSelf /\ ms <= self /\ ms \in {v.minSelf, self}
  BY <1>1, MinMaxOfTwo
<1>6. xs \in Nat /\ xs >= v.maxSelf /\ xs >= self /\ xs \in {v.maxSelf, self}
  BY <1>1, MinMaxOfTwo
<1> HIDE DEF mc, xc, ms, xs, real
<1>7. u = [calls |-> v.calls + 1, sumCumul |-> v.sumCumul + cumul, minCumul |-> mc,
           maxCumul |-> xc, sumSelf |-> v.sumSelf + self, minSelf |-> ms, maxSelf |-> xs,
           real |-> v.real + real]
  BY DEF Added, mc, xc, ms, xs, real
<1> HIDE DEF u
<1>8. /\ v.maxCumul <= v.sumCumul /\ v.minCumul * v.calls <= v.sumCumul
      /\ v.real <= v.sumCumul
      /\ v.minSelf <= v.minCumul /\ v.maxSelf <= v.maxCumul /\ v.sumSelf <= v.sumCumul
      /\ v.maxSelf <= v.sumSelf /\ v.minSelf * v.calls <= v.sumSelf
  BY DEF Summable
<1>9. u \in Tuple
  BY <1>1, <1>2, <1>3, <1>4, <1>5, <1>6, <1>7 DEF Tuple
<1>10. mc * (v.calls + 1) <= v.sumCumul + cumul
  <2>1. /\ mc * v.calls \in Nat /\ v.minCumul * v.calls \in Nat
        /\ mc * v.calls <= v.minCumul * v.calls
        /\ mc * (v.calls + 1) = mc * v.calls + mc
    BY <1>1, <1>3, ProductGrows
  <2> DEFINE p == mc * v.calls
             q == v.minCumul * v.calls
  <2> HIDE DEF p, q
  <2>2. p \in Nat /\ q \in Nat /\ p <= q /\ q <= v.sumCumul
    BY <1>8, <2>1 DEF p, q
  <2>3. p + mc <= v.sumCumul + cumul
    BY <1>1, <1>3, <2>2
  <2> QED
    BY <2>1, <2>3 DEF p
<1>11. ms * (v.calls + 1) <= v.sumSelf + self
  <2>1. /\ ms * v.calls \in Nat /\ v.minSelf * v.calls \in Nat
        /\ ms * v.calls <= v.minSelf * v.calls
        /\ ms * (v.calls + 1) = ms * v.calls + ms
    BY <1>1, <1>5, ProductGrows
  <2> DEFINE p == ms * v.calls
             q == v.minSelf * v.calls
  <2> HIDE DEF p, q
  <2>2. p \in Nat /\ q \in Nat /\ p <= q /\ q <= v.sumSelf
    BY <1>8, <2>1 DEF p, q
  <2>3. p + ms <= v.sumSelf + self
    BY <1>1, <1>5, <2>2
  <2> QED
    BY <2>1, <2>3 DEF p
<1>12. /\ v.calls + 1 > 0 /\ mc <= xc /\ xc <= v.sumCumul + cumul
       /\ v.real + real <= v.sumCumul + cumul
       /\ v.sumSelf + self <= v.sumCumul + cumul
       /\ ms <= xs /\ xs <= v.sumSelf + self
  <2> HIDE DEF Tuple, Summable
  <2>1. v.calls + 1 > 0 /\ mc <= xc /\ ms <= xs
    BY <1>1, <1>3, <1>4, <1>5, <1>6
  <2>2. xc <= v.sumCumul + cumul
    BY <1>1, <1>4, <1>8
  <2>3. xs <= v.sumSelf + self
    BY <1>1, <1>6, <1>8
  <2>4. v.real + real <= v.sumCumul + cumul /\ v.sumSelf + self <= v.sumCumul + cumul
    BY <1>1, <1>2, <1>8
  <2> QED
    BY <2>1, <2>2, <2>3, <2>4
<1>13. ms <= mc
  BY <1>1, <1>3, <1>5, <1>8
<1>14. xs <= xc
  BY <1>1, <1>4, <1>6, <1>8
<1>15. MergeAssertions(u)
  BY <1>7, <1>10, <1>11, <1>12, <1>13, <1>14 DEF MergeAssertions
<1> QED
  BY <1>9, <1>15 DEF u

\* An input map with one more call in the tuple of this key.
LEMMA FileOK ==
  \A ts, us : \A key \in Key : \A cumul, self \in Nat : \A outermost \in BOOLEAN :
    /\ IsMap(ts, Key, Tuple) /\ (\A k \in DOMAIN ts : MergeAssertions(ts[k]))
    /\ self <= cumul /\ us = File(ts, key, cumul, self, outermost)
    => /\ DOMAIN us = DOMAIN ts \cup {key}
       /\ IsMap(us, Key, Tuple) /\ (\A k \in DOMAIN us : MergeAssertions(us[k]))
<1> SUFFICES ASSUME NEW ts, NEW us, NEW key \in Key, NEW cumul \in Nat, NEW self \in Nat,
                    NEW outermost \in BOOLEAN,
                    IsMap(ts, Key, Tuple), \A k \in DOMAIN ts : MergeAssertions(ts[k]),
                    self <= cumul, us = File(ts, key, cumul, self, outermost)
             PROVE  /\ DOMAIN us = DOMAIN ts \cup {key}
                    /\ IsMap(us, Key, Tuple) /\ \A k \in DOMAIN us : MergeAssertions(us[k])
  OBVIOUS
<1> DEFINE old == IF key \in DOMAIN ts THEN ts[key] ELSE NewTuple
<1>1. /\ DOMAIN us = DOMAIN ts \cup {key}
      /\ us[key] = Added(old, cumul, self, outermost)
      /\ \A k \in DOMAIN ts : k # key => us[k] = ts[k]
  BY DEF File
<1>2. old \in Tuple /\ Summable(old)
  <2>1. CASE key \in DOMAIN ts
    BY <2>1 DEF IsMap, MergeAssertions, Summable
  <2>2. CASE key \notin DOMAIN ts
    BY <2>2, NewTupleOK
  <2> QED
    BY <2>1, <2>2
<1> HIDE DEF old
<1>3. us[key] \in Tuple /\ MergeAssertions(us[key])
  BY <1>1, <1>2, AddedOK
<1>4. \A k \in DOMAIN us : us[k] \in Tuple /\ MergeAssertions(us[k])
  BY <1>1, <1>3 DEF IsMap
<1> QED
  BY <1>1, <1>4 DEF IsMap

-----------------------------------------------------------------------------
(* Exits, one by one and all those of a step.                              *)

\* With no skipped routine on the stack, the top is timed, and its node ends with it.
LEMMA TopIsTimed ==
  ASSUME NEW m, NEW td, ThreadOK(m, td), td.stack # <<>>, td.skip = 0
  PROVE  LET n == Len(td.stack)
             f == Last(td.stack).fn
         IN  /\ f \notin Skipped
             /\ m = "contexts" /\ f \notin Discarded =>
                  /\ td.node[n] \in Context /\ Known(td.node[n], td.tree)
                  /\ Last(td.node[n]) = f
<1> DEFINE n == Len(td.stack)
           f == Last(td.stack).fn
           fs == Routines(td.stack)
<1>1. td \in ThreadData /\ n \in 1..MaxDepth /\ n \in Nat /\ f = td.stack[n].fn
  BY TopOf
<1>2. fs \in Seq(Fn) /\ Len(fs) = n /\ n \in 1..n /\ fs[n] = f
  BY <1>1, RoutinesType
<1>3. td.skip = Cardinality(SkippedIn(fs)) /\ (m = "contexts" => ContextsOK(td, fs))
  BY DEF ThreadOK, CountsOK
<1>4. td.node[n] \in Context \cup {NoNode}
  BY <1>1, ThreadFields
<1> HIDE DEF n, f, fs
<1>5. SkippedIn(fs) = {} /\ TimedIn(fs) = 1..Len(fs)
  BY <1>2, <1>3, RoutineSets
<1>6. f \notin Skipped
  BY <1>2, <1>5 DEF SkippedIn
<1>7. ASSUME m = "contexts", f \notin Discarded
      PROVE  td.node[n] \in Context /\ Known(td.node[n], td.tree) /\ Last(td.node[n]) = f
  <2>1. SlotsOK(td.node, td.tree) /\ NodesOK(td.node, fs)
    BY <1>3, <1>7 DEF ContextsOK
  <2>2. td.node[n] # NoNode /\ Last(td.node[n]) = f
    BY <1>2, <1>5, <1>7, <2>1 DEF NodesOK
  <2> QED
    BY <1>1, <1>4, <2>1, <2>2 DEF SlotsOK
<1> QED
  BY <1>6, <1>7 DEF n, f

\* Thread t after some of its exits in a step.
Exiting(t, r) ==
  /\ r = [td |-> r.td, tuples |-> r.tuples]
  /\ ThreadOK(mode, r.td) /\ r.td.tree = threads[t].tree
  /\ TuplesOK(mode, r.tuples, threads)

LEMMA SquareType == ASSUME NEW n \in Nat PROVE n * n \in Nat
  BY ProductGrows

LEMMA NoContextType == NoContext \in Context
<1>1. NoContext \in [1..0 -> Measured \cup {Garbage}] /\ 0 \in 0..MaxDepth
  BY BoundsAssumption DEF NoContext
<1> QED
  BY <1>1 DEF Context

LEMMA ExitKeeps ==
  ASSUME NEW t \in Thread, t \in DOMAIN threads, NEW r, Exiting(t, r), r.td.stack # <<>>,
         NEW size \in Size
  PROVE  LET s == function_exit(t, r, size)
         IN  Exiting(t, s) /\ Len(s.td.stack) = Len(r.td.stack) - 1
<1> DEFINE s == function_exit(t, r, size)
           act == Last(r.td.stack)
           doped == IF act.fn \in DopeFn THEN [r.td EXCEPT !.cost = @ + size * size] ELSE r.td
           cumul == Now(doped) - act.start
           left == ExitOf(doped, act.fn)
           context == IF mode = "contexts" THEN doped.node[Len(doped.stack)] ELSE NoContext
           key == [owner |-> Owner(t), fn |-> act.fn, size |-> size, context |-> context]
           filed == IF act.fn \in Discarded THEN r.tuples
                    ELSE File(r.tuples, key, cumul, cumul - act.children,
                              left.pending[act.fn] < 1)
<1>1. /\ r = [td |-> r.td, tuples |-> r.tuples]
      /\ ThreadOK(mode, r.td) /\ r.td.tree = threads[t].tree
      /\ TuplesOK(mode, r.tuples, threads)
  BY DEF Exiting
<1>2. ThreadOK(mode, doped) /\ doped.stack = r.td.stack /\ doped.tree = threads[t].tree
  <2>1. size * size \in Nat
    BY SizeAssumption, SquareType
  <2> DEFINE n == size * size
             up == [r.td EXCEPT !.cost = @ + n]
  <2> HIDE DEF n
  <2>2. ThreadOK(mode, up) /\ up.stack = r.td.stack /\ up.tree = r.td.tree
    BY <1>1, <2>1, CostGrows DEF n
  <2>3. doped = IF act.fn \in DopeFn THEN up ELSE r.td
    BY DEF n
  <2> HIDE DEF doped, up, act
  <2> QED
    BY <1>1, <2>2, <2>3
<1> HIDE DEF doped
<1>3. act = Last(doped.stack) /\ doped.stack # <<>>
  BY <1>2
<1>4. CASE doped.skip > 0
  <2> DEFINE u == Pop(IF act.fn \in Skipped
                      THEN [doped EXCEPT !.skip = @ - 1, !.skipCost = @ + cumul]
                      ELSE doped)
  <2>1. s = [r EXCEPT !.td = u]
    BY <1>4 DEF function_exit, doped
  <2>2. ThreadOK(mode, u) /\ u.tree = doped.tree /\ Len(u.stack) = Len(doped.stack) - 1
    <3> DEFINE top == Last(doped.stack)
               v == Pop(IF top.fn \in Skipped
                        THEN [doped EXCEPT !.skip = @ - 1,
                                           !.skipCost = @ + (Now(doped) - top.start)]
                        ELSE doped)
    <3>1. ThreadOK(mode, v) /\ v.tree = doped.tree /\ Len(v.stack) = Len(doped.stack) - 1
      BY <1>2, <1>3, <1>4, ExitUnderSkipped
    <3>2. u = v
      BY <1>3
    <3> QED
      BY <3>1, <3>2
  <2> HIDE DEF u, s
  <2>3. s = [td |-> u, tuples |-> r.tuples]
    BY <1>1, <2>1
  <2>4. s.td = u /\ s.tuples = r.tuples /\ s = [td |-> s.td, tuples |-> s.tuples]
    BY <2>3
  <2> QED
    BY <1>1, <1>2, <2>2, <2>4 DEF Exiting, s
<1>5. CASE ~ (doped.skip > 0)
  <2> DEFINE u == PopIntoParent(left, cumul)
  <2>1. s = [td |-> u, tuples |-> filed]
    BY <1>5 DEF function_exit, doped
  <2>2. doped.skip = 0
    <3>1. doped \in ThreadData
      BY <1>2 DEF ThreadOK
    <3> QED
      BY <1>5, <3>1, ThreadFields
  <2>3. /\ ThreadOK(mode, u) /\ u.tree = doped.tree /\ Len(u.stack) = Len(doped.stack) - 1
        /\ left.pending[act.fn] \in Nat
    <3> DEFINE top == Last(doped.stack)
               l == ExitOf(doped, top.fn)
               v == PopIntoParent(l, Now(doped) - top.start)
    <3>1. /\ ThreadOK(mode, v) /\ v.tree = doped.tree /\ Len(v.stack) = Len(doped.stack) - 1
          /\ l.pending[top.fn] \in Nat
      BY <1>2, <1>3, <2>2, ExitTimed
    <3>2. top = act
      BY <1>3
    <3> HIDE DEF act, top
    <3> QED
      BY <3>1, <3>2
  <2> DEFINE n == Len(doped.stack)
  <2>4. /\ act.fn \in Fn /\ act.start \in Nat /\ act.children \in Nat
        /\ Now(doped) \in Nat /\ act.start + act.children <= Now(doped)
    BY <1>2, <1>3, TopOf
  <2>5. /\ cumul \in Nat /\ cumul - act.children \in Nat /\ cumul - act.children <= cumul
    <3> DEFINE start == act.start
               children == act.children
               now == Now(doped)
    <3>1. start \in Nat /\ children \in Nat /\ now \in Nat /\ start + children <= now
      BY <2>4
    <3>2. cumul = now - start
      OBVIOUS
    <3> HIDE DEF start, children, now, cumul
    <3>3. cumul \in Nat /\ cumul - children \in Nat /\ cumul - children <= cumul
      BY <3>1, <3>2
    <3> QED
      BY <3>3 DEF children
  <2>6. /\ act.fn \notin Skipped
        /\ mode = "contexts" /\ act.fn \notin Discarded =>
             /\ doped.node[n] \in Context /\ Known(doped.node[n], doped.tree)
             /\ Last(doped.node[n]) = act.fn
    BY <1>2, <1>3, <2>2, TopIsTimed
  <2>7. TuplesOK(mode, filed, threads)
    <3>1. CASE act.fn \in Discarded
      BY <1>1, <3>1
    <3>2. CASE act.fn \notin Discarded
      <4> DEFINE outermost == left.pending[act.fn] < 1
                 self == cumul - act.children
                 us == File(r.tuples, key, cumul, self, outermost)
      <4>1. context \in Context
        BY <2>6, <3>2, NoContextType
      <4>2. act.fn \in Measured
        BY <2>4, <2>6, <3>2 DEF Measured
      <4>3. key \in Key
        <5>1. Owner(t) \in Thread \cup {Shared}
          BY DEF Owner
        <5> HIDE DEF act, context
        <5> QED
          BY <4>1, <4>2, <5>1 DEF Key
      <4>4. /\ key.context = context /\ key.fn = act.fn /\ key.owner = Owner(t)
        OBVIOUS
      <4>5. outermost \in BOOLEAN
        BY <2>3
      <4>6. filed = us
        BY <3>2
      <4> HIDE DEF key, cumul, self, outermost, us, filed
      <4>7. self \in Nat /\ self <= cumul /\ cumul \in Nat
        BY <2>5 DEF self
      <4>8. /\ IsMap(r.tuples, Key, Tuple)
            /\ \A k \in DOMAIN r.tuples : MergeAssertions(r.tuples[k])
        BY <1>1 DEF TuplesOK
      <4>9. /\ DOMAIN us = DOMAIN r.tuples \cup {key}
            /\ IsMap(us, Key, Tuple) /\ \A k \in DOMAIN us : MergeAssertions(us[k])
        <5> DEFINE ts == r.tuples
        <5>1. IsMap(ts, Key, Tuple) /\ \A k \in DOMAIN ts : MergeAssertions(ts[k])
          BY <4>8
        <5>2. us = File(ts, key, cumul, self, outermost)
          BY DEF us
        <5> HIDE DEF ts
        <5>3. /\ DOMAIN us = DOMAIN ts \cup {key}
              /\ IsMap(us, Key, Tuple) /\ \A k \in DOMAIN us : MergeAssertions(us[k])
          BY <4>3, <4>5, <4>7, <5>1, <5>2, FileOK
        <5> QED
          BY <5>3 DEF ts
      <4>10. ASSUME mode = "contexts"
             PROVE  key.owner \in DOMAIN threads /\ FiledIn(key, threads[key.owner].tree)
        <5>1. key.owner = t /\ context = doped.node[n]
          BY <4>4, <4>10 DEF Owner
        <5>2. Known(context, doped.tree) /\ Last(context) = act.fn
          BY <2>6, <3>2, <4>10, <5>1
        <5> HIDE DEF context
        <5> QED
          BY <1>2, <4>4, <5>1, <5>2 DEF FiledIn
      <4>11. mode = "contexts" =>
               \A k \in DOMAIN r.tuples : /\ k.owner \in DOMAIN threads
                                          /\ FiledIn(k, threads[k.owner].tree)
        BY <1>1 DEF TuplesOK
      <4> QED
        BY <4>6, <4>9, <4>10, <4>11 DEF TuplesOK
    <3> QED
      BY <3>1, <3>2
  <2> HIDE DEF u, s, filed
  <2>8. s.td = u /\ s.tuples = filed /\ s = [td |-> s.td, tuples |-> s.tuples]
    BY <2>1
  <2> QED
    BY <1>2, <2>3, <2>7, <2>8 DEF Exiting, s
<1> QED
  BY <1>4, <1>5

\* f has what is left after 0, 1, ..., n exits.
Exits(f, t, r, n, sizes) ==
  f = [k \in 0..n |-> IF k = 0 THEN r ELSE function_exit(t, f[k - 1], sizes[k])]

LEMMA ExitsExist ==
  ASSUME NEW t, NEW r, NEW n \in Nat, NEW sizes
  PROVE  \E f : Exits(f, t, r, n, sizes)
<1> DEFINE S == {k \in Nat : \E f : Exits(f, t, r, k, sizes)}
<1>1. 0 \in S
  <2> DEFINE f == [k \in 0..0 |-> r]
  <2>1. f = [k \in 0..0 |-> IF k = 0 THEN r ELSE function_exit(t, f[k - 1], sizes[k])]
    OBVIOUS
  <2> HIDE DEF f
  <2>2. Exits(f, t, r, 0, sizes)
    BY <2>1, Zenon DEF Exits
  <2> QED
    BY <2>2
<1>2. ASSUME NEW n1 \in S PROVE n1 + 1 \in S
  <2>1. PICK f : Exits(f, t, r, n1, sizes)
    OBVIOUS
  <2>2. n1 \in Nat
    OBVIOUS
  <2>3. \A k \in 0..n1 : f[k] = IF k = 0 THEN r ELSE function_exit(t, f[k - 1], sizes[k])
    BY <2>1, Zenon DEF Exits
  <2> DEFINE g == [k \in 0..(n1 + 1) |->
                     IF k <= n1 THEN f[k] ELSE function_exit(t, f[n1], sizes[n1 + 1])]
             step(k) == IF k = 0 THEN r ELSE function_exit(t, g[k - 1], sizes[k])
  <2>4. ASSUME NEW k \in 0..(n1 + 1) PROVE g[k] = step(k)
    <3>1. CASE k = 0
      <4>1. 0 \in 0..n1 /\ 0 <= n1
        BY <2>2
      <4> QED
        BY <2>3, <3>1, <4>1
    <3>2. CASE k \in 1..n1
      <4>1. k - 1 \in 0..(n1 + 1) /\ k - 1 <= n1 /\ k \in 0..n1 /\ k # 0 /\ k <= n1
        BY <2>2, <3>2
      <4>2. g[k - 1] = f[k - 1] /\ g[k] = f[k]
        BY <4>1
      <4> HIDE DEF g
      <4> QED
        BY <2>3, <4>1, <4>2
    <3>3. CASE k = n1 + 1
      <4>1. n1 \in 0..(n1 + 1) /\ n1 <= n1 /\ k - 1 = n1 /\ k # 0 /\ ~ (k <= n1)
        BY <2>2, <3>3
      <4>2. g[n1] = f[n1] /\ g[k] = function_exit(t, f[n1], sizes[n1 + 1])
        BY <4>1
      <4> HIDE DEF g
      <4> QED
        BY <4>1, <4>2
    <3>4. k = 0 \/ k \in 1..n1 \/ k = n1 + 1
      BY <2>2
    <3> QED
      BY <3>1, <3>2, <3>3, <3>4
  <2>5. g = [k \in 0..(n1 + 1) |-> g[k]]
    OBVIOUS
  <2> HIDE DEF g
  <2>6. g = [k \in 0..(n1 + 1) |-> step(k)]
    BY <2>4, <2>5, Zenon
  <2>7. Exits(g, t, r, n1 + 1, sizes)
    BY <2>6, Zenon DEF Exits
  <2> QED
    BY <2>2, <2>7
<1> HIDE DEF S
<1>3. n \in S
  <2>1. S \in SUBSET Nat
    BY DEF S
  <2> QED
    BY <1>1, <1>2, <2>1, SetInduction
<1> QED
  BY <1>3 DEF S

LEMMA ExitManyIsLast ==
  ASSUME NEW t, NEW r, NEW n \in Nat, NEW sizes
  PROVE  \E f : Exits(f, t, r, n, sizes) /\ ExitMany(t, r, n, sizes) = f[n]
<1> DEFINE exits == CHOOSE f : Exits(f, t, r, n, sizes)
<1>1. Exits(exits, t, r, n, sizes)
  BY ExitsExist, Zenon
<1>2. ExitMany(t, r, n, sizes) = exits[n]
  BY DEF ExitMany, Exits
<1> HIDE DEF exits
<1> QED
  BY <1>1, <1>2

\* As many exits as there are activations are possible, whatever they are of.
LEMMA ExitsKeep ==
  ASSUME NEW t \in Thread, t \in DOMAIN threads, NEW r, Exiting(t, r),
         NEW n \in Nat, n <= Len(r.td.stack), NEW sizes \in [1..n -> Size]
  PROVE  LET s == ExitMany(t, r, n, sizes)
         IN  Exiting(t, s) /\ Len(s.td.stack) = Len(r.td.stack) - n
<1>1. PICK f : Exits(f, t, r, n, sizes) /\ ExitMany(t, r, n, sizes) = f[n]
  BY ExitManyIsLast
<1>2. \A k \in 0..n : f[k] = IF k = 0 THEN r ELSE function_exit(t, f[k - 1], sizes[k])
  BY <1>1, Zenon DEF Exits
<1> DEFINE Reached(k) == Exiting(t, f[k]) /\ Len(f[k].td.stack) = Len(r.td.stack) - k
           S == {k \in Nat : k <= n => Reached(k)}
<1>3. Len(r.td.stack) \in Nat
  <2>1. r.td \in ThreadData
    BY DEF Exiting, ThreadOK
  <2> QED
    BY <2>1, ThreadFields
<1>4. 0 \in S
  <2>1. f[0] = r
    BY <1>2
  <2> QED
    BY <1>3, <2>1
<1>5. ASSUME NEW k \in S PROVE k + 1 \in S
  <2> SUFFICES ASSUME k + 1 <= n PROVE Reached(k + 1)
    OBVIOUS
  <2>1. k \in Nat /\ k <= n /\ k + 1 \in 0..n /\ k + 1 # 0 /\ k + 1 - 1 = k
    OBVIOUS
  <2>2. Reached(k)
    BY <2>1
  <2> DEFINE size == sizes[k + 1]
  <2>3. f[k + 1] = function_exit(t, f[k], size) /\ size \in Size
    BY <1>2, <2>1
  <2> HIDE DEF size
  <2>4. f[k].td.stack # <<>>
    <3>1. Len(f[k].td.stack) > 0
      BY <1>3, <2>1, <2>2
    <3> QED
      BY <3>1
  <2>5. /\ Exiting(t, f[k + 1]) /\ Len(f[k + 1].td.stack) = Len(f[k].td.stack) - 1
    BY <2>2, <2>3, <2>4, ExitKeeps
  <2>6. Len(f[k + 1].td.stack) = Len(r.td.stack) - (k + 1)
    <3>1. Len(f[k].td.stack) = Len(r.td.stack) - k
      BY <2>2
    <3> QED
      BY <1>3, <2>1, <2>5, <3>1
  <2> QED
    BY <2>5, <2>6
<1> HIDE DEF S
<1>6. n \in S
  <2>1. S \in SUBSET Nat
    BY DEF S
  <2> QED
    BY <1>4, <1>5, <2>1, SetInduction
<1>7. Reached(n)
  BY <1>6 DEF S
<1> QED
  BY <1>1, <1>7

-----------------------------------------------------------------------------
(* function_enter.                                                         *)

LEMMA ContextIsSeq ==
  /\ \A c \in Context : c \in Seq(Measured \cup {Garbage}) /\ Len(c) \in Nat /\ Len(c) <= MaxDepth
  /\ \A c \in Seq(Measured \cup {Garbage}) : Len(c) <= MaxDepth => c \in Context
<1>1. ASSUME NEW c \in Context
      PROVE  c \in Seq(Measured \cup {Garbage}) /\ Len(c) \in Nat /\ Len(c) <= MaxDepth
  <2>1. PICK n \in 0..MaxDepth : c \in [1..n -> Measured \cup {Garbage}]
    BY DEF Context
  <2>2. n \in Nat /\ n <= MaxDepth
    BY BoundsAssumption
  <2>3. c \in Seq(Measured \cup {Garbage}) /\ Len(c) = n
    BY <2>1, <2>2
  <2> QED
    BY <2>2, <2>3
<1>2. ASSUME NEW c \in Seq(Measured \cup {Garbage}), Len(c) <= MaxDepth PROVE c \in Context
  <2>1. Len(c) \in 0..MaxDepth /\ c \in [1..Len(c) -> Measured \cup {Garbage}]
    BY <1>2, BoundsAssumption
  <2> QED
    BY <2>1 DEF Context
<1> QED
  BY <1>1, <1>2

LEMMA EndsOfAppend ==
  ASSUME NEW S, NEW s \in Seq(S), NEW e \in S
  PROVE  Front(Append(s, e)) = s /\ Last(Append(s, e)) = e
<1> DEFINE a == Append(s, e)
           n == Len(s)
<1>1. /\ a \in Seq(S) /\ Len(a) = n + 1 /\ \A i \in 1..n : a[i] = s[i]
      /\ a[n + 1] = e /\ a # <<>> /\ n \in Nat
  BY AppendProperties
<1> HIDE DEF a
<1>2. /\ Front(a) \in Seq(S) /\ Len(Front(a)) = Len(a) - 1
      /\ \A i \in 1..(Len(a) - 1) : Front(a)[i] = a[i]
      /\ Last(a) = a[Len(a)]
  BY <1>1, FrontOf
<1>3. Len(a) - 1 = n
  BY <1>1
<1>4. Len(Front(a)) = n /\ \A i \in 1..n : Front(a)[i] = s[i]
  BY <1>1, <1>2, <1>3
<1>5. Front(a) = s
  BY <1>2, <1>4, SeqEqual
<1> QED
  BY <1>1, <1>2, <1>5 DEF a

LEMMA RangeOfAppend ==
  ASSUME NEW S, NEW s \in Seq(S), NEW e \in S
  PROVE  Range(Append(s, e)) = Range(s) \cup {e}
<1> DEFINE a == Append(s, e)
           n == Len(s)
<1>1. /\ DOMAIN a = 1..(n + 1) /\ \A i \in 1..n : a[i] = s[i]
      /\ a[n + 1] = e /\ n \in Nat /\ DOMAIN s = 1..n
  BY AppendProperties
<1>2. 1..(n + 1) = (1..n) \cup {n + 1}
  BY <1>1
<1> HIDE DEF a, n
<1> QED
  BY <1>1, <1>2 DEF Range, a

\* parent_CCT finds the caller's node if it has one, and the root or some context otherwise,
\* of the tree unless it is a stray one, but never one that is too deep.
LEMMA ParentOK ==
  ASSUME NEW td, NEW tree, td.node \in [1..MaxDepth -> Context \cup {NoNode}],
         SlotsOK(td.node, tree), NEW depth \in 1..MaxDepth
  PROVE  LET p == parent_CCT(td, depth)
         IN  /\ p \in Context /\ Len(p) < depth
             /\ p = NoContext \/ Known(p, tree)
             /\ depth = 1 => p = NoContext
             /\ depth > 1 /\ td.node[depth - 1] # NoNode => p = td.node[depth - 1]
<1> DEFINE nodes == {d \in 1..(depth - 1) : td.node[d] # NoNode}
           p == parent_CCT(td, depth)
<1>1. p = IF nodes = {} THEN NoContext ELSE td.node[Max(nodes)]
  BY DEF parent_CCT
<1> HIDE DEF p
<1>2. depth \in Nat /\ depth >= 1 /\ depth <= MaxDepth
  BY BoundsAssumption
<1>3. CASE nodes = {}
  <2>1. p = NoContext /\ NoContext \in Context /\ Len(NoContext) = 0
    BY <1>1, <1>3, NoContextType DEF NoContext
  <2>2. depth > 1 => depth - 1 \in 1..(depth - 1)
    BY <1>2
  <2>3. depth > 1 => td.node[depth - 1] = NoNode
    BY <1>3, <2>2
  <2> QED
    BY <1>2, <2>1, <2>3 DEF p
<1>4. CASE nodes # {}
  <2>1. nodes \in SUBSET (0..(depth - 1)) /\ depth - 1 \in Nat
    BY <1>2
  <2>2. \E x \in nodes : \A y \in nodes : x >= y
    <3> HIDE DEF nodes
    <3> QED
      BY <1>4, <2>1, GreatestNatural
  <2> DEFINE d == Max(nodes)
  <2>3. d \in nodes /\ \A y \in nodes : d >= y
    <3> HIDE DEF nodes
    <3> QED
      BY <2>2, Zenon DEF Max
  <2> HIDE DEF d
  <2>4. d \in 1..(depth - 1) /\ td.node[d] # NoNode /\ d \in 1..MaxDepth /\ d < depth
    <3>1. d \in nodes
      BY <2>3
    <3>2. d \in 1..(depth - 1) /\ td.node[d] # NoNode
      BY <3>1
    <3> HIDE DEF nodes
    <3>3. d \in 1..MaxDepth /\ d < depth
      BY <1>2, <3>2, BoundsAssumption
    <3> QED
      BY <3>2, <3>3
  <2>5. p = td.node[d]
    BY <1>1, <1>4 DEF d
  <2>6. td.node[d] \in Context /\ Known(td.node[d], tree) /\ Len(td.node[d]) \in 1..d
    BY <2>4 DEF SlotsOK
  <2>7. Len(p) < depth
    BY <1>2, <2>4, <2>5, <2>6
  <2>8. depth # 1
    BY <1>2, <2>4
  <2>9. ASSUME depth > 1, td.node[depth - 1] # NoNode PROVE d = depth - 1
    <3>1. depth - 1 \in nodes
      BY <1>2, <2>9
    <3> QED
      BY <1>2, <2>3, <2>4, <3>1
  <2> QED
    BY <2>5, <2>6, <2>7, <2>8, <2>9 DEF p
<1> QED
  BY <1>3, <1>4

\* The activation that function_enter pushes.
Pushed(td, f) ==
  [td EXCEPT !.stack = Append(@, [fn |-> f, start |-> Now(td), children |-> 0])]

LEMMA PushedFields ==
  ASSUME NEW m, NEW td, ThreadOK(m, td), Len(td.stack) < MaxDepth, NEW f \in Fn
  PROVE  LET u == Pushed(td, f)
         IN  /\ td \in ThreadData /\ u \in ThreadData
             /\ u.cost = td.cost /\ u.skip = td.skip /\ u.skipCost = td.skipCost
             /\ u.node = td.node /\ u.pending = td.pending /\ u.tree = td.tree
             /\ Len(u.stack) = Len(td.stack) + 1 /\ Len(u.stack) \in 1..MaxDepth
             /\ Routines(td.stack) \in Seq(Fn)
             /\ Routines(u.stack) = Append(Routines(td.stack), f)
             /\ ClockOK(u)
<1> DEFINE act == [fn |-> f, start |-> Now(td), children |-> 0]
           stack == Append(td.stack, act)
           u == Pushed(td, f)
           n == Len(td.stack)
<1>1. td \in ThreadData /\ ClockOK(td) /\ n \in Nat /\ n < MaxDepth
  BY ThreadFields DEF ThreadOK
<1>2. /\ td.cost \in Nat /\ td.skipCost \in Nat /\ td.skipCost <= td.cost
      /\ td.stack \in Seq(Activation)
      /\ \A i \in 1..n : td.stack[i].start \in Nat /\ td.stack[i].children \in Nat
  BY <1>1, ThreadFields DEF ClockOK
<1>3. Now(td) \in Nat
  BY <1>2 DEF Now
<1>4. /\ act \in Activation
      /\ act.fn = f /\ act.start = Now(td) /\ act.children = 0
  BY <1>3 DEF Activation
<1> HIDE DEF act
<1>5. /\ stack \in Seq(Activation) /\ Len(stack) = n + 1
      /\ \A i \in 1..n : stack[i] = td.stack[i]
      /\ stack[n + 1] = act
  BY <1>2, <1>4, AppendProperties
<1> HIDE DEF stack
<1>6. /\ u \in ThreadData
      /\ u.cost = td.cost /\ u.skip = td.skip /\ u.skipCost = td.skipCost
      /\ u.node = td.node /\ u.pending = td.pending /\ u.tree = td.tree
      /\ u.stack = stack
  <2>1. u = [td EXCEPT !.stack = stack]
    BY DEF Pushed, stack, act
  <2> HIDE DEF u
  <2> QED
    BY <1>1, <1>5, <2>1 DEF ThreadData, Activation
<1> HIDE DEF u
<1>7. n + 1 \in 1..MaxDepth
  BY <1>1, BoundsAssumption
<1>8. Routines(td.stack) \in Seq(Fn)
  BY <1>1, RoutinesType
<1>9. Routines(stack) = Append(Routines(td.stack), f)
  <2>1. \A i \in 1..Len(td.stack) : td.stack[i].fn = stack[i].fn
    BY <1>5
  <2>2. stack[Len(stack)].fn = f /\ Len(stack) = Len(td.stack) + 1
    BY <1>4, <1>5
  <2> QED
    BY <1>2, <1>5, <2>1, <2>2, RoutinesAppended
<1>10. Now(u) = Now(td)
  BY <1>6 DEF Now
<1>11. ASSUME NEW i \in 1..(n + 1)
       PROVE  stack[i].start + stack[i].children
                <= IF i < n + 1 THEN stack[i + 1].start ELSE Now(td)
  <2>1. CASE i = n + 1
    <3>1. stack[i].start = Now(td) /\ stack[i].children = 0
      BY <1>4, <1>5, <2>1
    <3>2. ~ (i < n + 1)
      BY <1>1, <2>1
    <3> QED
      BY <1>3, <3>1, <3>2
  <2>2. CASE i # n + 1
    <3>1. i \in 1..n /\ i < n + 1
      BY <1>1, <2>2
    <3>2. stack[i].start + stack[i].children
            <= IF i < n THEN td.stack[i + 1].start ELSE Now(td)
      BY <1>1, <1>5, <3>1 DEF ClockOK
    <3>3. stack[i + 1].start = IF i < n THEN td.stack[i + 1].start ELSE Now(td)
      <4>1. CASE i < n
        <5>1. i + 1 \in 1..n
          BY <1>1, <3>1, <4>1
        <5> QED
          BY <1>5, <4>1, <5>1
      <4>2. CASE ~ (i < n)
        <5>1. i + 1 = n + 1
          BY <1>1, <3>1, <4>2
        <5> QED
          BY <1>4, <1>5, <4>2, <5>1
      <4> QED
        BY <4>1, <4>2
    <3> QED
      BY <3>1, <3>2, <3>3
  <2> QED
    BY <2>1, <2>2
<1>12. ClockOK(u)
  BY <1>2, <1>5, <1>6, <1>10, <1>11 DEF ClockOK
<1> QED
  BY <1>1, <1>5, <1>6, <1>7, <1>8, <1>9, <1>12 DEF u

\* An activation that gets no node of its own: it is not timed, or discarded.
LEMMA NodesKept ==
  ASSUME NEW node, NEW fs \in Seq(Fn), NEW f \in Fn, NodesOK(node, fs),
         f \in Skipped \/ SkippedIn(fs) # {} \/ f \in Discarded
  PROVE  NodesOK(node, Append(fs, f))
<1> DEFINE gs == Append(fs, f)
           n == Len(fs)
<1>1. /\ TimedIn(fs) \subseteq 1..n /\ n \in Nat
      /\ \A i \in 1..n : gs[i] = fs[i]
      /\ gs[n + 1] = f
  BY DEF TimedIn
<1>2. TimedIn(gs) = TimedIn(fs) \cup IF SkippedIn(fs) = {} /\ f \notin Skipped
                                     THEN {n + 1} ELSE {}
  BY AppendedRoutine
<1> HIDE DEF gs, n
<1>3. ASSUME NEW i \in TimedIn(gs)
      PROVE  /\ gs[i] \notin Discarded => node[i] # NoNode /\ Last(node[i]) = gs[i]
             /\ (\A j \in 1..i : gs[j] \notin Discarded)
                  => node[i] = [j \in 1..i |-> gs[j]]
  <2>1. CASE i \in TimedIn(fs)
    <3>1. i \in 1..n /\ \A j \in 1..i : gs[j] = fs[j]
      BY <1>1, <2>1
    <3>2. gs[i] = fs[i] /\ [j \in 1..i |-> gs[j]] = [j \in 1..i |-> fs[j]]
      BY <1>1, <3>1
    <3>3. /\ fs[i] \notin Discarded => node[i] # NoNode /\ Last(node[i]) = fs[i]
          /\ (\A j \in 1..i : fs[j] \notin Discarded)
               => node[i] = [j \in 1..i |-> fs[j]]
      BY <2>1 DEF NodesOK
    <3> QED
      BY <3>1, <3>2, <3>3
  <2>2. CASE i \notin TimedIn(fs)
    <3>1. i = n + 1 /\ f \in Discarded
      BY <1>2, <2>2
    <3>2. gs[i] \in Discarded /\ i \in 1..i
      BY <1>1, <3>1
    <3> QED
      BY <3>2
  <2> QED
    BY <2>1, <2>2
<1> QED
  BY <1>3 DEF NodesOK, gs

\* A measured one gets its parent's node with its own routine.
LEMMA NodesPushed ==
  ASSUME NEW node, NEW new, NEW fs \in Seq(Fn), NEW f \in Measured,
         NEW p \in Seq(Measured \cup {Garbage}), NodesOK(node, fs), SkippedIn(fs) = {},
         fs = <<>> => p = <<>>,
         fs # <<>> /\ node[Len(fs)] # NoNode => p = node[Len(fs)],
         new[Len(fs) + 1] = Append(p, f), Append(p, f) # NoNode,
         \A i \in 1..Len(fs) : new[i] = node[i]
  PROVE  NodesOK(new, Append(fs, f))
<1> DEFINE gs == Append(fs, f)
           n == Len(fs)
<1>1. /\ TimedIn(fs) \subseteq 1..n /\ n \in Nat /\ f \in Fn
      /\ gs \in Seq(Fn) /\ Len(gs) = n + 1
      /\ \A i \in 1..n : gs[i] = fs[i]
      /\ gs[n + 1] = f
  BY DEF TimedIn, Measured
<1>2. TimedIn(gs) \subseteq TimedIn(fs) \cup {n + 1} /\ TimedIn(fs) = 1..n
  BY <1>1, AppendedRoutine DEF TimedIn, SkippedIn
<1> HIDE DEF gs
<1>3. ASSUME NEW i \in TimedIn(gs)
      PROVE  /\ gs[i] \notin Discarded => new[i] # NoNode /\ Last(new[i]) = gs[i]
             /\ (\A j \in 1..i : gs[j] \notin Discarded)
                  => new[i] = [j \in 1..i |-> gs[j]]
  <2>1. CASE i \in TimedIn(fs)
    <3>1. i \in 1..n /\ \A j \in 1..i : gs[j] = fs[j]
      BY <1>1, <2>1
    <3>2. gs[i] = fs[i] /\ [j \in 1..i |-> gs[j]] = [j \in 1..i |-> fs[j]]
      BY <1>1, <3>1
    <3>3. /\ fs[i] \notin Discarded => node[i] # NoNode /\ Last(node[i]) = fs[i]
          /\ (\A j \in 1..i : fs[j] \notin Discarded)
               => node[i] = [j \in 1..i |-> fs[j]]
      BY <2>1 DEF NodesOK
    <3> QED
      BY <3>1, <3>2, <3>3
  <2>2. CASE i \notin TimedIn(fs)
    <3>1. i = n + 1
      BY <1>2, <2>2
    <3> DEFINE c == Append(p, f)
    <3>2. new[i] = c /\ c # NoNode /\ gs[i] = f
      BY <1>1, <3>1
    <3>3. Last(c) = f
      <4>1. f \in Measured \cup {Garbage}
        OBVIOUS
      <4> QED
        BY <4>1, EndsOfAppend
    <3>4. ASSUME \A j \in 1..i : gs[j] \notin Discarded
          PROVE  c = [j \in 1..i |-> gs[j]]
      <4> DEFINE qs == [j \in 1..n |-> fs[j]]
      <4>1. p = fs
        <5>1. fs = <<>> => p = fs
          OBVIOUS
        <5>2. ASSUME fs # <<>> PROVE p = fs
          <6>1. n \in 1..n /\ n \in TimedIn(fs)
            BY <1>1, <1>2, <5>2
          <6>2. \A j \in 1..n : fs[j] \notin Discarded
            BY <1>1, <3>1, <3>4
          <6>3. node[n] # NoNode /\ node[n] = [j \in 1..n |-> fs[j]]
            BY <6>1, <6>2 DEF NodesOK
          <6>4. [j \in 1..n |-> fs[j]] = fs
            OBVIOUS
          <6> QED
            BY <5>2, <6>3, <6>4
        <5> QED
          BY <5>1, <5>2
      <4>2. c = gs
        BY <4>1 DEF gs
      <4>3. gs = [j \in 1..(n + 1) |-> gs[j]]
        BY <1>1
      <4> QED
        BY <3>1, <4>2, <4>3
    <3> QED
      BY <3>2, <3>3, <3>4
  <2> QED
    BY <2>1, <2>2
<1> QED
  BY <1>3 DEF NodesOK, gs

\* EnterContext links a new node to its parent, or finds it in the tree.
LEMMA EnterContextKeeps ==
  ASSUME mode = "contexts", NEW w \in ThreadData, NEW fs \in Seq(Fn), NEW f \in Measured,
         Len(w.stack) = Len(fs) + 1, Len(w.stack) \in 1..MaxDepth,
         SlotsOK(w.node, w.tree), TreeOK(w.tree), NodesOK(w.node, fs), SkippedIn(fs) = {}
  PROVE  LET u == EnterContext(w, f)
         IN  /\ u \in ThreadData
             /\ u.cost = w.cost /\ u.skip = w.skip /\ u.skipCost = w.skipCost
             /\ u.stack = w.stack /\ u.pending = w.pending
             /\ ContextsOK(u, Append(fs, f))
             /\ Range(w.tree) \subseteq Range(u.tree)
<1> DEFINE depth == Len(w.stack)
           p == parent_CCT(w, depth)
           c == Append(p, f)
           node == [w.node EXCEPT ![depth] = c]
           tree == IF c \in Range(w.tree) \/ IsStray(c) THEN w.tree ELSE Append(w.tree, c)
           u == EnterContext(w, f)
<1>1. w.node \in [1..MaxDepth -> Context \cup {NoNode}] /\ w.tree \in Seq(Context)
  BY ThreadFields
<1>2. depth \in 1..MaxDepth /\ depth \in Nat /\ depth >= 1 /\ depth <= MaxDepth
      /\ depth = Len(fs) + 1 /\ Len(fs) \in Nat
  BY BoundsAssumption
<1>3. f \notin Discarded /\ f \in Fn
  BY DEF Measured
<1>4. u = [w EXCEPT !.node[depth] = c,
                    !.tree = IF c \in Range(@) \/ IsStray(c) THEN @ ELSE Append(@, c)]
  BY <1>3 DEF EnterContext
<1> HIDE DEF u, depth
<1>5. /\ p \in Context /\ Len(p) < depth
      /\ p = NoContext \/ Known(p, w.tree)
      /\ depth = 1 => p = NoContext
      /\ depth > 1 /\ w.node[depth - 1] # NoNode => p = w.node[depth - 1]
  BY <1>1, <1>2, ParentOK
<1> HIDE DEF p
<1> DEFINE Hop == Measured \cup {Garbage}
<1>6. p \in Seq(Hop) /\ Len(p) \in Nat
  BY <1>5, ContextIsSeq
<1>7. /\ c \in Seq(Hop) /\ Len(c) = Len(p) + 1 /\ c[Len(p) + 1] = f
      /\ \A i \in 1..Len(p) : c[i] = p[i]
  BY <1>6, AppendProperties
<1>8. Front(c) = p /\ Last(c) = f
  BY <1>6, EndsOfAppend
<1> HIDE DEF c
<1>9. c \in Context /\ Len(c) \in 1..depth /\ c # NoNode
  <2>1. Len(c) <= MaxDepth /\ Len(c) \in 1..depth
    BY <1>2, <1>5, <1>6, <1>7, BoundsAssumption
  <2>2. c \in Context
    BY <1>7, <2>1, ContextIsSeq
  <2> QED
    BY <2>1, <2>2, NoNodeAssumption
<1>a. IsStray(c) <=> IsStray(p)
  <2>1. CASE p = NoContext
    <3>1. c[1] = f /\ f # Garbage
      BY <1>3, <1>7, <2>1, GarbageAssumption DEF NoContext
    <3> QED
      BY <2>1, <3>1 DEF IsStray
  <2>2. CASE p # NoContext
    <3>1. 1 \in 1..Len(p)
      BY <1>6, <2>2 DEF NoContext
    <3>2. c[1] = p[1] /\ c # NoContext
      BY <1>6, <1>7, <3>1 DEF NoContext
    <3> QED
      BY <2>2, <3>2 DEF IsStray
  <2> QED
    BY <2>1, <2>2
<1>10. /\ node \in [1..MaxDepth -> Context \cup {NoNode}]
       /\ node[depth] = c /\ \A d \in 1..MaxDepth : d # depth => node[d] = w.node[d]
  BY <1>1, <1>2, <1>9
<1>11. /\ tree \in Seq(Context)
       /\ Range(tree) = Range(w.tree) \cup IF IsStray(c) THEN {} ELSE {c}
  <2>1. Append(w.tree, c) \in Seq(Context) /\ Range(Append(w.tree, c)) = Range(w.tree) \cup {c}
    BY <1>1, <1>9, AppendProperties, RangeOfAppend
  <2>2. CASE c \in Range(w.tree) \/ IsStray(c)
    BY <1>1, <2>2
  <2>3. CASE c \notin Range(w.tree) /\ ~ IsStray(c)
    BY <2>1, <2>3
  <2> QED
    BY <2>2, <2>3
<1> HIDE DEF node
<1>12. /\ u \in ThreadData
       /\ u.cost = w.cost /\ u.skip = w.skip /\ u.skipCost = w.skipCost
       /\ u.stack = w.stack /\ u.pending = w.pending /\ u.node = node /\ u.tree = tree
  <2>1. u = [w EXCEPT !.node = node, !.tree = tree]
    BY <1>4 DEF node
  <2> HIDE DEF tree
  <2> QED
    BY <1>10, <1>11, <2>1 DEF ThreadData
<1> HIDE DEF tree
<1>13. SlotsOK(node, tree)
  BY <1>2, <1>9, <1>10, <1>11 DEF SlotsOK, Known
<1>14. TreeOK(tree)
  <2>1. \A x \in Range(tree) : x \in Range(w.tree) \/ (x = c /\ ~ IsStray(c))
    BY <1>11
  <2>2. ~ IsStray(c) => Front(c) \in Range(w.tree) \cup {NoContext}
    BY <1>5, <1>8, <1>a DEF Known
  <2> QED
    BY <1>11, <2>1, <2>2 DEF TreeOK
<1>15. NodesOK(node, Append(fs, f))
  <2>1. fs = <<>> => p = <<>>
    BY <1>2, <1>5 DEF NoContext
  <2>2. fs # <<>> /\ w.node[Len(fs)] # NoNode => p = w.node[Len(fs)]
    BY <1>2, <1>5
  <2>3. node[Len(fs) + 1] = Append(p, f) /\ Append(p, f) # NoNode
    BY <1>2, <1>9, <1>10 DEF c
  <2>4. \A i \in 1..Len(fs) : node[i] = w.node[i]
    BY <1>2, <1>10, BoundsAssumption
  <2> QED
    BY <1>6, <2>1, <2>2, <2>3, <2>4, NodesPushed
<1> QED
  BY <1>11, <1>12, <1>13, <1>14, <1>15 DEF ContextsOK, u

LEMMA EnteredCounts ==
  ASSUME NEW td \in ThreadData, NEW fs \in Seq(Fn), CountsOK(td, fs), NEW f \in Fn,
         NEW u, u.skip = td.skip + IF f \in Skipped THEN 1 ELSE 0,
         \A g \in Fn : u.pending[g] = td.pending[g]
                         + IF td.skip = 0 /\ f \notin Skipped /\ f = g THEN 1 ELSE 0
  PROVE  CountsOK(u, Append(fs, f)) /\ (td.skip = 0 <=> SkippedIn(fs) = {})
<1>1. td.skip = Cardinality(SkippedIn(fs))
      /\ \A g \in Fn : td.pending[g] = Cardinality(TimedOf(fs, g))
  BY DEF CountsOK
<1>2. td.skip = 0 <=> SkippedIn(fs) = {}
  BY <1>1, RoutineSets, FS_EmptySet
<1>3. u.skip = Cardinality(SkippedIn(Append(fs, f)))
  BY <1>1, AppendedCounts
<1>4. ASSUME NEW g \in Fn PROVE u.pending[g] = Cardinality(TimedOf(Append(fs, f), g))
  <2> DEFINE one == IF SkippedIn(fs) = {} /\ f \notin Skipped /\ f = g THEN 1 ELSE 0
  <2>1. Cardinality(TimedOf(Append(fs, f), g)) = Cardinality(TimedOf(fs, g)) + one
    BY AppendedCounts
  <2>2. one = IF td.skip = 0 /\ f \notin Skipped /\ f = g THEN 1 ELSE 0
    BY <1>2
  <2> HIDE DEF one
  <2>3. u.pending[g] = td.pending[g] + one
    BY <2>2
  <2> QED
    BY <1>1, <2>1, <2>3
<1> QED
  BY <1>2, <1>3, <1>4 DEF CountsOK

\* function_enter keeps a thread consistent, and takes nothing from its tree.
LEMMA EnterKeeps ==
  ASSUME NEW td, ThreadOK(mode, td), Len(td.stack) < MaxDepth, NEW f \in Fn
  PROVE  LET u == function_enter(td, f)
         IN  /\ ThreadOK(mode, u) /\ Range(td.tree) \subseteq Range(u.tree)
             /\ u.stack = Pushed(td, f).stack /\ u.cost = td.cost /\ u.skipCost = td.skipCost
<1> DEFINE fs == Routines(td.stack)
           gs == Append(fs, f)
           v == Pushed(td, f)
           u == function_enter(td, f)
<1>1. /\ td \in ThreadData /\ v \in ThreadData
      /\ v.cost = td.cost /\ v.skip = td.skip /\ v.skipCost = td.skipCost
      /\ v.node = td.node /\ v.pending = td.pending /\ v.tree = td.tree
      /\ Len(v.stack) = Len(td.stack) + 1 /\ Len(v.stack) \in 1..MaxDepth
      /\ fs \in Seq(Fn)
      /\ Routines(v.stack) = gs
      /\ ClockOK(v)
  BY PushedFields
<1>2. Len(fs) = Len(td.stack)
  BY <1>1, RoutinesType
<1>3. CountsOK(td, fs) /\ (mode = "contexts" => ContextsOK(td, fs))
  BY DEF ThreadOK
<1>4. /\ td.skip \in Nat /\ td.pending \in [Fn -> Nat] /\ \A g \in Fn : td.pending[g] \in Nat
  BY <1>1, ThreadFields
<1>5. td.skip = 0 <=> SkippedIn(fs) = {}
  BY <1>1, <1>3, RoutineSets, FS_EmptySet DEF CountsOK
<1>6. u = IF f \in Skipped THEN [v EXCEPT !.skip = @ + 1]
          ELSE IF td.skip > 0 THEN v
          ELSE EnterContext([v EXCEPT !.pending[f] = @ + 1], f)
  BY DEF function_enter, Pushed
<1> HIDE DEF u, v, fs
\* What remains to be shown of each case.
<1>7. ASSUME u \in ThreadData, u.stack = v.stack, u.cost = td.cost, u.skipCost = td.skipCost,
             u.skip = td.skip + IF f \in Skipped THEN 1 ELSE 0,
             \A g \in Fn : u.pending[g] = td.pending[g]
                             + IF td.skip = 0 /\ f \notin Skipped /\ f = g THEN 1 ELSE 0,
             mode = "contexts" => ContextsOK(u, gs),
             Range(td.tree) \subseteq Range(u.tree)
      PROVE  /\ ThreadOK(mode, u) /\ Range(td.tree) \subseteq Range(u.tree)
             /\ u.stack = v.stack /\ u.cost = td.cost /\ u.skipCost = td.skipCost
  <2>1. ClockOK(u)
    <3>1. Now(u) = Now(v) /\ u.skipCost = v.skipCost /\ u.cost = v.cost
      BY <1>1, <1>7 DEF Now
    <3> QED
      BY <1>1, <1>7, <3>1 DEF ClockOK
  <2>2. CountsOK(u, gs)
    BY <1>1, <1>3, <1>7, EnteredCounts
  <2>3. Routines(u.stack) = gs /\ Len(u.stack) <= MaxDepth
    BY <1>1, <1>7, BoundsAssumption
  <2> QED
    BY <1>7, <2>1, <2>2, <2>3 DEF ThreadOK
<1>8. ASSUME mode = "contexts", f \in Skipped \/ td.skip > 0 \/ f \in Discarded
      PROVE  NodesOK(td.node, gs) /\ SlotsOK(td.node, td.tree) /\ TreeOK(td.tree)
  <2>1. f \in Skipped \/ SkippedIn(fs) # {} \/ f \in Discarded
    BY <1>4, <1>5, <1>8
  <2> QED
    BY <1>1, <1>3, <1>8, <2>1, NodesKept DEF ContextsOK
<1>9. CASE f \in Skipped
  <2> DEFINE skip == td.skip + 1
  <2>1. u = [v EXCEPT !.skip = skip] /\ skip \in Nat
    BY <1>1, <1>4, <1>6, <1>9
  <2> HIDE DEF skip
  <2>2. /\ u \in ThreadData /\ u.stack = v.stack /\ u.cost = v.cost /\ u.skipCost = v.skipCost
        /\ u.skip = skip /\ u.pending = v.pending /\ u.node = v.node /\ u.tree = v.tree
    BY <1>1, <2>1 DEF ThreadData
  <2>3. mode = "contexts" => ContextsOK(u, gs)
    BY <1>1, <1>8, <1>9, <2>2 DEF ContextsOK
  <2>4. \A g \in Fn : u.pending[g] = td.pending[g]
                        + IF td.skip = 0 /\ f \notin Skipped /\ f = g THEN 1 ELSE 0
    BY <1>1, <1>4, <1>9, <2>2
  <2>5. u.skip = td.skip + IF f \in Skipped THEN 1 ELSE 0
    BY <1>9, <2>2 DEF skip
  <2>6. Range(td.tree) \subseteq Range(u.tree)
    BY <1>1, <2>2
  <2> QED
    BY <1>1, <1>7, <2>2, <2>3, <2>4, <2>5, <2>6 DEF u, v
<1>10. CASE f \notin Skipped /\ td.skip > 0
  <2>1. u = v
    BY <1>6, <1>10
  <2>2. mode = "contexts" => ContextsOK(u, gs)
    BY <1>1, <1>8, <1>10, <2>1 DEF ContextsOK
  <2>3. \A g \in Fn : u.pending[g] = td.pending[g]
                        + IF td.skip = 0 /\ f \notin Skipped /\ f = g THEN 1 ELSE 0
    BY <1>1, <1>4, <1>10, <2>1
  <2>4. u.skip = td.skip + IF f \in Skipped THEN 1 ELSE 0
    BY <1>1, <1>4, <1>10, <2>1
  <2>5. Range(td.tree) \subseteq Range(u.tree)
    BY <1>1, <2>1
  <2> QED
    BY <1>1, <1>7, <2>1, <2>2, <2>3, <2>4, <2>5 DEF u, v
<1>11. CASE f \notin Skipped /\ ~ (td.skip > 0)
  <2> DEFINE pending == [td.pending EXCEPT ![f] = @ + 1]
             w == [v EXCEPT !.pending = pending]
  <2>1. td.skip = 0 /\ SkippedIn(fs) = {}
    BY <1>4, <1>5, <1>11
  <2>2. /\ pending \in [Fn -> Nat]
        /\ \A g \in Fn : pending[g] = td.pending[g] + IF f = g THEN 1 ELSE 0
    BY <1>4
  <2>3. u = EnterContext(w, f)
    BY <1>1, <1>6, <1>11
  <2> HIDE DEF pending
  <2>4. /\ w \in ThreadData /\ w.stack = v.stack /\ w.cost = v.cost /\ w.skipCost = v.skipCost
        /\ w.skip = v.skip /\ w.pending = pending /\ w.node = v.node /\ w.tree = v.tree
    BY <1>1, <2>2 DEF ThreadData
  <2> HIDE DEF w
  <2>5. /\ u \in ThreadData /\ u.stack = w.stack /\ u.cost = w.cost /\ u.skipCost = w.skipCost
        /\ u.skip = w.skip /\ u.pending = w.pending
        /\ Range(w.tree) \subseteq Range(u.tree)
        /\ mode = "contexts" => ContextsOK(u, gs)
    <3>1. CASE mode = "contexts" /\ f \notin Discarded
      <4>1. /\ SlotsOK(w.node, w.tree) /\ TreeOK(w.tree) /\ NodesOK(w.node, fs)
        BY <1>1, <1>3, <2>4, <3>1 DEF ContextsOK
      <4>2. f \in Measured
        BY <1>11, <3>1 DEF Measured
      <4>3. Len(w.stack) = Len(fs) + 1 /\ Len(w.stack) \in 1..MaxDepth
        BY <1>1, <1>2, <2>4
      <4> DEFINE x == EnterContext(w, f)
      <4>4. /\ x \in ThreadData
            /\ x.cost = w.cost /\ x.skip = w.skip /\ x.skipCost = w.skipCost
            /\ x.stack = w.stack /\ x.pending = w.pending
            /\ ContextsOK(x, gs)
            /\ Range(w.tree) \subseteq Range(x.tree)
        BY <1>1, <2>1, <2>4, <3>1, <4>1, <4>2, <4>3, EnterContextKeeps
      <4> QED
        BY <2>3, <4>4
    <3>2. CASE mode # "contexts" \/ f \in Discarded
      <4>1. u = w
        BY <2>3, <3>2 DEF EnterContext
      <4>2. mode = "contexts" => ContextsOK(u, gs)
        BY <1>1, <1>8, <2>4, <3>2, <4>1 DEF ContextsOK
      <4> QED
        BY <2>4, <4>1, <4>2
    <3> QED
      BY <3>1, <3>2
  <2>6. \A g \in Fn : u.pending[g] = td.pending[g]
                        + IF td.skip = 0 /\ f \notin Skipped /\ f = g THEN 1 ELSE 0
    BY <1>11, <2>1, <2>2, <2>4, <2>5
  <2>7. u.skip = td.skip + IF f \in Skipped THEN 1 ELSE 0
    BY <1>1, <1>4, <1>11, <2>4, <2>5
  <2>8. Range(td.tree) \subseteq Range(u.tree)
    BY <1>1, <2>4, <2>5
  <2> QED
    BY <1>1, <1>7, <2>4, <2>5, <2>6, <2>7, <2>8 DEF u, v
<1> QED
  BY <1>9, <1>10, <1>11

-----------------------------------------------------------------------------
(* The steps.                                                              *)

\* Tuples stay where they are while trees grow and threads come.
LEMMA TuplesStay ==
  ASSUME NEW m, NEW ts, NEW ths, NEW ths2, TuplesOK(m, ts, ths),
         DOMAIN ths \subseteq DOMAIN ths2,
         \A t \in DOMAIN ths : Range(ths[t].tree) \subseteq Range(ths2[t].tree)
  PROVE  TuplesOK(m, ts, ths2)
  BY DEF TuplesOK, FiledIn, Known

LEMMA NewThreadOK == \A m : \A first \in FirstNodes : ThreadOK(m, NewThread(first))
<1> SUFFICES ASSUME NEW m, NEW first \in FirstNodes PROVE ThreadOK(m, NewThread(first))
  OBVIOUS
<1> DEFINE td == NewThread(first)
<1>1. /\ td.cost = 0 /\ td.skip = 0 /\ td.skipCost = 0 /\ td.stack = <<>>
      /\ td.node = first /\ td.pending = [f \in Fn |-> 0]
      /\ td.tree = <<>>
      /\ DOMAIN td = ThreadFieldNames /\ td = [x \in ThreadFieldNames |-> td[x]]
  BY DEF NewThread, ThreadFieldNames
<1> HIDE DEF td
<1> DEFINE wild == <<Garbage>>
<1>a. \A d \in 1..MaxDepth : first[d] \in {NoNode, wild}
  BY DEF FirstNodes
<1>b. wild \in Seq(Measured \cup {Garbage}) /\ Len(wild) = 1 /\ IsStray(wild)
  BY DEF IsStray, NoContext
<1> HIDE DEF wild
<1>c. MaxDepth >= 1 => wild \in Context
  BY <1>b, BoundsAssumption, ContextIsSeq
<1>d. /\ first \in [1..MaxDepth -> Context \cup {NoNode}]
      /\ \A d \in 1..MaxDepth : first[d] # NoNode => IsStray(first[d]) /\ Len(first[d]) = 1
  <2>1. \A d \in 1..MaxDepth : first[d] \in Context \cup {NoNode}
    BY <1>a, <1>c, BoundsAssumption
  <2>2. DOMAIN first = 1..MaxDepth /\ first = [d \in 1..MaxDepth |-> first[d]]
    BY DEF FirstNodes
  <2> QED
    BY <1>a, <1>b, <2>1, <2>2
<1>2. td \in ThreadData
  <2>1. td.stack \in Seq(Activation) /\ td.tree \in Seq(Context)
    BY <1>1
  <2>2. td.node \in [1..MaxDepth -> Context \cup {NoNode}] /\ td.pending \in [Fn -> Nat]
    BY <1>1, <1>d
  <2>3. td.cost \in Nat /\ td.skip \in Nat /\ td.skipCost \in Nat
    BY <1>1
  <2>4. DOMAIN td = ThreadFieldNames /\ td = [x \in ThreadFieldNames |-> td[x]]
    BY <1>1
  <2> QED
    BY <2>1, <2>2, <2>3, <2>4, ThreadFrom
<1>3. Len(td.stack) = 0 /\ 0 <= MaxDepth
  BY <1>1, BoundsAssumption
<1> DEFINE fs == Routines(td.stack)
<1>4. fs \in Seq(Fn) /\ Len(fs) = 0
  BY <1>2, <1>3, RoutinesType
<1> HIDE DEF fs
<1>5. SkippedIn(fs) = {} /\ TimedIn(fs) = {} /\ \A f : TimedOf(fs, f) = {}
  BY <1>4 DEF SkippedIn, TimedIn, TimedOf
<1>6. CountsOK(td, fs)
  BY <1>1, <1>5, FS_EmptySet DEF CountsOK
<1>7. ClockOK(td)
  BY <1>1, <1>3 DEF ClockOK
<1>8. ContextsOK(td, fs)
  <2>1. Range(td.tree) = {}
    BY <1>1 DEF Range
  <2>2. SlotsOK(td.node, td.tree)
    <3> SUFFICES ASSUME NEW d \in 1..MaxDepth, first[d] # NoNode
                 PROVE  Known(first[d], td.tree) /\ Len(first[d]) \in 1..d
      BY <1>1 DEF SlotsOK
    <3>1. IsStray(first[d]) /\ Len(first[d]) = 1
      BY <1>d
    <3>2. 1 \in 1..d
      BY BoundsAssumption
    <3> QED
      BY <3>1, <3>2 DEF Known
  <2>3. TreeOK(td.tree)
    BY <2>1 DEF TreeOK
  <2>4. NodesOK(td.node, fs)
    BY <1>5 DEF NodesOK
  <2> QED
    BY <2>2, <2>3, <2>4 DEF ContextsOK
<1> QED
  BY <1>2, <1>3, <1>6, <1>7, <1>8 DEF ThreadOK, fs, td

LEMMA Initially == Init => IInv
<1> SUFFICES ASSUME Init PROVE IInv
  OBVIOUS
<1>1. 0 \in 0..MaxBlocks[mode] /\ 0 \in 0..(ULongSpan - 1)
  BY BoundsAssumption DEF Init
<1>2. DOMAIN threads = {} /\ DOMAIN tuples = {}
  BY DEF Init
<1>3. extra \in [cost : 0..(ULongSpan - 1), skipped : Nat]
  BY <1>1 DEF Init
<1>4. printed \in Seq(Report) /\ 1..Len(printed) = {}
  BY DEF Init
<1>5. TuplesOK(mode, tuples, threads)
  BY <1>2 DEF TuplesOK, IsMap
<1> QED
  BY <1>1, <1>2, <1>3, <1>4, <1>5 DEF IInv, Init

LEMMA StartKeeps ==
  ASSUME IInv, NEW t \in Thread, Start(t)
  PROVE  IInv'
<1>1. PICK first \in FirstNodes :
        /\ t \notin DOMAIN threads
        /\ threads' = [u \in DOMAIN threads \cup {t} |->
                         IF u = t THEN NewThread(first) ELSE threads[u]]
        /\ mode' = mode /\ blocks' = blocks /\ tuples' = tuples /\ extra' = extra
        /\ printed' = printed
  BY DEF Start, Alive
<1>2. /\ DOMAIN threads' = DOMAIN threads \cup {t} /\ threads'[t] = NewThread(first)
      /\ \A u \in DOMAIN threads : threads'[u] = threads[u]
  BY <1>1
<1>3. DOMAIN threads' \subseteq Thread /\ \A u \in DOMAIN threads' : ThreadOK(mode, threads'[u])
  BY <1>2, NewThreadOK DEF IInv
<1>4. TuplesOK(mode, tuples, threads')
  BY <1>2, TuplesStay DEF IInv
<1> QED
  BY <1>1, <1>3, <1>4 DEF IInv

\* A block leaves its thread with r.td, and the tuples with r.tuples.
LEMMA BlockKeeps ==
  ASSUME IInv, NEW t \in Thread, NEW r, Block(t, r), ThreadOK(mode, r.td),
         Range(threads[t].tree) \subseteq Range(r.td.tree), TuplesOK(mode, r.tuples, threads)
  PROVE  IInv'
<1>1. /\ t \in DOMAIN threads /\ blocks < MaxBlocks[mode] /\ blocks' = blocks + 1
      /\ threads' = [threads EXCEPT ![t] = r.td]
      /\ tuples' = r.tuples /\ mode' = mode /\ extra' = extra /\ printed' = printed
  BY DEF Block, Alive
<1>2. blocks' \in 0..MaxBlocks[mode]
  BY <1>1, BoundsAssumption DEF IInv
<1>3. /\ DOMAIN threads' = DOMAIN threads /\ threads'[t] = r.td
      /\ \A u \in DOMAIN threads : u # t => threads'[u] = threads[u]
  BY <1>1
<1>4. \A u \in DOMAIN threads' : ThreadOK(mode, threads'[u])
  BY <1>3 DEF IInv
<1>5. TuplesOK(mode, r.tuples, threads')
  <2>1. \A u \in DOMAIN threads : Range(threads[u].tree) \subseteq Range(threads'[u].tree)
    BY <1>3
  <2> QED
    BY <1>3, <2>1, TuplesStay
<1> QED
  BY <1>1, <1>2, <1>3, <1>4, <1>5 DEF IInv

LEMMA TickedOK ==
  ASSUME IInv, NEW t \in Thread, t \in DOMAIN threads
  PROVE  LET r == Ticked(t)
         IN  Exiting(t, r) /\ r.td.stack = threads[t].stack
<1> DEFINE td == threads[t]
           u == [td EXCEPT !.cost = @ + 1]
<1>1. ThreadOK(mode, td) /\ TuplesOK(mode, tuples, threads)
  BY DEF IInv
<1>2. ThreadOK(mode, u) /\ u.stack = td.stack /\ u.tree = td.tree
  <2> HIDE DEF td
  <2> QED
    BY <1>1, CostGrows
<1>3. Ticked(t) = [td |-> u, tuples |-> tuples]
  BY DEF Ticked
<1> HIDE DEF u
<1>4. Ticked(t).td = u /\ Ticked(t).tuples = tuples
  BY <1>3
<1> QED
  BY <1>1, <1>2, <1>3, <1>4 DEF Exiting

LEMMA ContinueKeeps ==
  ASSUME IInv, NEW t \in Thread, NEW n \in 0..MaxDepth, NEW sizes \in [1..n -> Size],
         Continue(t, n, sizes)
  PROVE  IInv'
<1> DEFINE r == Ticked(t)
           s == ExitMany(t, r, n, sizes)
<1>1. t \in DOMAIN threads /\ n <= Len(threads[t].stack) /\ Block(t, s) /\ n \in Nat
  BY BoundsAssumption DEF Continue, Alive
<1>2. Exiting(t, r) /\ r.td.stack = threads[t].stack
  BY <1>1, TickedOK
<1> HIDE DEF r
<1>3. Exiting(t, s)
  BY <1>1, <1>2, ExitsKeep
<1> HIDE DEF s
<1> QED
  BY <1>1, <1>3, BlockKeeps DEF Exiting

LEMMA CallKeeps ==
  ASSUME IInv, NEW t \in Thread, NEW f \in Fn, Call(t, f)
  PROVE  IInv'
<1> DEFINE r == Ticked(t)
           s == [r EXCEPT !.td = function_enter(@, f)]
<1>1. t \in DOMAIN threads /\ Len(threads[t].stack) < MaxDepth /\ Block(t, s)
  BY DEF Call, Alive
<1>2. Exiting(t, r) /\ r.td.stack = threads[t].stack
  BY <1>1, TickedOK
<1> HIDE DEF r
<1> DEFINE td == r.td
           u == function_enter(td, f)
<1>3. ThreadOK(mode, td) /\ td.tree = threads[t].tree /\ TuplesOK(mode, r.tuples, threads)
      /\ r = [td |-> td, tuples |-> r.tuples] /\ Len(td.stack) < MaxDepth
  BY <1>1, <1>2 DEF Exiting
<1>4. s.td = u /\ s.tuples = r.tuples
  <2> HIDE DEF u
  <2>1. s = [r EXCEPT !.td = u]
    BY DEF u
  <2> HIDE DEF s, td
  <2> QED
    BY <1>3, <2>1
<1> HIDE DEF s, td
<1>5. ThreadOK(mode, u) /\ Range(td.tree) \subseteq Range(u.tree)
  BY <1>3, EnterKeeps
<1> QED
  BY <1>1, <1>3, <1>4, <1>5, BlockKeeps

LEMMA OneSize == \A size \in Size : <<size>> \in [1..1 -> Size]
  OBVIOUS

LEMMA CallResolvedKeeps ==
  ASSUME IInv, NEW t \in Thread, NEW f \in Fn, NEW size \in Size, CallResolved(t, f, size)
  PROVE  IInv'
<1> DEFINE q == Ticked(t)
           r == ExitMany(t, q, 1, <<size>>)
           s == [r EXCEPT !.td = function_enter(@, f)]
<1>1. t \in DOMAIN threads /\ threads[t].stack # <<>> /\ Block(t, s)
  BY DEF CallResolved, Alive
<1>2. Exiting(t, q) /\ q.td.stack = threads[t].stack
  BY <1>1, TickedOK
<1>3. /\ Len(threads[t].stack) \in Nat /\ 1 <= Len(threads[t].stack)
      /\ Len(threads[t].stack) <= MaxDepth
  <2>1. ThreadOK(mode, threads[t])
    BY <1>1 DEF IInv
  <2>2. Len(threads[t].stack) \in 1..MaxDepth
    BY <1>1, <2>1, TopOf
  <2> QED
    BY <2>2, BoundsAssumption
<1> HIDE DEF q
<1>4. Exiting(t, r) /\ Len(r.td.stack) = Len(threads[t].stack) - 1
  <2>1. \A n \in Nat : \A sizes \in [1..n -> Size] : n <= Len(q.td.stack) =>
          /\ Exiting(t, ExitMany(t, q, n, sizes))
          /\ Len(ExitMany(t, q, n, sizes).td.stack) = Len(q.td.stack) - n
    BY <1>1, <1>2, ExitsKeep
  <2>2. 1 \in Nat /\ 1 <= Len(q.td.stack) /\ <<size>> \in [1..1 -> Size]
    BY <1>2, <1>3, OneSize
  <2> QED
    BY <1>2, <2>1, <2>2
<1> HIDE DEF r
<1> DEFINE td == r.td
           u == function_enter(td, f)
<1>5. ThreadOK(mode, td) /\ td.tree = threads[t].tree /\ TuplesOK(mode, r.tuples, threads)
      /\ r = [td |-> td, tuples |-> r.tuples] /\ Len(td.stack) < MaxDepth
  BY <1>3, <1>4, BoundsAssumption DEF Exiting
<1>6. s.td = u /\ s.tuples = r.tuples
  <2> HIDE DEF u
  <2>1. s = [r EXCEPT !.td = u]
    BY DEF u
  <2> HIDE DEF s, td
  <2> QED
    BY <1>5, <2>1
<1> HIDE DEF s, td
<1>7. ThreadOK(mode, u) /\ Range(td.tree) \subseteq Range(u.tree)
  BY <1>5, EnterKeeps
<1> QED
  BY <1>1, <1>5, <1>6, <1>7, BlockKeeps

LEMMA Modulo ==
  ASSUME NEW x \in Int
  PROVE  x % ULongSpan \in 0..(ULongSpan - 1)
<1>1. ULongSpan \in Nat \ {0}
  BY BoundsAssumption
<1> QED
  BY <1>1

\* What thread_exit prints, and keeps in extra_cost for the next thread.
LEMMA ReportFields ==
  ASSUME IInv, NEW td, ThreadOK(mode, td)
  PROVE  /\ CostOfThread(td) \in 0..(ULongSpan - 1) /\ td.skipCost \in Nat
         /\ ExtraWith(td) \in [cost : 0..(ULongSpan - 1), skipped : Nat]
<1>1. td.cost \in Nat /\ td.skipCost \in Nat
  BY ThreadFields DEF ThreadOK
<1>2. CostOfThread(td) \in 0..(ULongSpan - 1)
  <2>1. Now(td) - td.skipCost \in Int
    BY <1>1 DEF Now
  <2> QED
    BY <2>1, Modulo DEF CostOfThread
<1>3. extra.cost \in 0..(ULongSpan - 1) /\ extra.skipped \in Nat
  BY DEF IInv
<1>4. (extra.cost + CostOfThread(td)) % ULongSpan \in 0..(ULongSpan - 1)
  <2>1. extra.cost + CostOfThread(td) \in Int
    BY <1>2, <1>3, BoundsAssumption
  <2> QED
    BY <2>1, Modulo
<1>5. extra.skipped + td.skipCost \in Nat
  BY <1>1, <1>3
<1> QED
  BY <1>1, <1>2, <1>4, <1>5 DEF ExtraWith

LEMMA ThreadExitKeeps ==
  ASSUME IInv, NEW t \in Thread, NEW n \in Nat, NEW sizes \in [1..n -> Size], ThreadExit(t, n, sizes)
  PROVE  IInv'
<1> DEFINE q == [td |-> threads[t], tuples |-> tuples]
           r == ExitMany(t, q, n, sizes)
           total == IF mode = "single" THEN ExtraWith(r.td)
                    ELSE [cost |-> CostOfThread(r.td), skipped |-> r.td.skipCost]
           last == mode # "single" \/ Alive = {t}
           mine == {k \in DOMAIN r.tuples : last /\ k.owner = Owner(t)}
           report == [k |-> total.cost, skipped |-> total.skipped,
                      tuples |-> OwnedBy(r.tuples, Owner(t)), tree |-> r.td.tree]
<1>1. t \in DOMAIN threads /\ n = Len(threads[t].stack)
  BY DEF ThreadExit, Alive
<1>2. /\ threads' = Without(threads, {t})
      /\ tuples' = Without(r.tuples, mine)
      /\ extra' = IF mode = "single" THEN total ELSE extra
      /\ printed' = IF ~last THEN printed ELSE Append(printed, report)
      /\ mode' = mode /\ blocks' = blocks
  BY DEF ThreadExit
<1>3. Exiting(t, q) /\ q.td.stack = threads[t].stack /\ Len(threads[t].stack) \in Nat
  <2>1. q.td = threads[t] /\ q.tuples = tuples
    OBVIOUS
  <2>2. ThreadOK(mode, threads[t]) /\ TuplesOK(mode, tuples, threads)
    BY <1>1 DEF IInv
  <2>3. Len(threads[t].stack) \in Nat
    BY <2>2, ThreadFields DEF ThreadOK
  <2> QED
    BY <2>1, <2>2, <2>3 DEF Exiting
<1> HIDE DEF q
<1>4. Exiting(t, r)
  <2>1. n <= Len(q.td.stack)
    BY <1>1, <1>3
  <2> QED
    BY <1>1, <1>3, <2>1, ExitsKeep
<1> HIDE DEF r
<1>5. /\ ThreadOK(mode, r.td) /\ r.td.tree = threads[t].tree
      /\ TuplesOK(mode, r.tuples, threads)
  BY <1>4 DEF Exiting
<1>6. total \in [cost : 0..(ULongSpan - 1), skipped : Nat]
  <2> DEFINE td == r.td
  <2>1. ThreadOK(mode, td)
    BY <1>5
  <2> HIDE DEF td
  <2>2. /\ CostOfThread(td) \in 0..(ULongSpan - 1) /\ td.skipCost \in Nat
        /\ ExtraWith(td) \in [cost : 0..(ULongSpan - 1), skipped : Nat]
    BY <2>1, ReportFields
  <2> QED
    BY <2>2 DEF td
<1> HIDE DEF total
<1>7. extra' \in [cost : 0..(ULongSpan - 1), skipped : Nat]
  BY <1>2, <1>6 DEF IInv
<1>8. /\ DOMAIN threads' = DOMAIN threads \ {t}
      /\ \A u \in DOMAIN threads' : threads'[u] = threads[u]
  BY <1>2 DEF Without
<1>9. /\ DOMAIN threads' \subseteq Thread
      /\ \A u \in DOMAIN threads' : ThreadOK(mode, threads'[u])
  BY <1>8 DEF IInv
<1>10. /\ DOMAIN tuples' = DOMAIN r.tuples \ mine
       /\ \A k \in DOMAIN tuples' : tuples'[k] = r.tuples[k]
  BY <1>2 DEF Without
<1>11. TuplesOK(mode, tuples', threads')
  <2>1. IsMap(tuples', Key, Tuple) /\ \A k \in DOMAIN tuples' : MergeAssertions(tuples'[k])
    BY <1>5, <1>10 DEF TuplesOK, IsMap
  <2>2. ASSUME mode = "contexts", NEW k \in DOMAIN tuples'
        PROVE  k.owner \in DOMAIN threads' /\ FiledIn(k, threads'[k.owner].tree)
    <3>1. last /\ Owner(t) = t
      BY <2>2 DEF Owner
    <3>2. k \in DOMAIN r.tuples /\ k.owner # t
      BY <1>10, <3>1
    <3>3. k.owner \in DOMAIN threads /\ FiledIn(k, threads[k.owner].tree)
      BY <1>5, <2>2, <3>2 DEF TuplesOK
    <3> QED
      BY <1>8, <3>2, <3>3
  <2> QED
    BY <2>1, <2>2 DEF TuplesOK
<1> DEFINE owned == OwnedBy(r.tuples, Owner(t))
<1>12. \A p \in owned : \E k \in DOMAIN r.tuples : k.owner = Owner(t) /\ p = <<k, r.tuples[k]>>
  BY DEF OwnedBy
<1>13. ASSUME NEW p \in owned
       PROVE  /\ p \in Key \X Tuple /\ MergeAssertions(p[2])
              /\ mode = "contexts" => FiledIn(p[1], r.td.tree)
  <2>1. PICK k \in DOMAIN r.tuples : k.owner = Owner(t) /\ p = <<k, r.tuples[k]>>
    BY <1>12, <1>13
  <2>2. k \in Key /\ r.tuples[k] \in Tuple /\ MergeAssertions(r.tuples[k])
    BY <1>5, <2>1 DEF TuplesOK, IsMap
  <2>3. p[1] = k /\ p[2] = r.tuples[k] /\ p \in Key \X Tuple
    BY <2>1, <2>2
  <2>4. ASSUME mode = "contexts" PROVE FiledIn(k, r.td.tree)
    <3>1. k.owner = t
      BY <2>1, <2>4 DEF Owner
    <3> QED
      BY <1>5, <2>1, <2>4, <3>1 DEF TuplesOK
  <2> QED
    BY <2>2, <2>3, <2>4
<1> HIDE DEF owned
<1>14. report = [k |-> total.cost, skipped |-> total.skipped, tuples |-> owned,
                 tree |-> r.td.tree]
  BY DEF owned
<1>15. r.td.tree \in Seq(Context) /\ (mode = "contexts" => TreeOK(r.td.tree))
  BY <1>5, ThreadFields DEF ThreadOK, ContextsOK
<1> DEFINE tree == r.td.tree
<1> HIDE DEF report, tree
<1>16. /\ report.k \in 0..(ULongSpan - 1) /\ report.skipped \in Nat
       /\ report.tuples = owned /\ report.tree = tree /\ report \in Report
  <2>1. tree \in Seq(Context) /\ owned \in SUBSET (Key \X Tuple)
    BY <1>13, <1>15 DEF tree
  <2>2. total.cost \in 0..(ULongSpan - 1) /\ total.skipped \in Nat
    BY <1>6
  <2>3. report = [k |-> total.cost, skipped |-> total.skipped, tuples |-> owned,
                  tree |-> tree]
    BY <1>14 DEF tree
  <2> QED
    BY <2>1, <2>2, <2>3 DEF Report
<1>17. ReportOK(mode, report)
  BY <1>13, <1>15, <1>16 DEF ReportOK, tree
<1>18. printed' \in Seq(Report) /\ \A i \in 1..Len(printed') : ReportOK(mode, printed'[i])
  <2>1. printed \in Seq(Report) /\ \A i \in 1..Len(printed) : ReportOK(mode, printed[i])
    BY DEF IInv
  <2>2. CASE ~ last
    BY <1>2, <2>1, <2>2
  <2>3. CASE last
    <3>1. printed' = Append(printed, report)
      BY <1>2, <2>3
    <3>2. /\ printed' \in Seq(Report) /\ Len(printed') = Len(printed) + 1
          /\ \A i \in 1..Len(printed) : printed'[i] = printed[i]
          /\ printed'[Len(printed) + 1] = report
      BY <1>16, <2>1, <3>1, AppendProperties
    <3>3. \A i \in 1..(Len(printed) + 1) : i \in 1..Len(printed) \/ i = Len(printed) + 1
      BY <2>1
    <3> QED
      BY <1>17, <2>1, <3>2, <3>3
  <2> QED
    BY <2>2, <2>3
<1> QED
  BY <1>2, <1>7, <1>9, <1>11, <1>18 DEF IInv

LEMMA NextKeeps == IInv /\ [Next]_vars => IInv'
<1> SUFFICES ASSUME IInv, [Next]_vars PROVE IInv'
  OBVIOUS
<1>1. ASSUME NEW t \in Thread, Start(t) PROVE IInv'
  BY <1>1, StartKeeps
<1>2. ASSUME NEW t \in Thread, NEW f \in Fn, Call(t, f) PROVE IInv'
  BY <1>2, CallKeeps
<1>3. ASSUME NEW t \in Thread, NEW n \in 0..MaxDepth, NEW sizes \in [1..n -> Size],
             Continue(t, n, sizes)
      PROVE  IInv'
  BY <1>3, ContinueKeeps
<1>4. ASSUME NEW t \in Thread, NEW size \in Size, NEW f \in Fn, CallResolved(t, f, size)
      PROVE  IInv'
  BY <1>4, CallResolvedKeeps
<1>5. ASSUME NEW t \in Thread, NEW n \in 0..MaxDepth, NEW sizes \in [1..n -> Size],
             ThreadExit(t, n, sizes)
      PROVE  IInv'
  <2>1. n \in Nat
    BY BoundsAssumption
  <2> QED
    BY <1>5, <2>1, ThreadExitKeeps
<1>6. CASE UNCHANGED vars
  BY <1>6 DEF vars, IInv
<1> QED
  BY <1>1, <1>2, <1>3, <1>4, <1>5, <1>6 DEF Next

-----------------------------------------------------------------------------
(* The theorems.                                                           *)

\* The inductive invariant of function_enter, function_exit and generate_report.
THEOREM Invariance == Spec => []IInv
  BY Initially, NextKeeps, PTL DEF Spec

\* Clocks are never set back before the start of an activation, counters never fall below
\* zero, and no context is deeper than the stack it stands for: everything has its type.
THEOREM TypeCorrect == Spec => []TypeOK
<1>1. IInv => TypeOK
  <2> SUFFICES ASSUME IInv PROVE TypeOK
    OBVIOUS
  <2>1. IsMap(threads, Thread, ThreadData) /\ \A t \in Alive : Len(threads[t].stack) <= MaxDepth
    BY DEF IInv, ThreadOK, IsMap, Alive
  <2>2. IsMap(tuples, Key, Tuple)
    BY DEF IInv, TuplesOK
  <2>3. ASSUME NEW i \in DOMAIN printed
        PROVE  /\ DOMAIN printed[i] = {"k", "skipped", "tuples", "tree"}
               /\ printed[i].k \in 0..(ULongSpan - 1)
               /\ \A p \in printed[i].tuples : p[1] \in Key /\ p[2] \in Tuple
    <3>1. printed[i] \in Report
      BY DEF IInv
    <3>2. \A p \in Key \X Tuple : p[1] \in Key /\ p[2] \in Tuple
      OBVIOUS
    <3> QED
      BY <3>1, <3>2 DEF Report
  <2> QED
    BY <2>1, <2>2, <2>3 DEF IInv, TypeOK
<1> QED
  BY <1>1, Invariance, PTL

LEMMA StacksAre ==
  ASSUME NEW t \in Thread, t \in Alive, ThreadOK(mode, threads[t])
  PROVE  /\ Stacks[t] = Routines(threads[t].stack) /\ Stacks[t] \in Seq(Fn)
         /\ DOMAIN Stacks[t] = 1..Len(Stacks[t])
         /\ Timed(t) = TimedIn(Stacks[t])
<1> DEFINE st == threads[t].stack
<1>1. threads[t] \in ThreadData
  BY DEF ThreadOK
<1>2. st \in Seq(Activation) /\ DOMAIN st = 1..Len(st)
  <2>1. st \in Seq(Activation)
    BY <1>1, ThreadFields
  <2> QED
    BY <2>1
<1>3. Stacks[t] = [i \in DOMAIN st |-> st[i].fn]
  BY DEF Stacks
<1>4. Stacks[t] = Routines(st)
  BY <1>2, <1>3 DEF Routines
<1>5. Stacks[t] \in Seq(Fn)
  BY <1>1, <1>4, RoutinesType
<1>6. DOMAIN Stacks[t] = 1..Len(Stacks[t])
  BY <1>5
<1> QED
  BY <1>4, <1>5, <1>6 DEF Timed, TimedIn

\* skip and recursion_pending are what the stack says, after any interleaving of calls,
\* returns and exits of threads (function.c).
THEOREM CountersAgree == Spec => []CountersMatchStack
<1>1. IInv => CountersMatchStack
  <2> SUFFICES ASSUME IInv, NEW t \in Alive
               PROVE  /\ threads[t].skip
                           = Cardinality({i \in DOMAIN Stacks[t] : Stacks[t][i] \in Skipped})
                      /\ \A f \in Fn : threads[t].pending[f]
                                         = Cardinality({i \in Timed(t) : Stacks[t][i] = f})
    BY DEF CountersMatchStack
  <2>1. t \in Thread /\ ThreadOK(mode, threads[t])
    BY DEF IInv, Alive
  <2> DEFINE fs == Stacks[t]
  <2>2. /\ fs = Routines(threads[t].stack) /\ DOMAIN fs = 1..Len(fs) /\ Timed(t) = TimedIn(fs)
    BY <2>1, StacksAre
  <2>3. CountsOK(threads[t], fs)
    BY <2>1, <2>2 DEF ThreadOK
  <2> HIDE DEF fs
  <2>4. /\ {i \in DOMAIN fs : fs[i] \in Skipped} = SkippedIn(fs)
        /\ \A f : {i \in Timed(t) : fs[i] = f} = TimedOf(fs, f)
    BY <2>2 DEF SkippedIn, TimedOf
  <2>5. /\ threads[t].skip = Cardinality({i \in DOMAIN fs : fs[i] \in Skipped})
        /\ \A f \in Fn : threads[t].pending[f] = Cardinality({i \in Timed(t) : fs[i] = f})
    BY <2>3, <2>4 DEF CountsOK
  <2> QED
    BY <2>5 DEF fs
<1> QED
  BY <1>1, Invariance, PTL

\* Every activation is filed under the chain of its callers, unless one is discarded
\* (parent_CCT and function_enter).
THEOREM FiledUnderCallers == Spec => []ContextsAreCallers
<1>1. IInv => ContextsAreCallers
  <2> SUFFICES ASSUME IInv, mode = "contexts", NEW t \in Alive, NEW i \in Timed(t),
                      \A j \in 1..i : Stacks[t][j] \notin Discarded
               PROVE  threads[t].node[i] = SubSeq(Stacks[t], 1, i)
    BY DEF ContextsAreCallers
  <2>1. t \in Thread /\ ThreadOK(mode, threads[t])
    BY DEF IInv, Alive
  <2> DEFINE fs == Stacks[t]
             sub == SubSeq(fs, 1, i)
  <2>2. /\ fs = Routines(threads[t].stack) /\ fs \in Seq(Fn) /\ Timed(t) = TimedIn(fs)
    BY <2>1, StacksAre
  <2>3. NodesOK(threads[t].node, fs)
    BY <2>1, <2>2 DEF ThreadOK, ContextsOK
  <2>4. \A j \in 1..i : fs[j] \notin Discarded
    OBVIOUS
  <2> HIDE DEF fs
  <2>5. i \in 1..Len(fs) /\ i \in Nat /\ Len(fs) \in Nat
    BY <2>2 DEF TimedIn
  <2>6. threads[t].node[i] = [j \in 1..i |-> fs[j]]
    BY <2>2, <2>3, <2>4 DEF NodesOK
  <2>7. sub = [j \in 1..i |-> fs[j]]
    BY <2>2, <2>5
  <2> QED
    BY <2>6, <2>7 DEF fs
<1> QED
  BY <1>1, Invariance, PTL

\* A report defines the contexts that it names, but for those that hang from the node of a
\* slot that nobody has set, and the parents of those that it defines (generate_report,
\* cct.c and resize_stack).
THEOREM ReportsComplete == Spec => []ReportsDefineTheirContexts
<1>1. IInv => ReportsDefineTheirContexts
  <2> SUFFICES ASSUME IInv, mode = "contexts", NEW i \in DOMAIN printed
               PROVE  /\ \A p \in printed[i].tuples :
                           /\ Last(p[1].context) = p[1].fn
                           /\ p[1].context \in Range(printed[i].tree)
                                <=> ~ IsStray(p[1].context)
                      /\ \A c \in Range(printed[i].tree) :
                           Front(c) \in Range(printed[i].tree) \cup {NoContext}
    BY DEF ReportsDefineTheirContexts
  <2>1. ReportOK(mode, printed[i])
    BY DEF IInv
  <2> QED
    BY <2>1 DEF ReportOK, FiledIn, TreeOK, Known
<1> QED
  BY <1>1, Invariance, PTL

-----------------------------------------------------------------------------
(* What a stack of activations has cost so far.                            *)

\* The reading of the clock: it stands still above the timed activations.
Timing(st) == Cardinality(TimedIn(Routines(st)))
Reading(st, now) == IF Timing(st) < Len(st) THEN st[Timing(st) + 1].start ELSE now

LiveOf(st, now) ==
  [i \in 1..Len(st) |-> (IF i < Len(st) THEN st[i + 1].start ELSE Reading(st, now))
                          - st[i].start - st[i].children]
SelfOf(st, now, f) == Total(LiveOf(st, now), TimedOf(Routines(st), f))

FirstOf(st, f) ==
  {i \in TimedOf(Routines(st), f) : \A j \in 1..(i - 1) : Routines(st)[j] # f}
SinceOf(st, now) == [i \in 1..Len(st) |-> Reading(st, now) - st[i].start]
RealOf(st, now, f) == Total(SinceOf(st, now), FirstOf(st, f))

\* The routines and numbers of a stack.
LEMMA StackFacts ==
  ASSUME NEW st \in Seq(Activation)
  PROVE  /\ Routines(st) \in Seq(Fn) /\ Len(Routines(st)) = Len(st) /\ Len(st) \in Nat
         /\ \A i \in 1..Len(st) : /\ Routines(st)[i] = st[i].fn /\ st[i].fn \in Fn
                                  /\ st[i].start \in Nat /\ st[i].children \in Nat
<1>1. \A a \in Activation : a.fn \in Fn /\ a.start \in Nat /\ a.children \in Nat
  BY DEF Activation
<1>2. \A i \in 1..Len(st) : st[i] \in Activation
  OBVIOUS
<1> DEFINE fs == [i \in 1..Len(st) |-> st[i].fn]
<1>3. Len(st) \in Nat
  OBVIOUS
<1>4. fs \in [1..Len(st) -> Fn]
  BY <1>1, <1>2
<1>5. fs \in Seq(Fn) /\ Len(fs) = Len(st)
  BY <1>3, <1>4
<1> QED
  BY <1>1, <1>2, <1>3, <1>5 DEF Routines

\* The timed activations are those below the first skipped one.
LEMMA TimedBelow ==
  ASSUME NEW fs \in Seq(Fn)
  PROVE  LET n == Cardinality(TimedIn(fs))
         IN  /\ n \in 0..Len(fs) /\ TimedIn(fs) = 1..n
             /\ n = Len(fs) <=> SkippedIn(fs) = {}
             /\ n < Len(fs) => fs[n + 1] \in Skipped
<1> DEFINE S == SkippedIn(fs)
<1>1. Len(fs) \in Nat /\ S \in SUBSET Nat
  BY DEF SkippedIn
<1>2. CASE S = {}
  <2>1. TimedIn(fs) = 1..Len(fs)
    BY <1>2 DEF SkippedIn, TimedIn
  <2>2. Cardinality(1..Len(fs)) = Len(fs)
    <3> DEFINE n == Len(fs)
    <3>1. n \in Nat /\ 1 \in Int
      BY <1>1
    <3> HIDE DEF n
    <3>2. Cardinality(1..n) = IF 1 > n THEN 0 ELSE n - 1 + 1
      BY <3>1, FS_Interval
    <3>3. Cardinality(1..n) = n
      BY <3>1, <3>2
    <3> QED
      BY <3>3 DEF n
  <2> QED
    BY <1>1, <1>2, <2>1, <2>2
<1>3. CASE S # {}
  <2>1. PICK k \in S : \A y \in S : k <= y
    <3> HIDE DEF S
    <3> QED
      BY <1>1, <1>3, LeastNatural
  <2>2. k \in 1..Len(fs) /\ fs[k] \in Skipped
    BY <2>1 DEF SkippedIn
  <2>3. \A i \in 1..Len(fs) : i \in TimedIn(fs) <=> i < k
    BY <1>1, <2>1, <2>2 DEF SkippedIn, TimedIn
  <2>4. TimedIn(fs) = 1..(k - 1)
    BY <1>1, <2>2, <2>3 DEF TimedIn
  <2>5. Cardinality(1..(k - 1)) = k - 1
    BY <2>2, FS_Interval
  <2> QED
    BY <1>1, <1>3, <2>2, <2>4, <2>5
<1> QED
  BY <1>2, <1>3

\* Clock readings and live costs are numbers.
LEMMA LiveFacts ==
  ASSUME NEW st \in Seq(Activation), NEW now \in Nat
  PROVE  /\ Reading(st, now) \in Nat
         /\ \A i \in 1..Len(st) : LiveOf(st, now)[i] \in Int /\ SinceOf(st, now)[i] \in Int
         /\ \A f : /\ IsFiniteSet(TimedOf(Routines(st), f))
                   /\ TimedOf(Routines(st), f) \subseteq 1..Len(st)
                   /\ FirstOf(st, f) \subseteq TimedOf(Routines(st), f)
                   /\ IsFiniteSet(FirstOf(st, f))
         /\ Timing(st) \in 0..Len(st) /\ TimedIn(Routines(st)) = 1..Timing(st)
         /\ Timing(st) = Len(st) <=> SkippedIn(Routines(st)) = {}
<1> DEFINE fs == Routines(st)
<1>1. /\ Routines(st) \in Seq(Fn) /\ Len(Routines(st)) = Len(st) /\ Len(st) \in Nat
      /\ \A i \in 1..Len(st) : st[i].start \in Nat /\ st[i].children \in Nat
  BY StackFacts
<1>2. /\ Timing(st) \in 0..Len(st) /\ TimedIn(Routines(st)) = 1..Timing(st)
      /\ Timing(st) = Len(st) <=> SkippedIn(Routines(st)) = {}
  BY <1>1, TimedBelow DEF Timing
<1>3. Reading(st, now) \in Nat
  BY <1>1, <1>2 DEF Reading
<1>4. \A i \in 1..Len(st) : LiveOf(st, now)[i] \in Int /\ SinceOf(st, now)[i] \in Int
  BY <1>1, <1>3 DEF LiveOf, SinceOf
<1>5. ASSUME NEW f
      PROVE  /\ IsFiniteSet(TimedOf(Routines(st), f))
             /\ TimedOf(Routines(st), f) \subseteq 1..Len(st)
             /\ FirstOf(st, f) \subseteq TimedOf(Routines(st), f)
             /\ IsFiniteSet(FirstOf(st, f))
  <2>1. TimedOf(Routines(st), f) \subseteq 1..Len(st) /\ FirstOf(st, f) \subseteq TimedOf(Routines(st), f)
    BY <1>1 DEF TimedOf, TimedIn, FirstOf
  <2>2. IsFiniteSet(1..Len(st))
    BY <1>1, FS_Interval
  <2> QED
    BY <2>1, <2>2, FS_Subset
<1> QED
  BY <1>2, <1>3, <1>4, <1>5

\* The real cost is that of the outermost activation.
LEMMA RealIs ==
  ASSUME NEW st \in Seq(Activation), NEW now \in Nat, NEW f
  PROVE  /\ RealOf(st, now, f) \in Int
         /\ FirstOf(st, f) = {} <=> TimedOf(Routines(st), f) = {}
         /\ FirstOf(st, f) = {} => RealOf(st, now, f) = 0
         /\ \A i \in FirstOf(st, f) : RealOf(st, now, f) = Reading(st, now) - st[i].start
<1> DEFINE T == TimedOf(Routines(st), f)
           F == FirstOf(st, f)
           g == SinceOf(st, now)
<1>1. /\ IsFiniteSet(F) /\ F \subseteq T /\ T \subseteq 1..Len(st) /\ T \in SUBSET Nat
      /\ \A i \in 1..Len(st) : g[i] \in Int
  <2>1. /\ IsFiniteSet(F) /\ F \subseteq T /\ T \subseteq 1..Len(st)
    BY LiveFacts
  <2>2. \A i \in 1..Len(st) : g[i] \in Int
    BY LiveFacts
  <2>3. 1..Len(st) \subseteq Nat
    OBVIOUS
  <2> HIDE DEF F, T, g
  <2> QED
    BY <2>1, <2>2, <2>3
<1>2. T # {} => F # {}
  <2> SUFFICES ASSUME T # {} PROVE F # {}
    OBVIOUS
  <2>1. PICK k \in T : \A y \in T : k <= y
    <3> HIDE DEF T
    <3> QED
      BY <1>1, LeastNatural
  <2>2. ASSUME NEW j \in 1..(k - 1), Routines(st)[j] = f
        PROVE  FALSE
    <3>1. k \in TimedIn(Routines(st)) /\ k \in Nat /\ j \in 1..Len(Routines(st))
      BY <1>1, <2>1 DEF TimedOf, TimedIn
    <3>2. j \in T
      BY <2>2, <3>1 DEF TimedOf, TimedIn
    <3> QED
      BY <1>1, <2>1, <3>1, <3>2
  <2> QED
    BY <2>1, <2>2 DEF FirstOf
<1>3. \A i, j \in F : i = j
  <2> SUFFICES ASSUME NEW i \in F, NEW j \in F, i < j PROVE FALSE
    BY <1>1
  <2> QED
    BY <1>1 DEF FirstOf, TimedOf
<1>4. Total(g, {}) = 0 /\ Total(g, F) \in Int
      /\ \A i \in F : Total(g, F) = g[i] + Total(g, F \ {i})
  <2>1. Integral(g, F)
    BY <1>1 DEF Integral
  <2> HIDE DEF F, g
  <2> QED
    BY <1>1, <2>1, TotalSteps
<1>5. ASSUME NEW i \in F
      PROVE  Total(g, F) = g[i]
  <2>1. F \ {i} = {}
    BY <1>3
  <2>2. g[i] \in Int
    BY <1>1
  <2> HIDE DEF F, g
  <2> QED
    BY <1>4, <2>1, <2>2
<1>6. \A i \in F : g[i] = Reading(st, now) - st[i].start
  BY <1>1 DEF SinceOf
<1> HIDE DEF g
<1> QED
  BY <1>1, <1>2, <1>4, <1>5, <1>6 DEF RealOf, g

-----------------------------------------------------------------------------
(* What ticks, calls and exits do to these costs.                          *)

\* What the activations of a routine have cost is a number.
LEMMA CostsType ==
  ASSUME NEW st \in Seq(Activation), NEW now \in Nat, NEW f
  PROVE  SelfOf(st, now, f) \in Int /\ RealOf(st, now, f) \in Int
<1> DEFINE T == TimedOf(Routines(st), f)
           a == LiveOf(st, now)
<1>1. IsFiniteSet(T) /\ T \subseteq 1..Len(st) /\ \A i \in 1..Len(st) : a[i] \in Int
  BY LiveFacts
<1>2. T \in SUBSET T /\ Integral(a, T)
  BY <1>1 DEF Integral
<1>3. RealOf(st, now, f) \in Int
  BY RealIs
<1> HIDE DEF a, T
<1>4. Total(a, T) \in Int
  BY <1>1, <1>2, TotalSteps
<1> QED
  BY <1>3, <1>4 DEF SelfOf, a, T

\* n units of time are self cost of the top and real cost of all, unless a skipped
\* routine is on the stack.
Ticks(st, now, n, f) ==
  LET runs == SkippedIn(Routines(st)) = {}
  IN  /\ Reading(st, now + n) = Reading(st, now) + IF runs THEN n ELSE 0
      /\ SelfOf(st, now + n, f)
           = SelfOf(st, now, f)
               + IF runs /\ st # <<>> /\ st[Len(st)].fn = f THEN n ELSE 0
      /\ RealOf(st, now + n, f)
           = RealOf(st, now, f)
               + IF runs /\ TimedOf(Routines(st), f) # {} THEN n ELSE 0

LEMMA CostsTick ==
  ASSUME NEW st \in Seq(Activation), NEW now \in Nat, NEW n \in Nat, NEW f
  PROVE  Ticks(st, now, n, f)
<1> DEFINE runs == SkippedIn(Routines(st)) = {}
           T == TimedOf(Routines(st), f)
           L == Len(st)
           a == LiveOf(st, now)
           b == LiveOf(st, now + n)
<1>0. Reading(st, now + n) \in Nat /\ \A i \in 1..L : b[i] \in Int
  <2> DEFINE later == now + n
  <2>1. later \in Nat
    OBVIOUS
  <2> HIDE DEF later
  <2>2. Reading(st, later) \in Nat /\ \A i \in 1..L : LiveOf(st, later)[i] \in Int
    BY <2>1, LiveFacts
  <2> QED
    BY <2>2 DEF later
<1>1. /\ Reading(st, now) \in Nat
      /\ \A i \in 1..L : a[i] \in Int
      /\ IsFiniteSet(T) /\ T \subseteq 1..L
      /\ Timing(st) \in 0..L /\ TimedIn(Routines(st)) = 1..Timing(st)
      /\ Timing(st) = L <=> runs
  BY LiveFacts
<1>2. /\ L \in Nat
      /\ \A i \in 1..L : /\ Routines(st)[i] = st[i].fn
                         /\ st[i].start \in Nat /\ st[i].children \in Nat
  BY StackFacts
<1>3. Reading(st, now + n) = Reading(st, now) + IF runs THEN n ELSE 0
  BY <1>1, <1>2 DEF Reading
<1>4. RealOf(st, now + n, f) = RealOf(st, now, f) + IF runs /\ T # {} THEN n ELSE 0
  <2>1. CASE FirstOf(st, f) = {}
    <3>1. RealOf(st, now + n, f) = 0 /\ RealOf(st, now, f) = 0 /\ T = {}
      BY <2>1, RealIs
    <3> DEFINE x == RealOf(st, now + n, f)
               y == RealOf(st, now, f)
    <3>2. x = 0 /\ y = 0
      BY <3>1
    <3>3. (IF runs /\ T # {} THEN n ELSE 0) = 0
      BY <3>1
    <3> HIDE DEF x, y
    <3>4. x = y + 0
      BY <3>2
    <3> QED
      BY <3>3, <3>4 DEF x, y
  <2>2. ASSUME NEW i \in FirstOf(st, f)
        PROVE  RealOf(st, now + n, f) = RealOf(st, now, f) + IF runs /\ T # {} THEN n ELSE 0
    <3>1. /\ RealOf(st, now, f) = Reading(st, now) - st[i].start
          /\ RealOf(st, now + n, f) = Reading(st, now + n) - st[i].start
      BY RealIs
    <3>2. i \in T /\ st[i].start \in Nat
      BY <1>1, <1>2 DEF FirstOf
    <3> HIDE DEF runs, T
    <3> QED
      BY <1>1, <1>3, <3>1, <3>2
  <2> QED
    BY <2>1, <2>2
<1>5. SelfOf(st, now + n, f)
        = SelfOf(st, now, f) + IF runs /\ st # <<>> /\ st[L].fn = f THEN n ELSE 0
  <2>1. \A i \in 1..L : b[i] = a[i] + IF i = L /\ runs THEN n ELSE 0
    <3>1. ASSUME NEW i \in 1..L
          PROVE  /\ a[i] = (IF i < L THEN st[i + 1].start ELSE Reading(st, now))
                             - st[i].start - st[i].children
                 /\ b[i] = (IF i < L THEN st[i + 1].start ELSE Reading(st, now + n))
                             - st[i].start - st[i].children
                 /\ i < L => st[i + 1].start \in Nat
      BY <1>2 DEF LiveOf
    <3>2. ASSUME NEW i \in 1..L
          PROVE  b[i] = a[i] + IF i = L /\ runs THEN n ELSE 0
      <4>1. st[i].start \in Nat /\ st[i].children \in Nat /\ i \in Nat /\ i <= L
        BY <1>2
      <4> DEFINE next == st[i + 1].start
                 x == st[i].start
                 y == st[i].children
                 r == Reading(st, now)
                 q == Reading(st, now + n)
      <4>2. /\ a[i] = (IF i < L THEN next ELSE r) - x - y
            /\ b[i] = (IF i < L THEN next ELSE q) - x - y
            /\ i < L => next \in Nat
        BY <3>1
      <4>3. x \in Nat /\ y \in Nat /\ r \in Nat /\ q = r + IF runs THEN n ELSE 0
        BY <1>1, <1>3, <4>1
      <4> HIDE DEF a, b, L, runs, next, x, y, r, q
      <4>4. CASE i < L
        <5>1. a[i] = next - x - y /\ b[i] = next - x - y /\ next \in Nat
          BY <4>2, <4>4
        <5>2. i # L
          BY <1>2, <4>1, <4>4
        <5> QED
          BY <4>3, <5>1, <5>2
      <4>5. CASE i = L
        <5>1. a[i] = r - x - y /\ b[i] = q - x - y
          BY <1>2, <4>2, <4>5
        <5> QED
          BY <4>3, <4>5, <5>1
      <4> QED
        BY <1>2, <4>1, <4>4, <4>5
    <3> QED
      BY <3>2
  <2>2. L = 0 <=> st = <<>>
    OBVIOUS
  <2>3. \A i \in 1..L : i \in T <=> i <= Timing(st) /\ st[i].fn = f
    BY <1>1, <1>2 DEF TimedOf
  <2>4. CASE runs /\ st # <<>> /\ st[L].fn = f
    <3>1. L \in T
      BY <1>1, <1>2, <2>2, <2>3, <2>4
    <3>2. /\ b[L] = a[L] + n /\ a[L] \in Int
          /\ \A i \in T \ {L} : a[i] = b[i]
          /\ \A i \in T : a[i] \in Int /\ b[i] \in Int
      BY <1>0, <1>1, <1>2, <2>1, <2>2, <2>4
    <3>5. Integral(a, T) /\ Integral(b, T) /\ Agree(a, b, T \ {L})
      BY <3>2 DEF Integral, Agree
    <3> HIDE DEF a, b, T, L, runs
    <3>3. Total(b, T) = Total(a, T) - a[L] + b[L] /\ Total(a, T) \in Int
      BY <1>1, <3>1, <3>5, TotalUpdate
    <3>4. Total(b, T) = Total(a, T) + n
      BY <3>2, <3>3
    <3> QED
      BY <2>4, <3>4 DEF SelfOf, a, b, T
  <2>5. CASE ~ (runs /\ st # <<>> /\ st[L].fn = f)
    <3>1. \A i \in T : a[i] = b[i]
      BY <1>1, <1>2, <2>1, <2>3, <2>5
    <3>2. Agree(b, a, T)
      BY <3>1 DEF Agree
    <3>3. Total(a, T) \in Int
      <4>1. T \in SUBSET T /\ Integral(a, T)
        BY <1>1 DEF Integral
      <4> HIDE DEF a, T
      <4> QED
        BY <1>1, <4>1, TotalSteps
    <3>4. Total(b, T) = Total(a, T)
      <4> HIDE DEF a, b, T
      <4> QED
        BY <1>1, <3>2, TotalSame
    <3> HIDE DEF a, b, T, L, runs
    <3> QED
      BY <2>5, <3>3, <3>4 DEF SelfOf, a, b, T
  <2> QED
    BY <2>4, <2>5
<1> QED
  BY <1>3, <1>4, <1>5 DEF Ticks

\* What is the same above and below a step that changes no cost of timed activations.
AlikeIn(T, st, now, u, later) ==
  \A i \in T : /\ LiveOf(u, later)[i] = LiveOf(st, now)[i]
               /\ u[i].start = st[i].start
               /\ \A j \in 1..i : Routines(u)[j] = Routines(st)[j]

LEMMA SameCosts ==
  ASSUME NEW st \in Seq(Activation), NEW u \in Seq(Activation), NEW now \in Nat, NEW later \in Nat,
         NEW f, TimedOf(Routines(u), f) = TimedOf(Routines(st), f),
         AlikeIn(TimedOf(Routines(st), f), st, now, u, later),
         Reading(u, later) = Reading(st, now)
  PROVE  SelfOf(u, later, f) = SelfOf(st, now, f) /\ RealOf(u, later, f) = RealOf(st, now, f)
<1> DEFINE T == TimedOf(Routines(st), f)
           a == LiveOf(st, now)
           b == LiveOf(u, later)
<1>1. IsFiniteSet(T) /\ FirstOf(st, f) \subseteq T /\ T \subseteq 1..Len(st)
  BY LiveFacts
<1>2. Agree(b, a, T)
  BY DEF Agree, AlikeIn
<1>3. Total(b, T) = Total(a, T)
  <2> HIDE DEF a, b, T
  <2> QED
    BY <1>1, <1>2, TotalSame
<1>4. SelfOf(u, later, f) = SelfOf(st, now, f)
  BY <1>3 DEF SelfOf
<1>5. CASE FirstOf(st, f) = {}
  <2>1. T = {}
    BY <1>5, RealIs
  <2>2. FirstOf(u, f) = {}
    BY <2>1 DEF FirstOf
  <2> QED
    BY <1>4, <1>5, <2>2, RealIs
<1>6. ASSUME NEW i \in FirstOf(st, f)
      PROVE  RealOf(u, later, f) = RealOf(st, now, f)
  <2>1. i \in T /\ \A j \in 1..(i - 1) : j \in 1..i
    BY <1>1
  <2>2. i \in FirstOf(u, f)
    BY <2>1 DEF FirstOf, AlikeIn
  <2>3. RealOf(st, now, f) = Reading(st, now) - st[i].start
    BY RealIs
  <2>4. RealOf(u, later, f) = Reading(u, later) - u[i].start
    BY <2>2, RealIs
  <2> QED
    BY <2>1, <2>3, <2>4 DEF AlikeIn
<1> QED
  BY <1>4, <1>5, <1>6

\* A call costs nothing before time passes.
LEMMA CostsPush ==
  ASSUME NEW st \in Seq(Activation), NEW now \in Nat, NEW g \in Fn
  PROVE  LET u == Append(st, [fn |-> g, start |-> now, children |-> 0])
         IN  /\ u \in Seq(Activation) /\ Routines(u) = Append(Routines(st), g)
             /\ Reading(u, now) = Reading(st, now)
             /\ \A f : SelfOf(u, now, f) = SelfOf(st, now, f)
                       /\ RealOf(u, now, f) = RealOf(st, now, f)
<1> DEFINE new == [fn |-> g, start |-> now, children |-> 0]
           u == Append(st, new)
           fs == Routines(st)
           L == Len(st)
<1>1. new \in Activation /\ new.fn = g /\ new.start = now /\ new.children = 0
  BY DEF Activation
<1>2. /\ u \in Seq(Activation) /\ Len(u) = L + 1 /\ u[L + 1] = new
      /\ \A i \in 1..L : u[i] = st[i]
  <2> HIDE DEF new
  <2> QED
    BY <1>1
<1>3. Routines(u) = Append(fs, g)
  <2> HIDE DEF u, new
  <2> QED
    BY <1>1, <1>2, RoutinesAppended
<1> HIDE DEF u, new
<1>4. /\ fs \in Seq(Fn) /\ Len(fs) = L /\ L \in Nat
      /\ \A i \in 1..L : fs[i] = st[i].fn /\ st[i].start \in Nat /\ st[i].children \in Nat
  BY StackFacts
<1>5. TimedIn(Routines(u)) = TimedIn(fs) \cup IF SkippedIn(fs) = {} /\ g \notin Skipped
                                              THEN {L + 1} ELSE {}
  BY <1>3, <1>4, AppendedRoutine
<1>6. /\ Timing(st) \in 0..L /\ TimedIn(fs) = 1..Timing(st)
      /\ Timing(st) = L <=> SkippedIn(fs) = {}
  BY LiveFacts
<1>7. Timing(u) \in 0..(L + 1) /\ TimedIn(Routines(u)) = 1..Timing(u)
  BY <1>2, LiveFacts
<1>8. /\ Timing(u) = IF SkippedIn(fs) = {} /\ g \notin Skipped THEN L + 1 ELSE Timing(st)
      /\ Reading(u, now) = Reading(st, now)
  <2>1. CASE SkippedIn(fs) = {} /\ g \notin Skipped
    <3>1. L + 1 \in 1..Timing(u)
      BY <1>5, <1>7, <2>1
    <3>2. Timing(u) = L + 1
      BY <1>4, <1>7, <3>1
    <3> QED
      BY <1>2, <1>4, <1>6, <2>1, <3>2 DEF Reading
  <2>2. CASE ~ (SkippedIn(fs) = {} /\ g \notin Skipped)
    <3>1. 1..Timing(u) = 1..Timing(st)
      BY <1>5, <1>6, <1>7, <2>2
    <3>2. Timing(u) = Timing(st)
      <4>1. /\ Timing(u) > 0 => Timing(u) \in 1..Timing(st)
            /\ Timing(st) > 0 => Timing(st) \in 1..Timing(u)
        BY <1>4, <1>6, <1>7, <3>1
      <4> QED
        BY <1>4, <1>6, <1>7, <4>1
    <3> QED
      BY <1>1, <1>2, <1>4, <1>6, <2>2, <3>2 DEF Reading
  <2> QED
    BY <2>1, <2>2
<1>9. /\ Reading(st, now) \in Nat /\ \A i \in 1..L : LiveOf(st, now)[i] \in Int
      /\ \A i \in 1..(L + 1) : LiveOf(u, now)[i] \in Int
  BY <1>2, LiveFacts
<1>10. ASSUME NEW i \in 1..Timing(st)
       PROVE  LiveOf(u, now)[i] = LiveOf(st, now)[i] /\ i \in 1..L
  <2>1. i \in 1..L /\ i \in 1..(L + 1) /\ i < L + 1
    BY <1>4, <1>6
  <2>2. LiveOf(st, now)[i] = (IF i < L THEN st[i + 1].start ELSE Reading(st, now))
                                - st[i].start - st[i].children
    BY <2>1 DEF LiveOf
  <2>3. LiveOf(u, now)[i] = u[i + 1].start - u[i].start - u[i].children
    BY <1>2, <2>1 DEF LiveOf
  <2>4. CASE i < L
    BY <1>2, <1>4, <2>1, <2>2, <2>3, <2>4
  <2>5. CASE i = L
    <3>1. Timing(st) = L
      BY <1>4, <1>6, <2>5
    <3>2. Reading(st, now) = now
      BY <1>4, <3>1 DEF Reading
    <3> QED
      BY <1>1, <1>2, <1>4, <2>1, <2>2, <2>3, <2>5, <3>2
  <2> QED
    BY <1>4, <2>1, <2>4, <2>5
<1>11. ASSUME NEW f
       PROVE  SelfOf(u, now, f) = SelfOf(st, now, f) /\ RealOf(u, now, f) = RealOf(st, now, f)
  <2> DEFINE T == TimedOf(fs, f)
  <2>1. IsFiniteSet(T) /\ T \subseteq 1..Timing(st)
    <3>1. IsFiniteSet(T)
      BY LiveFacts
    <3>2. T \subseteq TimedIn(fs)
      BY DEF TimedOf
    <3> QED
      BY <1>6, <3>1, <3>2
  <2>2. \A i \in 1..L : Routines(u)[i] = fs[i]
    BY <1>3, <1>4
  <2>3. Routines(u)[L + 1] = g
    BY <1>3, <1>4
  <2>4. TimedOf(Routines(u), f)
          = T \cup IF SkippedIn(fs) = {} /\ g \notin Skipped /\ f = g THEN {L + 1} ELSE {}
    BY <1>4, <1>5, <1>6, <2>2, <2>3 DEF TimedOf
  <2>5. \A i \in T : /\ LiveOf(u, now)[i] = LiveOf(st, now)[i] /\ i \in 1..L
                     /\ u[i].start = st[i].start
                     /\ \A j \in 1..i : Routines(u)[j] = fs[j]
    <3> SUFFICES ASSUME NEW i \in T
                 PROVE  /\ LiveOf(u, now)[i] = LiveOf(st, now)[i] /\ i \in 1..L
                        /\ u[i].start = st[i].start
                        /\ \A j \in 1..i : Routines(u)[j] = fs[j]
      OBVIOUS
    <3>1. LiveOf(u, now)[i] = LiveOf(st, now)[i] /\ i \in 1..L
      BY <1>10, <2>1
    <3>2. \A j \in 1..i : j \in 1..L
      BY <1>4, <3>1
    <3> QED
      BY <1>2, <2>2, <3>1, <3>2
  <2>6. CASE SkippedIn(fs) = {} /\ g \notin Skipped /\ f = g
    <3> DEFINE a == LiveOf(st, now)
               b == LiveOf(u, now)
               x == L + 1
    <3>1. x \notin T /\ Integral(b, T \cup {x}) /\ Agree(b, a, T)
      BY <1>4, <1>9, <2>5 DEF Integral, Agree
    <3>2. b[x] = 0
      <4>1. x \in 1..Len(u) /\ ~ (x < Len(u)) /\ Timing(u) = L + 1
        BY <1>2, <1>4, <1>8, <2>6
      <4>2. b[x] = Reading(u, now) - u[x].start - u[x].children
        BY <4>1 DEF LiveOf
      <4>3. Reading(u, now) = now
        BY <1>2, <4>1 DEF Reading
      <4> QED
        BY <1>1, <1>2, <4>2, <4>3
    <3>3. Total(b, T \cup {x}) = Total(a, T)
      <4> HIDE DEF a, b, x, T
      <4>1. Total(b, T \cup {x}) = Total(b, T) + b[x] /\ Total(b, T) \in Int
        BY <2>1, <3>1, TotalInsert
      <4>2. Total(b, T) = Total(a, T)
        BY <2>1, <3>1, TotalSame
      <4> QED
        BY <3>2, <4>1, <4>2
    <3>4. SelfOf(u, now, f) = SelfOf(st, now, f)
      <4>1. TimedOf(Routines(u), f) = T \cup {x}
        BY <2>4, <2>6
      <4> HIDE DEF a, b, x, T
      <4> QED
        BY <3>3, <4>1 DEF SelfOf, a, b, T
    <3>5. RealOf(u, now, f) = RealOf(st, now, f)
      <4>1. CASE FirstOf(st, f) = {}
        <5>1. T = {} /\ RealOf(st, now, f) = 0
          BY <4>1, RealIs
        <5>2. PICK i \in FirstOf(u, f) : TRUE
          BY <1>2, <2>4, <2>6, RealIs
        <5>3. i = L + 1
          BY <2>4, <2>6, <5>1, <5>2 DEF FirstOf
        <5>4. RealOf(u, now, f) = Reading(u, now) - u[i].start
          BY <1>2, RealIs
        <5>5. Reading(u, now) = now
          BY <1>2, <1>8, <2>6 DEF Reading
        <5> QED
          BY <1>1, <1>2, <5>1, <5>3, <5>4, <5>5
      <4>2. ASSUME NEW i \in FirstOf(st, f)
            PROVE  RealOf(u, now, f) = RealOf(st, now, f)
        <5>1. i \in T /\ \A j \in 1..(i - 1) : fs[j] # f
          BY DEF FirstOf
        <5>a. i \in 1..L /\ i \in Nat /\ \A j \in 1..i : Routines(u)[j] = fs[j]
          <6> HIDE DEF T, fs
          <6> QED
            BY <1>4, <2>5, <5>1
        <5>2. i \in 1..L /\ \A j \in 1..(i - 1) : Routines(u)[j] # f
          <6> HIDE DEF fs
          <6>1. \A j \in 1..(i - 1) : j \in 1..i
            BY <5>a
          <6> QED
            BY <5>1, <5>a, <6>1
        <5>3. i \in FirstOf(u, f)
          BY <2>4, <5>1, <5>2 DEF FirstOf
        <5>4. RealOf(st, now, f) = Reading(st, now) - st[i].start
          BY RealIs
        <5>5. RealOf(u, now, f) = Reading(u, now) - u[i].start
          BY <1>2, <5>3, RealIs
        <5> QED
          BY <1>8, <2>5, <5>1, <5>4, <5>5
      <4> QED
        BY <4>1, <4>2
    <3> QED
      BY <3>4, <3>5
  <2>7. CASE ~ (SkippedIn(fs) = {} /\ g \notin Skipped /\ f = g)
    <3>1. TimedOf(Routines(u), f) = T
      BY <2>4, <2>7
    <3>2. AlikeIn(T, st, now, u, now)
      BY <2>5 DEF AlikeIn
    <3> QED
      BY <1>2, <1>8, <3>1, <3>2, SameCosts
  <2> QED
    BY <2>6, <2>7
<1> QED
  BY <1>2, <1>3, <1>8, <1>11 DEF u, new

\* What is left when the top is popped.
LEMMA PoppedStack ==
  ASSUME NEW st \in Seq(Activation), NEW u \in Seq(Activation), st # <<>>,
         Len(u) = Len(st) - 1,
         \A i \in 1..Len(u) : u[i].fn = st[i].fn
  PROVE  LET fs == Routines(u)
             L == Len(st)
             g == st[L].fn
         IN  /\ L \in Nat /\ L > 0 /\ g \in Fn /\ fs \in Seq(Fn) /\ Len(fs) = L - 1
             /\ Routines(st) = Append(fs, g)
             /\ \A i \in 1..(L - 1) : Routines(st)[i] = fs[i]
             /\ Routines(st)[L] = g
             /\ TimedIn(Routines(st)) = TimedIn(fs) \cup IF SkippedIn(fs) = {} /\ g \notin Skipped
                                                         THEN {L} ELSE {}
             /\ SkippedIn(Routines(st)) = SkippedIn(fs) \cup IF g \in Skipped THEN {L} ELSE {}
<1> DEFINE fs == Routines(u)
           L == Len(st)
           g == st[L].fn
<1>1. L \in Nat /\ L > 0 /\ L \in 1..L
  OBVIOUS
<1>2. g \in Fn
  BY <1>1, StackFacts
<1>3. fs \in Seq(Fn) /\ Len(fs) = L - 1
  BY StackFacts
<1>4. Routines(st) = Append(fs, g)
  <2>1. Len(st) = Len(u) + 1
    BY <1>1
  <2> QED
    BY <2>1, RoutinesAppended
<1>5. /\ SkippedIn(Append(fs, g)) = SkippedIn(fs) \cup IF g \in Skipped THEN {Len(fs) + 1} ELSE {}
      /\ TimedIn(Append(fs, g)) = TimedIn(fs) \cup IF SkippedIn(fs) = {} /\ g \notin Skipped
                                                   THEN {Len(fs) + 1} ELSE {}
  BY <1>2, <1>3, AppendedRoutine
<1>6. Len(fs) + 1 = L
  BY <1>1, <1>3
<1> HIDE DEF fs, g, L
<1>7. (\A i \in 1..(L - 1) : Append(fs, g)[i] = fs[i]) /\ Append(fs, g)[L] = g
  BY <1>1, <1>2, <1>3
<1> QED
  BY <1>1, <1>2, <1>3, <1>4, <1>5, <1>6, <1>7 DEF fs, g, L

\* An exit while the clock stands still: if the routine that has stopped it is left, it goes on
\* from where it stood.
IsBelow(u, st) == Len(u) = Len(st) - 1 /\ \A i \in 1..Len(u) : u[i] = st[i]
Resumed(st, now) == IF st[Len(st)].fn \in Skipped THEN st[Len(st)].start ELSE now

LEMMA CostsPopStopped ==
  ASSUME NEW st \in Seq(Activation), NEW u \in Seq(Activation), st # <<>>,
         IsBelow(u, st), SkippedIn(Routines(st)) # {}, NEW now \in Nat, NEW later \in Nat,
         later = Resumed(st, now)
  PROVE  /\ Reading(u, later) = Reading(st, now)
         /\ \A f : SelfOf(u, later, f) = SelfOf(st, now, f)
                   /\ RealOf(u, later, f) = RealOf(st, now, f)
<1> DEFINE fs == Routines(u)
           L == Len(st)
           g == st[L].fn
           p == Timing(st)
<1>0. /\ Len(u) = Len(st) - 1 /\ \A i \in 1..Len(u) : u[i] = st[i]
      /\ later = IF st[Len(st)].fn \in Skipped THEN st[Len(st)].start ELSE now
  BY DEF IsBelow, Resumed
<1>1. /\ L \in Nat /\ L > 0 /\ g \in Fn /\ fs \in Seq(Fn) /\ Len(fs) = L - 1
      /\ \A i \in 1..(L - 1) : Routines(st)[i] = fs[i]
      /\ TimedIn(Routines(st)) = TimedIn(fs) \cup IF SkippedIn(fs) = {} /\ g \notin Skipped
                                                  THEN {L} ELSE {}
      /\ SkippedIn(Routines(st)) = SkippedIn(fs) \cup IF g \in Skipped THEN {L} ELSE {}
  <2>1. Len(u) = Len(st) - 1 /\ \A i \in 1..Len(u) : u[i].fn = st[i].fn
    BY <1>0
  <2> QED
    BY <2>1, PoppedStack
<1>2. TimedIn(Routines(st)) = TimedIn(fs) /\ (SkippedIn(fs) = {} => g \in Skipped)
  BY <1>0, <1>1
<1>3. Timing(u) = p
  BY <1>2 DEF Timing
<1>4. /\ p \in 0..(L - 1) /\ p < L /\ TimedIn(fs) = 1..p
      /\ p = L - 1 => SkippedIn(fs) = {}
      /\ Reading(st, now) \in Nat /\ Reading(u, later) \in Nat
  <2>1. p \in 0..(L - 1) /\ (p = L - 1 <=> SkippedIn(fs) = {}) /\ TimedIn(fs) = 1..p
        /\ Reading(u, later) \in Nat
    BY <1>0, <1>1, <1>3, LiveFacts
  <2>2. Reading(st, now) \in Nat
    BY LiveFacts
  <2> QED
    BY <1>0, <1>1, <2>1, <2>2
<1>5. Reading(st, now) = st[p + 1].start
  BY <1>0, <1>1, <1>4 DEF Reading
<1>6. Reading(u, later) = Reading(st, now)
  <2>1. CASE p = L - 1
    BY <1>0, <1>1, <1>2, <1>3, <1>4, <1>5, <2>1 DEF Reading
  <2>2. CASE p # L - 1
    <3>1. p + 1 \in 1..(L - 1) /\ p < L - 1
      BY <1>0, <1>1, <1>4, <2>2
    <3> QED
      BY <1>0, <1>1, <1>3, <1>5, <3>1 DEF Reading
  <2> QED
    BY <2>1, <2>2
<1>7. ASSUME NEW i \in 1..p
      PROVE  LiveOf(u, later)[i] = LiveOf(st, now)[i] /\ u[i] = st[i]
  <2>1. i \in 1..(L - 1) /\ i \in 1..L /\ i < L
    BY <1>0, <1>1, <1>4
  <2>2. LiveOf(st, now)[i] = st[i + 1].start - st[i].start - st[i].children
    BY <2>1 DEF LiveOf
  <2>3. LiveOf(u, later)[i] = (IF i < L - 1 THEN u[i + 1].start ELSE Reading(u, later))
                                 - u[i].start - u[i].children
    BY <1>0, <1>1, <2>1 DEF LiveOf
  <2>4. u[i] = st[i]
    BY <1>0, <1>1, <2>1
  <2>5. CASE i < L - 1
    <3>1. i + 1 \in 1..Len(u)
      BY <1>0, <1>1, <2>1, <2>5
    <3>3. u[i + 1] = st[i + 1]
      BY <1>0, <3>1
    <3> QED
      BY <2>2, <2>3, <2>4, <2>5, <3>3
  <2>6. CASE i = L - 1
    <3>1. p = i
      BY <1>0, <1>1, <1>4, <2>6
    <3>2. ~ (i < L - 1)
      BY <1>0, <1>1, <2>6
    <3> QED
      BY <1>5, <1>6, <2>2, <2>3, <2>4, <3>1, <3>2
  <2> QED
    BY <1>0, <1>1, <2>1, <2>5, <2>6
<1>8. ASSUME NEW f
      PROVE  SelfOf(u, later, f) = SelfOf(st, now, f) /\ RealOf(u, later, f) = RealOf(st, now, f)
  <2>1. TimedOf(Routines(st), f) \subseteq 1..p /\ TimedOf(Routines(u), f) \subseteq 1..p
    <3>1. TimedIn(Routines(st)) = 1..p /\ TimedIn(Routines(u)) = 1..p
      BY <1>2, <1>4
    <3> HIDE DEF p
    <3> QED
      BY <3>1 DEF TimedOf
  <2>2. \A i \in 1..p : Routines(st)[i] = fs[i] /\ \A j \in 1..i : j \in 1..p
    BY <1>0, <1>1, <1>4
  <2>3. TimedOf(Routines(u), f) = TimedOf(Routines(st), f)
    BY <1>2, <1>4, <2>2 DEF TimedOf
  <2>4. AlikeIn(TimedOf(Routines(st), f), st, now, u, later)
    BY <1>7, <2>1, <2>2 DEF AlikeIn
  <2> QED
    BY <1>6, <2>3, <2>4, SameCosts
<1> QED
  BY <1>6, <1>8

\* A timed exit moves what the top has cost out of the stack; the parent's own cost stays.
Returned(u, st, cumul) ==
  /\ Len(u) = Len(st) - 1
  /\ \A i \in 1..Len(u) :
       /\ u[i].fn = st[i].fn /\ u[i].start = st[i].start
       /\ u[i].children = st[i].children + IF i = Len(u) THEN cumul ELSE 0

LEMMA CostsPopTimed ==
  ASSUME NEW st \in Seq(Activation), NEW u \in Seq(Activation), st # <<>>,
         NEW now \in Nat, NEW cumul \in Nat, cumul = now - st[Len(st)].start,
         Returned(u, st, cumul), SkippedIn(Routines(st)) = {}
  PROVE  LET g == st[Len(st)].fn
             fs == Routines(u)
         IN  /\ Reading(u, now) = now /\ Reading(st, now) = now
             /\ \A f : /\ SelfOf(u, now, f) \in Int /\ RealOf(u, now, f) \in Int
                       /\ SelfOf(st, now, f)
                            = SelfOf(u, now, f)
                                + IF f = g THEN cumul - st[Len(st)].children ELSE 0
                       /\ RealOf(st, now, f)
                            = RealOf(u, now, f)
                                + IF f = g /\ TimedOf(fs, f) = {} THEN cumul ELSE 0
<1> DEFINE fs == Routines(u)
           L == Len(st)
           g == st[L].fn
<1>0. /\ Len(u) = Len(st) - 1
      /\ \A i \in 1..Len(u) :
           /\ u[i].fn = st[i].fn /\ u[i].start = st[i].start
           /\ u[i].children = st[i].children + IF i = Len(u) THEN cumul ELSE 0
  BY DEF Returned
<1>1. /\ L \in Nat /\ L > 0 /\ g \in Fn /\ fs \in Seq(Fn) /\ Len(fs) = L - 1
      /\ \A i \in 1..(L - 1) : Routines(st)[i] = fs[i]
      /\ Routines(st)[L] = g
      /\ TimedIn(Routines(st)) = TimedIn(fs) \cup IF SkippedIn(fs) = {} /\ g \notin Skipped
                                                  THEN {L} ELSE {}
      /\ SkippedIn(Routines(st)) = SkippedIn(fs) \cup IF g \in Skipped THEN {L} ELSE {}
  <2>1. Len(u) = Len(st) - 1 /\ \A i \in 1..Len(u) : u[i].fn = st[i].fn
    BY <1>0
  <2> QED
    BY <2>1, PoppedStack
<1>2. SkippedIn(fs) = {} /\ g \notin Skipped
  BY <1>0, <1>1
<1>3. Timing(st) = L /\ Timing(u) = L - 1 /\ TimedIn(fs) = 1..(L - 1)
      /\ TimedIn(Routines(st)) = 1..L
  BY <1>0, <1>1, <1>2, LiveFacts
<1>4. Reading(u, now) = now /\ Reading(st, now) = now
  BY <1>0, <1>1, <1>3 DEF Reading
<1>5. /\ \A i \in 1..L : st[i].start \in Nat /\ st[i].children \in Nat
      /\ \A i \in 1..L : LiveOf(st, now)[i] \in Int
      /\ \A i \in 1..(L - 1) : LiveOf(u, now)[i] \in Int
  <2>1. \A i \in 1..L : LiveOf(st, now)[i] \in Int
    BY LiveFacts
  <2>2. \A i \in 1..(L - 1) : LiveOf(u, now)[i] \in Int
    <3>1. \A i \in 1..Len(u) : LiveOf(u, now)[i] \in Int
      BY LiveFacts
    <3> QED
      BY <1>0, <3>1
  <2> QED
    BY <2>1, <2>2, StackFacts
<1>6. ASSUME NEW i \in 1..(L - 1)
      PROVE  LiveOf(u, now)[i] = LiveOf(st, now)[i]
  <2>1. i \in 1..L /\ i < L /\ Len(u) = L - 1
    BY <1>0, <1>1
  <2>2. LiveOf(st, now)[i] = st[i + 1].start - st[i].start - st[i].children
    BY <2>1 DEF LiveOf
  <2>3. LiveOf(u, now)[i] = (IF i < L - 1 THEN u[i + 1].start ELSE now)
                               - st[i].start - u[i].children
    BY <1>0, <1>1, <1>4, <2>1 DEF LiveOf
  <2>4. CASE i < L - 1
    <3>0. i + 1 \in 1..Len(u) /\ i \in 1..Len(u) /\ i # Len(u) /\ i + 1 \in 1..L
      BY <1>1, <2>1, <2>4
    <3>1. u[i + 1].start = st[i + 1].start /\ u[i].children = st[i].children + 0 /\ i + 1 \in 1..L
      BY <1>0, <3>0
    <3>2. st[i].children \in Nat
      BY <1>5, <2>1
    <3> QED
      BY <2>2, <2>3, <2>4, <3>1, <3>2
  <2>5. CASE i = L - 1
    <3>1. i + 1 = L /\ ~ (i < L - 1) /\ u[i].children = st[i].children + cumul
      BY <1>0, <1>1, <2>1, <2>5
    <3>2. st[i].children \in Nat /\ st[i].start \in Nat /\ st[L].start \in Nat
      BY <1>0, <1>1, <1>5, <2>1
    <3> DEFINE x == st[i].start
               y == st[i].children
               z == st[L].start
    <3>3. LiveOf(u, now)[i] = now - x - (y + cumul) /\ LiveOf(st, now)[i] = z - x - y
      BY <2>2, <2>3, <3>1
    <3>4. x \in Nat /\ y \in Nat /\ z \in Nat /\ cumul = now - z
      BY <3>2
    <3> HIDE DEF x, y, z
    <3>5. now - x - (y + cumul) = z - x - y
      BY <3>4
    <3> QED
      BY <3>3, <3>5
  <2> QED
    BY <1>0, <1>1, <2>1, <2>4, <2>5
<1>7. LiveOf(st, now)[L] = cumul - st[L].children
  <2>1. L \in 1..L /\ ~ (L < L) /\ st[L].start \in Nat /\ st[L].children \in Nat
    BY <1>0, <1>1, <1>5
  <2>2. LiveOf(st, now)[L] = now - st[L].start - st[L].children
    BY <1>4, <2>1 DEF LiveOf
  <2> QED
    BY <2>1, <2>2
<1>8. ASSUME NEW f
      PROVE  /\ SelfOf(u, now, f) \in Int
             /\ SelfOf(st, now, f)
                  = SelfOf(u, now, f) + IF f = g THEN cumul - st[L].children ELSE 0
  <2> DEFINE T == TimedOf(fs, f)
             S == TimedOf(Routines(st), f)
             a == LiveOf(st, now)
             b == LiveOf(u, now)
  <2>1. IsFiniteSet(T) /\ T \subseteq 1..(L - 1) /\ L \notin T
    <3>1. IsFiniteSet(T)
      BY LiveFacts
    <3>2. T \subseteq TimedIn(fs)
      BY DEF TimedOf
    <3> HIDE DEF T
    <3> QED
      BY <1>0, <1>1, <1>3, <3>1, <3>2
  <2>2. S = T \cup IF f = g THEN {L} ELSE {}
    BY <1>1, <1>3 DEF TimedOf
  <2>3. Agree(a, b, T) /\ Integral(b, T) /\ Integral(a, T \cup {L})
    <3>1. L \in 1..L /\ \A i \in T : i \in 1..L
      BY <1>1, <2>1
    <3>2. \A i \in T : a[i] = b[i] /\ a[i] \in Int /\ b[i] \in Int
      BY <1>5, <1>6, <2>1, <3>1
    <3>3. a[L] \in Int
      BY <1>5, <3>1
    <3> HIDE DEF T, a, b, L
    <3> QED
      BY <3>2, <3>3 DEF Agree, Integral
  <2>4. SelfOf(st, now, f) = Total(a, S) /\ SelfOf(u, now, f) = Total(b, T)
    BY DEF SelfOf
  <2>5. a[L] = cumul - st[L].children
    BY <1>7
  <2> DEFINE x == st[L].children
  <2> HIDE DEF T, S, a, b, x, g, L
  <2>6. Total(a, T) = Total(b, T)
    BY <2>1, <2>3, TotalSame
  <2>7. Total(a, T \cup {L}) = Total(a, T) + a[L] /\ Total(a, T) \in Int
    BY <2>1, <2>3, TotalInsert
  <2>8. CASE f = g
    BY <2>2, <2>4, <2>5, <2>6, <2>7, <2>8 DEF x
  <2>9. CASE f # g
    BY <2>2, <2>4, <2>6, <2>7, <2>9
  <2> QED
    BY <2>8, <2>9
<1>9. ASSUME NEW f
      PROVE  /\ RealOf(u, now, f) \in Int
             /\ RealOf(st, now, f)
                  = RealOf(u, now, f) + IF f = g /\ TimedOf(fs, f) = {} THEN cumul ELSE 0
  <2> DEFINE T == TimedOf(fs, f)
             S == TimedOf(Routines(st), f)
  <2>1. S = T \cup (IF f = g THEN {L} ELSE {}) /\ T \subseteq 1..(L - 1)
    BY <1>0, <1>1, <1>3 DEF TimedOf
  <2>2. /\ RealOf(u, now, f) \in Int
        /\ FirstOf(u, f) = {} <=> T = {}
        /\ FirstOf(u, f) = {} => RealOf(u, now, f) = 0
        /\ \A i \in FirstOf(u, f) : RealOf(u, now, f) = now - u[i].start
    <3>1. /\ RealOf(u, now, f) \in Int
          /\ FirstOf(u, f) = {} <=> T = {}
          /\ FirstOf(u, f) = {} => RealOf(u, now, f) = 0
          /\ \A i \in FirstOf(u, f) : RealOf(u, now, f) = Reading(u, now) - u[i].start
      BY RealIs
    <3> HIDE DEF T
    <3> QED
      BY <1>4, <3>1
  <2>3. /\ FirstOf(st, f) = {} <=> S = {}
        /\ FirstOf(st, f) = {} => RealOf(st, now, f) = 0
        /\ \A i \in FirstOf(st, f) : RealOf(st, now, f) = now - st[i].start
    <3>1. /\ FirstOf(st, f) = {} <=> S = {}
          /\ FirstOf(st, f) = {} => RealOf(st, now, f) = 0
          /\ \A i \in FirstOf(st, f) : RealOf(st, now, f) = Reading(st, now) - st[i].start
      BY RealIs
    <3> HIDE DEF S
    <3> QED
      BY <1>4, <3>1
  <2>4. CASE T = {} /\ f # g
    BY <2>1, <2>2, <2>3, <2>4
  <2>5. CASE T = {} /\ f = g
    <3>1. PICK i \in FirstOf(st, f) : TRUE
      BY <2>1, <2>3, <2>5
    <3>2. i = L
      BY <2>1, <2>5, <3>1 DEF FirstOf
    <3> QED
      BY <2>2, <2>3, <2>5, <3>1, <3>2
  <2>6. ASSUME NEW i \in FirstOf(u, f)
        PROVE  RealOf(st, now, f) = RealOf(u, now, f) /\ T # {}
    <3>1. i \in T /\ i \in 1..(L - 1) /\ \A j \in 1..(i - 1) : fs[j] # f
      BY <2>1 DEF FirstOf
    <3>2. \A j \in 1..(i - 1) : Routines(st)[j] # f
      <4>1. \A j \in 1..(i - 1) : j \in 1..(L - 1)
        BY <1>0, <1>1, <3>1
      <4> QED
        BY <1>0, <1>1, <3>1, <4>1
    <3>3. i \in FirstOf(st, f)
      BY <2>1, <3>1, <3>2 DEF FirstOf
    <3>4. u[i].start = st[i].start
      BY <1>0, <1>1, <3>1
    <3> QED
      BY <2>2, <2>3, <3>1, <3>3, <3>4
  <2> QED
    BY <2>2, <2>4, <2>5, <2>6
<1> QED
  BY <1>4, <1>8, <1>9

-----------------------------------------------------------------------------
(* The accounts of RoutineTimes, with the routines of one thread apart.    *)

KeysOf(ts, f) == {k \in DOMAIN ts : k.fn = f}
FieldOf(ts, field) == [k \in DOMAIN ts |-> ts[k][field]]
FiledSum(ts, f, field) == Total(FieldOf(ts, field), KeysOf(ts, f))

\* B is what the other threads and the reports have to add.
Account(st, now, ts, B) ==
  [stack |-> Routines(st),
   self |-> [f \in Measured |-> B.self[f] + FiledSum(ts, f, "sumSelf") + SelfOf(st, now, f)],
   real |-> [f \in Measured |-> B.real[f] + FiledSum(ts, f, "real") + RealOf(st, now, f)],
   spent |-> B.spent + Reading(st, now)]

BaseOK(B) ==
  /\ \A f \in Measured : B.self[f] \in Int /\ B.real[f] \in Int
  /\ B.spent \in Int

FileOf(ts) == IsFiniteSet(DOMAIN ts) /\ IsMap(ts, Key, Tuple)

LEMMA FiledType ==
  ASSUME NEW ts, FileOf(ts), NEW f
  PROVE  /\ IsFiniteSet(KeysOf(ts, f)) /\ KeysOf(ts, f) \subseteq DOMAIN ts
         /\ FiledSum(ts, f, "sumSelf") \in Int /\ FiledSum(ts, f, "real") \in Int
         /\ \A k \in DOMAIN ts : ts[k].sumSelf \in Int /\ ts[k].real \in Int
<1>1. \A k \in DOMAIN ts : ts[k].sumSelf \in Int /\ ts[k].real \in Int
  BY DEF FileOf, IsMap, Tuple
<1>2. KeysOf(ts, f) \subseteq DOMAIN ts
  BY DEF KeysOf
<1>3. IsFiniteSet(KeysOf(ts, f))
  BY <1>2, FS_Subset DEF FileOf
<1> DEFINE S == KeysOf(ts, f)
           a == FieldOf(ts, "sumSelf")
           b == FieldOf(ts, "real")
<1>4. Integral(a, S) /\ Integral(b, S)
  BY <1>1, <1>2 DEF Integral, FieldOf
<1>5. Total(a, S) \in Int /\ Total(b, S) \in Int
  <2> HIDE DEF S, a, b
  <2> QED
    BY <1>3, <1>4, TotalSteps DEF S
<1> QED
  BY <1>1, <1>2, <1>3, <1>5 DEF FiledSum

LEMMA RoutineIn ==
  ASSUME NEW st \in Seq(Activation)
  PROVE  /\ Range(Routines(st)) \cap Skipped = {} <=> SkippedIn(Routines(st)) = {}
         /\ SkippedIn(Routines(st)) = {} =>
              \A f : f \in Range(Routines(st)) <=> TimedOf(Routines(st), f) # {}
         /\ Routines(st) = <<>> <=> st = <<>>
         /\ st # <<>> => Last(Routines(st)) = st[Len(st)].fn
<1>1. /\ Routines(st) \in Seq(Fn) /\ Len(Routines(st)) = Len(st) /\ Len(st) \in Nat
      /\ \A i \in 1..Len(st) : Routines(st)[i] = st[i].fn
  BY StackFacts
<1>2. Range(Routines(st)) = {Routines(st)[i] : i \in 1..Len(st)}
  BY <1>1 DEF Range
<1>3. Range(Routines(st)) \cap Skipped = {} <=> SkippedIn(Routines(st)) = {}
  BY <1>1, <1>2 DEF SkippedIn
<1>4. ASSUME SkippedIn(Routines(st)) = {}, NEW f
      PROVE  f \in Range(Routines(st)) <=> TimedOf(Routines(st), f) # {}
  <2>1. TimedIn(Routines(st)) = 1..Len(st)
    BY <1>1, <1>4 DEF SkippedIn, TimedIn
  <2> QED
    BY <1>2, <2>1 DEF TimedOf
<1>5. Routines(st) = <<>> <=> st = <<>>
  <2>1. st = <<>> <=> Len(st) = 0
    OBVIOUS
  <2>2. Routines(st) = <<>> <=> Len(Routines(st)) = 0
    BY <1>1
  <2> QED
    BY <1>1, <2>1, <2>2
<1>6. st # <<>> => Last(Routines(st)) = st[Len(st)].fn
  <2>1. st # <<>> => Len(st) \in 1..Len(st)
    OBVIOUS
  <2> QED
    BY <1>1, <2>1 DEF Last
<1> QED
  BY <1>3, <1>4, <1>5, <1>6

LEMMA AccountTicks ==
  ASSUME NEW st \in Seq(Activation), NEW now \in Nat, NEW n \in Nat, NEW ts, FileOf(ts),
         NEW B, BaseOK(B)
  PROVE  Account(st, now + n, ts, B) = Times!Spend(Account(st, now, ts, B), n)
<1> DEFINE fs == Routines(st)
           runs == SkippedIn(fs) = {}
           a == Account(st, now, ts, B)
           later == now + n
           b == Account(st, later, ts, B)
           top == {f \in Measured : fs # <<>> /\ f = Last(fs)}
<1>1. /\ a.stack = fs
      /\ a.self = [f \in Measured |-> B.self[f] + FiledSum(ts, f, "sumSelf") + SelfOf(st, now, f)]
      /\ a.real = [f \in Measured |-> B.real[f] + FiledSum(ts, f, "real") + RealOf(st, now, f)]
      /\ a.spent = B.spent + Reading(st, now)
      /\ a = [stack |-> a.stack, self |-> a.self, real |-> a.real, spent |-> a.spent]
  BY DEF Account
<1>2. b = [stack |-> fs,
           self |-> [f \in Measured |-> B.self[f] + FiledSum(ts, f, "sumSelf") + SelfOf(st, later, f)],
           real |-> [f \in Measured |-> B.real[f] + FiledSum(ts, f, "real") + RealOf(st, later, f)],
           spent |-> B.spent + Reading(st, later)]
  BY DEF Account
<1>3. /\ Range(fs) \cap Skipped = {} <=> runs
      /\ runs => \A f : f \in Range(fs) <=> TimedOf(fs, f) # {}
      /\ fs = <<>> <=> st = <<>>
      /\ st # <<>> => Last(fs) = st[Len(st)].fn
  BY RoutineIn
<1>4. /\ Reading(st, later) = Reading(st, now) + (IF runs THEN n ELSE 0)
      /\ Reading(st, now) \in Nat
  <2>1. Ticks(st, now, n, B)
    BY CostsTick
  <2>2. Reading(st, now) \in Nat
    BY LiveFacts
  <2> HIDE DEF a, b, top
  <2> QED
    BY <2>1, <2>2 DEF Ticks
<1>5. ASSUME NEW f \in Measured
      PROVE  /\ SelfOf(st, later, f) = SelfOf(st, now, f)
                  + IF runs /\ st # <<>> /\ st[Len(st)].fn = f THEN n ELSE 0
             /\ RealOf(st, later, f) = RealOf(st, now, f)
                  + IF runs /\ TimedOf(fs, f) # {} THEN n ELSE 0
             /\ SelfOf(st, now, f) \in Int /\ RealOf(st, now, f) \in Int
             /\ FiledSum(ts, f, "sumSelf") \in Int /\ FiledSum(ts, f, "real") \in Int
             /\ B.self[f] \in Int /\ B.real[f] \in Int
  <2>1. /\ SelfOf(st, now + n, f) = SelfOf(st, now, f)
             + IF runs /\ st # <<>> /\ st[Len(st)].fn = f THEN n ELSE 0
        /\ RealOf(st, now + n, f) = RealOf(st, now, f)
             + IF runs /\ TimedOf(fs, f) # {} THEN n ELSE 0
        /\ SelfOf(st, now, f) \in Int /\ RealOf(st, now, f) \in Int
    <3> HIDE DEF a, later, b, top, fs, runs
    <3>1. Ticks(st, now, n, f)
      BY CostsTick
    <3>2. SelfOf(st, now, f) \in Int /\ RealOf(st, now, f) \in Int
      BY CostsType
    <3> QED
      BY <3>1, <3>2 DEF fs, runs, Ticks
  <2>2. FiledSum(ts, f, "sumSelf") \in Int /\ FiledSum(ts, f, "real") \in Int
    BY FiledType
  <2>3. B.self[f] \in Int /\ B.real[f] \in Int
    BY DEF BaseOK
  <2> QED
    BY <2>1, <2>2, <2>3
<1> HIDE DEF a, b, fs, runs, later
<1>6. CASE runs
  <2>0. Times!Range(fs) = Range(fs) /\ Times!Last(fs) = Last(fs) /\ Times!Measured = Measured
    BY DEF Times!Range, Range, Times!Last, Last, Times!Measured, Measured
  <2>1. Times!Spend(a, n)
          = [stack |-> a.stack,
             self |-> [f \in Measured |-> a.self[f] + IF f \in top THEN n ELSE 0],
             real |-> [f \in Measured |-> a.real[f] + IF f \in Range(fs) THEN n ELSE 0],
             spent |-> a.spent + n]
    <3>1. Times!Spend(a, n)
            = [a EXCEPT !.spent = a.spent + n,
                        !.self = [f \in Measured |-> a.self[f] + IF f \in top THEN n ELSE 0],
                        !.real = [f \in Measured |->
                                    a.real[f] + IF f \in Range(fs) THEN n ELSE 0]]
      BY <1>1, <1>3, <1>6, <2>0 DEF Times!Spend
    <3> DEFINE x == [f \in Measured |-> a.self[f] + IF f \in top THEN n ELSE 0]
               y == [f \in Measured |-> a.real[f] + IF f \in Range(fs) THEN n ELSE 0]
               z == a.spent + n
    <3>2. Times!Spend(a, n) = [a EXCEPT !.spent = z, !.self = x, !.real = y]
      BY <3>1
    <3> HIDE DEF x, y, z
    <3>3. Times!Spend(a, n) = [stack |-> a.stack, self |-> x, real |-> y, spent |-> z]
      BY <1>1, <3>2
    <3> QED
      BY <3>3 DEF x, y, z
  <2>2. \A f \in Measured :
          /\ a.self[f] + (IF f \in top THEN n ELSE 0)
               = B.self[f] + FiledSum(ts, f, "sumSelf") + SelfOf(st, later, f)
          /\ a.real[f] + (IF f \in Range(fs) THEN n ELSE 0)
               = B.real[f] + FiledSum(ts, f, "real") + RealOf(st, later, f)
    <3> SUFFICES ASSUME NEW f \in Measured
                 PROVE  /\ a.self[f] + (IF f \in top THEN n ELSE 0)
                             = B.self[f] + FiledSum(ts, f, "sumSelf") + SelfOf(st, later, f)
                        /\ a.real[f] + (IF f \in Range(fs) THEN n ELSE 0)
                             = B.real[f] + FiledSum(ts, f, "real") + RealOf(st, later, f)
      OBVIOUS
    <3>1. /\ a.self[f] = B.self[f] + FiledSum(ts, f, "sumSelf") + SelfOf(st, now, f)
          /\ a.real[f] = B.real[f] + FiledSum(ts, f, "real") + RealOf(st, now, f)
      BY <1>1
    <3>2. f \in top <=> st # <<>> /\ st[Len(st)].fn = f
      BY <1>3
    <3>3. f \in Range(fs) <=> TimedOf(fs, f) # {}
      BY <1>3, <1>6
    <3> HIDE DEF top
    <3>4. /\ SelfOf(st, later, f) = SelfOf(st, now, f) + IF f \in top THEN n ELSE 0
          /\ RealOf(st, later, f) = RealOf(st, now, f) + IF f \in Range(fs) THEN n ELSE 0
      BY <1>5, <1>6, <3>2, <3>3
    <3> DEFINE p == SelfOf(st, now, f)
               q == RealOf(st, now, f)
               x == FiledSum(ts, f, "sumSelf")
               y == FiledSum(ts, f, "real")
               v == B.self[f]
               w == B.real[f]
               k == IF f \in top THEN n ELSE 0
               j == IF f \in Range(fs) THEN n ELSE 0
    <3>5. /\ a.self[f] = v + x + p /\ a.real[f] = w + y + q
          /\ SelfOf(st, later, f) = p + k /\ RealOf(st, later, f) = q + j
          /\ p \in Int /\ q \in Int /\ x \in Int /\ y \in Int /\ v \in Int /\ w \in Int
          /\ k \in Int /\ j \in Int
      BY <1>5, <3>1, <3>4
    <3> HIDE DEF p, q, x, y, v, w, k, j
    <3>6. /\ a.self[f] + k = v + x + SelfOf(st, later, f)
          /\ a.real[f] + j = w + y + RealOf(st, later, f)
      BY <3>5
    <3> QED
      BY <3>6 DEF x, y, v, w, k, j
  <2>3. a.spent + n = B.spent + Reading(st, later)
    <3>1. B.spent \in Int
      BY DEF BaseOK
    <3> QED
      BY <1>1, <1>4, <1>6, <3>1
  <2> QED
    BY <1>1, <1>2, <2>1, <2>2, <2>3 DEF a, b, later, fs
<1>7. CASE ~runs
  <2>1. Times!Spend(a, n) = a
    BY <1>1, <1>3, <1>7 DEF Times!Spend, Times!Range, Range
  <2>2. \A f \in Measured :
          /\ a.self[f] = B.self[f] + FiledSum(ts, f, "sumSelf") + SelfOf(st, later, f)
          /\ a.real[f] = B.real[f] + FiledSum(ts, f, "real") + RealOf(st, later, f)
    BY <1>1, <1>5, <1>7
  <2>3. a.spent = B.spent + Reading(st, later)
    BY <1>1, <1>4, <1>7
  <2> QED
    BY <1>1, <1>2, <2>1, <2>2, <2>3 DEF a, b, later, fs
<1> QED
  BY <1>6, <1>7

-----------------------------------------------------------------------------
(* Exits and calls on the accounts.                                        *)

\* One more call in the tuples.
LEMMA FiledMore ==
  ASSUME NEW ts, FileOf(ts), NEW key \in Key, NEW cumul \in Nat, NEW self \in Nat,
         NEW outermost \in BOOLEAN, NEW f
  PROVE  LET us == File(ts, key, cumul, self, outermost)
         IN  /\ IsFiniteSet(DOMAIN us)
             /\ FiledSum(us, f, "sumSelf")
                  = FiledSum(ts, f, "sumSelf") + IF f = key.fn THEN self ELSE 0
             /\ FiledSum(us, f, "real")
                  = FiledSum(ts, f, "real") + IF f = key.fn /\ outermost THEN cumul ELSE 0
<1> DEFINE us == File(ts, key, cumul, self, outermost)
           S == KeysOf(ts, f)
           a == FieldOf(ts, "sumSelf")
           b == FieldOf(us, "sumSelf")
           c == FieldOf(ts, "real")
           d == FieldOf(us, "real")
           more == IF outermost THEN cumul ELSE 0
<1>1. /\ DOMAIN us = DOMAIN ts \cup {key}
      /\ \A k \in DOMAIN ts : k # key => us[k] = ts[k]
      /\ us[key] = Added(IF key \in DOMAIN ts THEN ts[key] ELSE NewTuple, cumul, self, outermost)
  BY DEF File
<1>2. /\ us[key].sumSelf = (IF key \in DOMAIN ts THEN ts[key].sumSelf ELSE 0) + self
      /\ us[key].real = (IF key \in DOMAIN ts THEN ts[key].real ELSE 0) + more
  <2>1. \A v : /\ Added(v, cumul, self, outermost).sumSelf = v.sumSelf + self
               /\ Added(v, cumul, self, outermost).real = v.real + more
    BY DEF Added
  <2>2. NewTuple.sumSelf = 0 /\ NewTuple.real = 0
    BY DEF NewTuple
  <2> HIDE DEF us, more
  <2>3. CASE key \in DOMAIN ts
    BY <1>1, <2>1, <2>3
  <2>4. CASE key \notin DOMAIN ts
    BY <1>1, <2>1, <2>2, <2>4
  <2> QED
    BY <2>3, <2>4
<1> HIDE DEF us
<1>3. IsFiniteSet(DOMAIN us)
  BY <1>1, FS_AddElement DEF FileOf
<1>4. IsFiniteSet(S) /\ \A k \in S : a[k] \in Int /\ c[k] \in Int
  BY FiledType DEF KeysOf, FieldOf
<1>5. /\ \A k \in S \ {key} : a[k] = b[k] /\ c[k] = d[k]
      /\ b[key] = (IF key \in DOMAIN ts THEN a[key] ELSE 0) + self
      /\ d[key] = (IF key \in DOMAIN ts THEN c[key] ELSE 0) + more
  BY <1>1, <1>2 DEF KeysOf, FieldOf
<1>6. KeysOf(us, f) = S \cup IF f = key.fn THEN {key} ELSE {}
  BY <1>1 DEF KeysOf
<1>7. /\ Integral(a, S) /\ Agree(a, b, S \ {key})
      /\ Integral(c, S) /\ Agree(c, d, S \ {key})
  BY <1>4, <1>5 DEF Integral, Agree
<1>8. /\ FiledSum(ts, f, "sumSelf") = Total(a, S) /\ FiledSum(ts, f, "real") = Total(c, S)
      /\ FiledSum(us, f, "sumSelf") = Total(b, KeysOf(us, f))
      /\ FiledSum(us, f, "real") = Total(d, KeysOf(us, f))
  BY DEF FiledSum
<1>9. Total(a, S) \in Int /\ Total(c, S) \in Int
  BY <1>8, FiledType
<1>10. f = key.fn => (key \in DOMAIN ts <=> key \in S)
  BY DEF KeysOf
<1>11. more \in Int /\ self \in Int
  OBVIOUS
<1> HIDE DEF a, b, c, d, S
<1>12. CASE f = key.fn
  <2>1. /\ b[key] = (IF key \in S THEN a[key] ELSE 0) + self
        /\ d[key] = (IF key \in S THEN c[key] ELSE 0) + more
    BY <1>5, <1>10, <1>12
  <2>0. more \in Int /\ self \in Int
    BY <1>11
  <2> HIDE DEF more
  <2>2. Total(b, S \cup {key}) = Total(a, S) + self
    <3>1. /\ IsFiniteSet(S) /\ Integral(a, S) /\ Agree(a, b, S \ {key})
          /\ b[key] = (IF key \in S THEN a[key] ELSE 0) + self
      BY <1>4, <1>7, <2>1
    <3> QED
      BY <2>0, <3>1, TotalMore
  <2>3. Total(d, S \cup {key}) = Total(c, S) + more
    BY <1>4, <1>7, <2>0, <2>1, TotalMore
  <2> QED
    BY <1>3, <1>6, <1>8, <1>12, <2>2, <2>3 DEF us, more
<1>13. CASE f # key.fn
  <2>1. KeysOf(us, f) = S /\ key \notin S
    BY <1>6, <1>13 DEF S, KeysOf
  <2>2. Agree(b, a, S) /\ Agree(d, c, S)
    BY <1>7, <2>1 DEF Agree
  <2>3. Total(b, S) = Total(a, S)
    BY <1>4, <2>2, TotalSame
  <2>4. Total(d, S) = Total(c, S)
    BY <1>4, <2>2, TotalSame
  <2> QED
    BY <1>3, <1>8, <1>9, <1>13, <2>1, <2>3, <2>4 DEF us
<1> QED
  BY <1>12, <1>13

\* What a step costs the routines if it costs no time.
SameSums(st, now, ts, u, later, us) ==
  /\ Reading(u, later) = Reading(st, now)
  /\ \A f \in Measured :
       /\ FiledSum(us, f, "sumSelf") + SelfOf(u, later, f)
            = FiledSum(ts, f, "sumSelf") + SelfOf(st, now, f)
       /\ FiledSum(us, f, "real") + RealOf(u, later, f)
            = FiledSum(ts, f, "real") + RealOf(st, now, f)
       /\ FiledSum(us, f, "sumSelf") \in Int /\ FiledSum(us, f, "real") \in Int
       /\ FiledSum(ts, f, "sumSelf") \in Int /\ FiledSum(ts, f, "real") \in Int
       /\ SelfOf(u, later, f) \in Int /\ RealOf(u, later, f) \in Int
       /\ SelfOf(st, now, f) \in Int /\ RealOf(st, now, f) \in Int

LEMMA SameAccount ==
  ASSUME NEW st, NEW now, NEW ts, NEW u, NEW later, NEW us, NEW B, BaseOK(B),
         SameSums(st, now, ts, u, later, us)
  PROVE  Account(u, later, us, B) = [Account(st, now, ts, B) EXCEPT !.stack = Routines(u)]
<1> DEFINE a == Account(st, now, ts, B)
           x == [f \in Measured |-> B.self[f] + FiledSum(us, f, "sumSelf") + SelfOf(u, later, f)]
           y == [f \in Measured |-> B.real[f] + FiledSum(us, f, "real") + RealOf(u, later, f)]
           z == B.spent + Reading(u, later)
<1>1. \A f \in Measured :
        /\ B.self[f] + FiledSum(us, f, "sumSelf") + SelfOf(u, later, f)
             = B.self[f] + FiledSum(ts, f, "sumSelf") + SelfOf(st, now, f)
        /\ B.real[f] + FiledSum(us, f, "real") + RealOf(u, later, f)
             = B.real[f] + FiledSum(ts, f, "real") + RealOf(st, now, f)
  <2> SUFFICES ASSUME NEW f \in Measured
               PROVE  /\ B.self[f] + FiledSum(us, f, "sumSelf") + SelfOf(u, later, f)
                           = B.self[f] + FiledSum(ts, f, "sumSelf") + SelfOf(st, now, f)
                      /\ B.real[f] + FiledSum(us, f, "real") + RealOf(u, later, f)
                           = B.real[f] + FiledSum(ts, f, "real") + RealOf(st, now, f)
    OBVIOUS
  <2> DEFINE v == B.self[f]
             w == B.real[f]
             a1 == FiledSum(us, f, "sumSelf")
             a2 == SelfOf(u, later, f)
             b1 == FiledSum(ts, f, "sumSelf")
             b2 == SelfOf(st, now, f)
             c1 == FiledSum(us, f, "real")
             c2 == RealOf(u, later, f)
             d1 == FiledSum(ts, f, "real")
             d2 == RealOf(st, now, f)
  <2>1. v \in Int /\ w \in Int
    BY DEF BaseOK
  <2>2. /\ a1 + a2 = b1 + b2 /\ c1 + c2 = d1 + d2
        /\ a1 \in Int /\ a2 \in Int /\ b1 \in Int /\ b2 \in Int
        /\ c1 \in Int /\ c2 \in Int /\ d1 \in Int /\ d2 \in Int
    BY DEF SameSums
  <2> HIDE DEF v, w, a1, a2, b1, b2, c1, c2, d1, d2
  <2>3. v + a1 + a2 = v + b1 + b2 /\ w + c1 + c2 = w + d1 + d2
    BY <2>1, <2>2
  <2> QED
    BY <2>3 DEF v, w, a1, a2, b1, b2, c1, c2, d1, d2
<1>2. a = [stack |-> Routines(st), self |-> x, real |-> y, spent |-> z]
  BY <1>1 DEF Account, SameSums
<1>3. Account(u, later, us, B) = [stack |-> Routines(u), self |-> x, real |-> y, spent |-> z]
  BY DEF Account
<1> HIDE DEF a, x, y, z
<1> QED
  BY <1>2, <1>3 DEF a

LEMMA FrontRoutines ==
  ASSUME NEW st \in Seq(Activation), NEW u \in Seq(Activation), st # <<>>,
         Len(u) = Len(st) - 1, \A i \in 1..Len(u) : u[i].fn = st[i].fn
  PROVE  Routines(u) = Times!Front(Routines(st))
<1> DEFINE fs == Routines(st)
           gs == Routines(u)
           front == Front(fs)
<1>1. /\ fs \in Seq(Fn) /\ Len(fs) = Len(st) /\ Len(st) \in Nat
      /\ \A i \in 1..Len(st) : fs[i] = st[i].fn
  BY StackFacts
<1>2. /\ gs \in Seq(Fn) /\ Len(gs) = Len(u)
      /\ \A i \in 1..Len(u) : gs[i] = u[i].fn
  BY StackFacts
<1>3. Len(st) > 0 /\ fs # <<>>
  <2>1. Len(st) # 0
    OBVIOUS
  <2> QED
    BY <1>1, <2>1
<1> HIDE DEF fs, gs
<1>4. /\ front \in Seq(Fn) /\ Len(front) = Len(fs) - 1
      /\ \A i \in 1..(Len(fs) - 1) : front[i] = fs[i]
  BY <1>1, <1>3, FrontOf
<1>5. Len(front) = Len(gs)
  BY <1>1, <1>2, <1>4
<1>6. \A i \in 1..Len(gs) : front[i] = gs[i]
  <2>1. \A i \in 1..Len(gs) : i \in 1..(Len(fs) - 1) /\ i \in 1..Len(st) /\ i \in 1..Len(u)
    BY <1>1, <1>2
  <2> QED
    BY <1>1, <1>2, <1>4, <2>1
<1> HIDE DEF front
<1>7. gs = front
  BY <1>2, <1>4, <1>5, <1>6
<1> QED
  BY <1>7 DEF gs, fs, front, Front, Times!Front

\* What function_exit does while the clock stands still.
Stopping(td) ==
  LET act == Last(td.stack)
      cumul == Now(td) - act.start
  IN  Pop(IF act.fn \in Skipped
          THEN [td EXCEPT !.skip = @ - 1, !.skipCost = @ + cumul] ELSE td)

LEMMA StoppedIsLeft ==
  ASSUME NEW m, NEW td, ThreadOK(m, td), td.stack # <<>>, td.skip > 0,
         NEW ts, FileOf(ts), NEW B, BaseOK(B)
  PROVE  LET u == Stopping(td)
         IN  /\ u.cost = td.cost
             /\ Account(u.stack, Now(u), ts, B)
                  = [Account(td.stack, Now(td), ts, B) EXCEPT !.stack = Times!Front(@)]
<1> DEFINE act == Last(td.stack)
           cumul == Now(td) - act.start
           u == Pop(IF act.fn \in Skipped
                    THEN [td EXCEPT !.skip = @ - 1, !.skipCost = @ + cumul] ELSE td)
           st == td.stack
           now == Now(td)
           later == Now(u)
<1> DEFINE w == Stopping(td)
<1>14. w = u
  BY DEF Stopping
<1>1. /\ u.cost = td.cost /\ ThreadOK(m, u) /\ u.stack = Front(st) /\ Len(u.stack) = Len(st) - 1
      /\ later = IF act.fn \in Skipped THEN act.start ELSE now
  BY ExitUnderSkipped
<1> HIDE DEF u, w
<1>2. /\ td \in ThreadData /\ act = st[Len(st)] /\ act.start \in Nat /\ now \in Nat
      /\ Front(st) \in Seq(Activation)
      /\ \A i \in 1..Len(Front(st)) : Front(st)[i] = st[i]
  BY TopOf
<1>3. st \in Seq(Activation) /\ td.skip \in Nat
  BY <1>2, ThreadFields
<1>4. later \in Nat /\ later = Resumed(st, now)
  BY <1>1, <1>2 DEF Resumed
<1>5. SkippedIn(Routines(st)) # {}
  <2>1. td.skip = Cardinality(SkippedIn(Routines(st)))
    BY DEF ThreadOK, CountsOK
  <2> DEFINE S == SkippedIn(Routines(st))
  <2>2. Cardinality({}) = 0 /\ td.skip = Cardinality(S) /\ td.skip > 0
    BY <2>1, FS_EmptySet
  <2> HIDE DEF S, st
  <2>3. ASSUME S = {} PROVE FALSE
    BY <1>3, <2>2, <2>3
  <2> QED
    BY <2>3 DEF S
<1> DEFINE v == u.stack
<1>6. v \in Seq(Activation) /\ IsBelow(v, st)
  BY <1>1, <1>2 DEF IsBelow
<1>0. st # <<>>
  OBVIOUS
<1> HIDE DEF act, st, now, later, v
<1>7. /\ Reading(v, later) = Reading(st, now)
      /\ \A f : SelfOf(v, later, f) = SelfOf(st, now, f) /\ RealOf(v, later, f) = RealOf(st, now, f)
  BY <1>0, <1>2, <1>3, <1>4, <1>5, <1>6, CostsPopStopped, SMTT(30)
<1>8. SameSums(st, now, ts, v, later, ts)
  <2>1. \A f : /\ FiledSum(ts, f, "sumSelf") \in Int /\ FiledSum(ts, f, "real") \in Int
    BY FiledType
  <2>2. \A f : /\ SelfOf(v, later, f) \in Int /\ RealOf(v, later, f) \in Int
    BY <1>4, <1>6, CostsType
  <2> QED
    BY <1>7, <2>1, <2>2 DEF SameSums
<1>9. Account(v, later, ts, B) = [Account(st, now, ts, B) EXCEPT !.stack = Routines(v)]
  BY <1>8, SameAccount
<1>10. Routines(v) = Times!Front(Routines(st))
  BY <1>0, <1>3, <1>6, FrontRoutines DEF IsBelow
<1>11. Account(st, now, ts, B).stack = Routines(st)
  BY DEF Account
<1>12. Account(v, later, ts, B) = [Account(st, now, ts, B) EXCEPT !.stack = Times!Front(@)]
  BY <1>9, <1>10, <1>11
<1>13. Account(w.stack, Now(w), ts, B)
        = [Account(td.stack, Now(td), ts, B) EXCEPT !.stack = Times!Front(@)]
  BY <1>12, <1>14 DEF v, later, st, now
<1> QED
  BY <1>1, <1>13, <1>14 DEF w

\* What function_exit does with an activation that is timed.
CostOfTop(td) == Now(td) - Last(td.stack).start
LeftBy(td) == ExitOf(td, Last(td.stack).fn)
Returning(td) == PopIntoParent(LeftBy(td), CostOfTop(td))
FiledBy(td, ts, key) ==
  IF Last(td.stack).fn \in Discarded THEN ts
  ELSE File(ts, key, CostOfTop(td), CostOfTop(td) - Last(td.stack).children,
            LeftBy(td).pending[Last(td.stack).fn] < 1)
KeyFits(td, key) ==
  Last(td.stack).fn \notin Discarded => key \in Key /\ key.fn = Last(td.stack).fn

LEMMA TimedIsLeft ==
  ASSUME NEW m, NEW td, ThreadOK(m, td), td.stack # <<>>, td.skip = 0,
         NEW ts, FileOf(ts), NEW B, BaseOK(B), NEW key, KeyFits(td, key)
  PROVE  LET u == Returning(td)
             us == FiledBy(td, ts, key)
         IN  /\ IsFiniteSet(DOMAIN us)
             /\ Account(u.stack, Now(u), us, B)
                  = [Account(td.stack, Now(td), ts, B) EXCEPT !.stack = Times!Front(@)]
<1> DEFINE act == Last(td.stack)
           g == act.fn
           children == act.children
           cumul == CostOfTop(td)
           u == Returning(td)
           us == FiledBy(td, ts, key)
           outermost == LeftBy(td).pending[g] < 1
           st == td.stack
           now == Now(td)
           v == u.stack
<1>1. /\ ThreadOK(m, u) /\ Now(u) = now /\ Len(v) = Len(st) - 1
      /\ \A i \in 1..Len(v) :
           /\ v[i].fn = st[i].fn /\ v[i].start = st[i].start
           /\ v[i].children = st[i].children + IF i = Len(v) THEN cumul ELSE 0
      /\ LeftBy(td).pending[g] = Cardinality(TimedOf(Routines(v), g))
  BY ExitTimed DEF Returning, LeftBy, CostOfTop
<1>2. /\ td \in ThreadData /\ act = st[Len(st)] /\ now \in Nat
      /\ act.fn \in Fn /\ act.start \in Nat /\ act.children \in Nat
      /\ act.start + act.children <= now
  BY TopOf
<1>3. st \in Seq(Activation) /\ v \in Seq(Activation)
  BY <1>1, <1>2, ThreadFields DEF ThreadOK
<1>4. /\ cumul \in Nat /\ cumul - children \in Nat /\ cumul = now - st[Len(st)].start
      /\ children = st[Len(st)].children
  <2> DEFINE start == act.start
  <2>1. start \in Nat /\ children \in Nat /\ now \in Nat /\ start + children <= now
        /\ cumul = now - start
    BY <1>2 DEF CostOfTop
  <2> HIDE DEF start, children, now, cumul
  <2>2. cumul \in Nat /\ cumul - children \in Nat
    BY <2>1
  <2> QED
    BY <1>2, <2>1, <2>2 DEF start, children
<1>5. SkippedIn(Routines(st)) = {}
  <2>1. td.skip = Cardinality(SkippedIn(Routines(st))) /\ Routines(st) \in Seq(Fn)
    BY <1>2, RoutinesType DEF ThreadOK, CountsOK
  <2> QED
    BY <2>1, RoutineSets
<1>6. g \notin Skipped
  <2>1. Len(st) \in 1..Len(Routines(st)) /\ Routines(st)[Len(st)] = g
    <3>1. Len(st) \in 1..Len(st)
      BY <1>3
    <3> QED
      BY <1>2, <1>3, <3>1, StackFacts
  <2> QED
    BY <1>5, <2>1 DEF SkippedIn
<1>7. LeftBy(td).pending[g] \in Nat /\ (outermost <=> TimedOf(Routines(v), g) = {})
  <2> DEFINE T == TimedOf(Routines(v), g)
  <2>1. IsFiniteSet(T)
    BY <1>1, <1>3, LiveFacts, <1>2
  <2> HIDE DEF T
  <2>2. Cardinality(T) \in Nat /\ (Cardinality(T) = 0 <=> T = {})
    BY <2>1, FS_CardinalityType, FS_EmptySet
  <2> DEFINE n == LeftBy(td).pending[g]
  <2>3. n = Cardinality(T)
    BY <1>1 DEF T
  <2> HIDE DEF n
  <2>4. n \in Nat /\ (n < 1 <=> T = {})
    BY <2>2, <2>3
  <2> QED
    BY <2>4 DEF n, T
<1>8. outermost \in BOOLEAN
  OBVIOUS
<1>9. st # <<>> /\ Returned(v, st, cumul)
  BY <1>1 DEF Returned
<1> HIDE DEF cumul, u, us, outermost, st, now, v
<1>10. /\ Reading(v, now) = now /\ Reading(st, now) = now
       /\ \A f : /\ SelfOf(v, now, f) \in Int /\ RealOf(v, now, f) \in Int
                 /\ SelfOf(st, now, f)
                      = SelfOf(v, now, f)
                          + IF f = st[Len(st)].fn THEN cumul - st[Len(st)].children ELSE 0
                 /\ RealOf(st, now, f)
                      = RealOf(v, now, f)
                          + IF f = st[Len(st)].fn /\ TimedOf(Routines(v), f) = {}
                            THEN cumul ELSE 0
  BY <1>2, <1>3, <1>4, <1>5, <1>9, CostsPopTimed, SMTT(30)
<1>11. /\ IsFiniteSet(DOMAIN us)
       /\ \A f \in Measured :
            /\ FiledSum(us, f, "sumSelf")
                 = FiledSum(ts, f, "sumSelf") + IF f = g THEN cumul - children ELSE 0
            /\ FiledSum(us, f, "real")
                 = FiledSum(ts, f, "real") + IF f = g /\ outermost THEN cumul ELSE 0
  <2>1. CASE g \in Discarded
    <3>1. us = ts /\ g \notin Measured
      BY <2>1 DEF us, FiledBy, Measured
    <3>2. \A f : FiledSum(ts, f, "sumSelf") \in Int /\ FiledSum(ts, f, "real") \in Int
      BY FiledType
    <3>3. IsFiniteSet(DOMAIN ts)
      BY DEF FileOf
    <3> HIDE DEF act, g
    <3> QED
      BY <3>1, <3>2, <3>3
  <2>2. CASE g \notin Discarded
    <3>1. key \in Key /\ key.fn = g
      BY <2>2 DEF KeyFits
    <3> DEFINE self == cumul - children
    <3>2. us = File(ts, key, cumul, self, outermost)
      BY <2>2 DEF us, FiledBy, cumul, outermost
    <3>3. self \in Nat /\ cumul \in Nat
      BY <1>4
    <3> HIDE DEF act, g, self
    <3>4. IsFiniteSet(DOMAIN us)
      BY <1>8, <3>1, <3>2, <3>3, FiledMore
    <3>5. \A f : /\ FiledSum(us, f, "sumSelf")
                      = FiledSum(ts, f, "sumSelf") + IF f = key.fn THEN self ELSE 0
                 /\ FiledSum(us, f, "real")
                      = FiledSum(ts, f, "real") + IF f = key.fn /\ outermost THEN cumul ELSE 0
      BY <1>8, <3>1, <3>2, <3>3, FiledMore
    <3> QED
      BY <3>1, <3>4, <3>5 DEF self
  <2> QED
    BY <2>1, <2>2
<1>12. SameSums(st, now, ts, v, now, us)
  <2>1. ASSUME NEW f \in Measured
        PROVE  /\ FiledSum(us, f, "sumSelf") + SelfOf(v, now, f)
                    = FiledSum(ts, f, "sumSelf") + SelfOf(st, now, f)
               /\ FiledSum(us, f, "real") + RealOf(v, now, f)
                    = FiledSum(ts, f, "real") + RealOf(st, now, f)
               /\ FiledSum(us, f, "sumSelf") \in Int /\ FiledSum(us, f, "real") \in Int
               /\ FiledSum(ts, f, "sumSelf") \in Int /\ FiledSum(ts, f, "real") \in Int
               /\ SelfOf(v, now, f) \in Int /\ RealOf(v, now, f) \in Int
               /\ SelfOf(st, now, f) \in Int /\ RealOf(st, now, f) \in Int
    <3> DEFINE a == FiledSum(ts, f, "sumSelf")
               b == FiledSum(ts, f, "real")
               c == SelfOf(v, now, f)
               d == RealOf(v, now, f)
               x == cumul - children
               self == IF f = g THEN x ELSE 0
               real == IF f = g /\ outermost THEN cumul ELSE 0
    <3>1. a \in Int /\ b \in Int
      BY FiledType
    <3>2. c \in Int /\ d \in Int
      BY <1>10
    <3>3. /\ FiledSum(us, f, "sumSelf") = a + self
          /\ FiledSum(us, f, "real") = b + real
      BY <1>11
    <3>4. /\ SelfOf(st, now, f) = c + self
          /\ RealOf(st, now, f) = d + real
      <4>1. g = st[Len(st)].fn /\ children = st[Len(st)].children
            /\ (outermost <=> TimedOf(Routines(v), g) = {})
        BY <1>2, <1>4, <1>7 DEF outermost
      <4>2. SelfOf(st, now, f) = SelfOf(v, now, f)
              + IF f = st[Len(st)].fn THEN cumul - st[Len(st)].children ELSE 0
        BY <1>10
      <4>3. RealOf(st, now, f) = RealOf(v, now, f)
              + IF f = st[Len(st)].fn /\ TimedOf(Routines(v), f) = {} THEN cumul ELSE 0
        BY <1>10
      <4> HIDE DEF act, g, children
      <4>4. SelfOf(st, now, f) = c + self
        BY <4>1, <4>2
      <4>5. f = g /\ outermost <=> f = st[Len(st)].fn /\ TimedOf(Routines(v), f) = {}
        BY <4>1
      <4>6. RealOf(st, now, f) = d + real
        BY <4>3, <4>5
      <4> QED
        BY <4>4, <4>6 DEF g, act, children
    <3>5. self \in Int /\ real \in Int
      BY <1>4
    <3> HIDE DEF a, b, c, d, self, real
    <3>6. /\ a + self + c = a + (c + self) /\ b + real + d = b + (d + real)
          /\ a + self \in Int /\ b + real \in Int /\ c + self \in Int /\ d + real \in Int
      BY <3>1, <3>2, <3>5
    <3> QED
      BY <3>1, <3>2, <3>3, <3>4, <3>6 DEF a, b, c, d
  <2> QED
    BY <1>10, <2>1 DEF SameSums
<1>13. Account(v, now, us, B) = [Account(st, now, ts, B) EXCEPT !.stack = Routines(v)]
  BY <1>12, SameAccount
<1>14. Routines(v) = Times!Front(Routines(st))
  BY <1>3, <1>9, FrontRoutines DEF Returned
<1>15. Account(st, now, ts, B).stack = Routines(st)
  BY DEF Account
<1>16. Account(v, now, us, B) = [Account(st, now, ts, B) EXCEPT !.stack = Times!Front(@)]
  BY <1>13, <1>14, <1>15
<1> QED
  BY <1>1, <1>11, <1>16 DEF u, us, v, st, now

AccountOf(r, B) == Account(r.td.stack, Now(r.td), r.tuples, B)

\* What function_exit adds to the clock of a routine that is doped.
Doping(td, size) == IF Last(td.stack).fn \in DopeFn THEN size * size ELSE 0
DopedOf(td, size) ==
  IF Last(td.stack).fn \in DopeFn THEN [td EXCEPT !.cost = @ + size * size] ELSE td

LEMMA DopedOK ==
  ASSUME NEW t \in Thread, NEW r, Exiting(t, r), r.td.stack # <<>>, NEW size \in Size
  PROVE  LET n == Doping(r.td, size)
             doped == DopedOf(r.td, size)
         IN  /\ n \in Nat /\ n <= size * size /\ r.td.cost \in Nat
             /\ ThreadOK(mode, doped) /\ doped.stack = r.td.stack /\ doped.cost = r.td.cost + n
             /\ Now(doped) = Now(r.td) + n /\ Now(r.td) \in Nat
<1> DEFINE act == Last(r.td.stack)
           n == IF act.fn \in DopeFn THEN size * size ELSE 0
           up == [r.td EXCEPT !.cost = @ + n]
           doped == IF act.fn \in DopeFn THEN [r.td EXCEPT !.cost = @ + size * size] ELSE r.td
<1>1. ThreadOK(mode, r.td)
  BY DEF Exiting
<1>2. n \in Nat /\ n <= size * size /\ r.td.cost \in Nat
  <2>1. size * size \in Nat
    BY SizeAssumption, SquareType
  <2> DEFINE m == size * size
  <2>2. m \in Nat
    BY <2>1
  <2> HIDE DEF m
  <2>3. n \in Nat /\ n <= m
    BY <2>2 DEF m
  <2>4. r.td \in ThreadData
    BY <1>1 DEF ThreadOK
  <2> QED
    BY <2>3, <2>4, ThreadFields DEF m
<1>3. /\ ThreadOK(mode, doped) /\ doped.stack = r.td.stack /\ doped.cost = r.td.cost + n
      /\ Now(doped) = Now(r.td) + n /\ Now(r.td) \in Nat
  <2>1. Now(r.td) \in Nat /\ r.td.skipCost \in Nat
    <3>1. Now(r.td) \in Nat /\ r.td \in ThreadData
      BY <1>1, TopOf
    <3> QED
      BY <3>1, ThreadFields
  <2>2. CASE act.fn \in DopeFn
    <3>1. doped = up
      BY <2>2
    <3> HIDE DEF n, doped
    <3>2. ThreadOK(mode, up) /\ up.stack = r.td.stack /\ up.cost = r.td.cost + n
          /\ up.skipCost = r.td.skipCost
      BY <1>1, <1>2, CostGrows
    <3>3. Now(up) = Now(r.td) + n
      <4> HIDE DEF up
      <4> QED
        BY <1>2, <2>1, <3>2 DEF Now
    <3> QED
      BY <2>1, <3>1, <3>2, <3>3
  <2>3. CASE act.fn \notin DopeFn
    <3>1. doped = r.td /\ n = 0
      BY <2>3
    <3> HIDE DEF n, doped
    <3> QED
      BY <1>1, <1>2, <2>1, <3>1
  <2> QED
    BY <2>2, <2>3
<1>4. n = Doping(r.td, size) /\ doped = DopedOf(r.td, size)
  BY DEF Doping, DopedOf
<1> HIDE DEF n, doped
<1> QED
  BY <1>2, <1>3, <1>4

\* An exit with what it may pay for by doping.
LEMMA ExitLeaves ==
  ASSUME NEW t \in Thread, t \in DOMAIN threads, NEW r, Exiting(t, r), r.td.stack # <<>>,
         NEW size \in Size, IsFiniteSet(DOMAIN r.tuples), NEW B, BaseOK(B)
  PROVE  LET s == function_exit(t, r, size)
         IN  /\ IsFiniteSet(DOMAIN s.tuples)
             /\ AccountOf(s, B) = Times!Leave(AccountOf(r, B), size)
             /\ s.td.cost <= r.td.cost + size * size
<1> DEFINE s == function_exit(t, r, size)
           act == Last(r.td.stack)
           n == IF act.fn \in DopeFn THEN size * size ELSE 0
           doped == IF act.fn \in DopeFn THEN [r.td EXCEPT !.cost = @ + size * size] ELSE r.td
           cumul == Now(doped) - act.start
           left == ExitOf(doped, act.fn)
           context == IF mode = "contexts" THEN doped.node[Len(doped.stack)] ELSE NoContext
           key == [owner |-> Owner(t), fn |-> act.fn, size |-> size, context |-> context]
           filed == IF act.fn \in Discarded THEN r.tuples
                    ELSE File(r.tuples, key, cumul, cumul - act.children,
                              left.pending[act.fn] < 1)
<1>1. /\ r = [td |-> r.td, tuples |-> r.tuples]
      /\ ThreadOK(mode, r.td) /\ TuplesOK(mode, r.tuples, threads)
  BY DEF Exiting
<1>2. /\ n \in Nat /\ n <= size * size /\ r.td.cost \in Nat
      /\ ThreadOK(mode, doped) /\ doped.stack = r.td.stack /\ doped.cost = r.td.cost + n
      /\ Now(doped) = Now(r.td) + n /\ Now(r.td) \in Nat
  <2>1. n = Doping(r.td, size) /\ doped = DopedOf(r.td, size)
    BY DEF Doping, DopedOf
  <2> HIDE DEF n, doped
  <2> QED
    BY <2>1, DopedOK
<1>3. /\ ThreadOK(mode, doped) /\ doped.stack = r.td.stack /\ doped.cost = r.td.cost + n
      /\ Now(doped) = Now(r.td) + n /\ Now(r.td) \in Nat
  BY <1>2
<1> HIDE DEF doped
<1>4. act = Last(doped.stack) /\ doped.stack # <<>> /\ FileOf(r.tuples)
  BY <1>1, <1>3 DEF FileOf, TuplesOK
<1> DEFINE a == AccountOf(r, B)
           b == Account(doped.stack, Now(doped), r.tuples, B)
<1>5. b = Times!Spend(a, n)
  <2> DEFINE st == r.td.stack
             now == Now(r.td)
  <2>1. st \in Seq(Activation) /\ now \in Nat
    <3>1. r.td \in ThreadData
      BY <1>1 DEF ThreadOK
    <3> QED
      BY <1>3, <3>1, ThreadFields
  <2>2. Account(st, now + n, r.tuples, B) = Times!Spend(Account(st, now, r.tuples, B), n)
    <3> HIDE DEF n, st, now
    <3> QED
      BY <1>2, <1>4, <2>1, AccountTicks
  <2> QED
    BY <1>3, <2>2 DEF AccountOf
<1>6. Times!Leave(a, size) = [b EXCEPT !.stack = Times!Front(@)]
  <2>1. a.stack = Routines(r.td.stack)
    BY DEF AccountOf, Account
  <2>2. Times!Last(a.stack) = act.fn
    <3> DEFINE st == r.td.stack
    <3>1. st \in Seq(Activation) /\ act = st[Len(st)] /\ st # <<>>
      <4>1. r.td \in ThreadData /\ act = st[Len(st)]
        BY <1>1, TopOf
      <4> QED
        BY <4>1, ThreadFields
    <3> HIDE DEF st, act
    <3>2. Last(Routines(st)) = act.fn
      BY <3>1, RoutineIn
    <3> QED
      BY <2>1, <3>2 DEF st, Times!Last, Last
  <2> HIDE DEF a, b, act
  <2>3. n = IF Times!Last(a.stack) \in DopeFn THEN size * size ELSE 0
    BY <2>2
  <2> HIDE DEF n
  <2> QED
    BY <1>5, <2>3 DEF Times!Leave
<1>9. doped.cost <= r.td.cost + size * size
  <2> DEFINE m == size * size
             c == r.td.cost
  <2>1. n <= m /\ m \in Nat /\ c \in Nat /\ n \in Nat /\ doped.cost = c + n
    BY <1>2, <1>3, SizeAssumption, SquareType
  <2> HIDE DEF m, c, n
  <2>2. doped.cost <= c + m
    BY <2>1
  <2> QED
    BY <2>2 DEF m, c
<1>7. CASE doped.skip > 0
  <2> DEFINE u == Pop(IF act.fn \in Skipped
                      THEN [doped EXCEPT !.skip = @ - 1, !.skipCost = @ + cumul]
                      ELSE doped)
  <2>1. s = [r EXCEPT !.td = u]
    BY <1>7 DEF function_exit, doped
  <2>2. /\ u.cost = doped.cost
        /\ Account(u.stack, Now(u), r.tuples, B) = [b EXCEPT !.stack = Times!Front(@)]
    <3>1. u = Stopping(doped)
      BY <1>4 DEF Stopping
    <3> HIDE DEF u, b
    <3> QED
      BY <1>3, <1>4, <1>7, <3>1, StoppedIsLeft DEF b
  <2> HIDE DEF u, s
  <2>3. s.td = u /\ s.tuples = r.tuples
    BY <1>1, <2>1
  <2>4. AccountOf(s, B) = Times!Leave(a, size)
    BY <1>6, <2>2, <2>3 DEF AccountOf
  <2>5. s.td.cost <= r.td.cost + size * size
    BY <1>9, <2>2, <2>3
  <2> QED
    BY <2>3, <2>4, <2>5 DEF s
<1>8. CASE ~ (doped.skip > 0)
  <2> DEFINE u == PopIntoParent(left, cumul)
  <2>1. s = [td |-> u, tuples |-> filed]
    BY <1>8 DEF function_exit, doped
  <2>2. doped.skip = 0
    <3>1. doped \in ThreadData
      BY <1>3 DEF ThreadOK
    <3> QED
      BY <1>8, <3>1, ThreadFields
  <2>3. u = Returning(doped) /\ filed = FiledBy(doped, r.tuples, key)
    BY <1>4 DEF Returning, FiledBy, LeftBy, CostOfTop
  <2>4. KeyFits(doped, key)
    <3> SUFFICES ASSUME act.fn \notin Discarded
                 PROVE  key \in Key /\ key.fn = act.fn
      BY <1>4 DEF KeyFits
    <3>1. act.fn \in Fn
      BY <1>3, <1>4, TopOf
    <3>2. /\ act.fn \notin Skipped
          /\ mode = "contexts" => doped.node[Len(doped.stack)] \in Context
      BY <1>3, <1>4, <2>2, TopIsTimed
    <3>3. context \in Context
      BY <3>2, NoContextType
    <3>4. act.fn \in Measured
      BY <3>1, <3>2 DEF Measured
    <3>5. Owner(t) \in Thread \cup {Shared}
      BY DEF Owner
    <3> HIDE DEF act, context
    <3> QED
      BY <3>3, <3>4, <3>5 DEF Key
  <2>5. u.cost = doped.cost
    <3> DEFINE top == Last(doped.stack)
               v == PopIntoParent(ExitOf(doped, top.fn), Now(doped) - top.start)
    <3>1. v.cost = doped.cost
      BY <1>3, <1>4, <2>2, ExitTimed
    <3> QED
      BY <1>4, <3>1
  <2> HIDE DEF u, filed, key, s, b
  <2>6. /\ IsFiniteSet(DOMAIN filed)
        /\ Account(u.stack, Now(u), filed, B) = [b EXCEPT !.stack = Times!Front(@)]
    BY <1>3, <1>4, <2>2, <2>3, <2>4, TimedIsLeft DEF b
  <2>7. s.td = u /\ s.tuples = filed
    BY <2>1
  <2>8. AccountOf(s, B) = Times!Leave(a, size)
    BY <1>6, <2>6, <2>7 DEF AccountOf
  <2>9. s.td.cost <= r.td.cost + size * size
    BY <1>9, <2>5, <2>7
  <2> QED
    BY <2>6, <2>7, <2>8, <2>9 DEF s
<1> QED
  BY <1>7, <1>8

\* The largest input size, and what an exit pays for by doping at most.
Worst == CHOOSE worst \in Size :
           /\ \A size \in Size : size <= worst
           /\ \A m \in {"threads", "contexts", "single"} :
                MaxBlocks[m] * (1 + worst * worst) < ULongSpan
Square == Worst * Worst

LEMMA SquaresBound ==
  /\ Worst \in Size /\ Square \in Nat
  /\ \A size \in Size : size * size \in Nat /\ size * size <= Square
  /\ \A m \in {"threads", "contexts", "single"} : MaxBlocks[m] * (1 + Square) < ULongSpan
<1>1. /\ Worst \in Size
      /\ \A size \in Size : size <= Worst
      /\ \A m \in {"threads", "contexts", "single"} :
                MaxBlocks[m] * (1 + Worst * Worst) < ULongSpan
  BY ClockAssumption DEF Worst
<1>2. Square \in Nat
  BY <1>1, SizeAssumption, SquareType DEF Square
<1>3. ASSUME NEW size \in Size
      PROVE  size * size \in Nat /\ size * size <= Square
  <2>1. size \in Nat /\ Worst \in Nat /\ size <= Worst
    BY <1>1, SizeAssumption
  <2>2. /\ size * size \in Nat /\ Worst * size \in Nat /\ size * size <= Worst * size
        /\ size * Worst \in Nat /\ Worst * Worst \in Nat /\ size * Worst <= Worst * Worst
    BY <2>1, ProductGrows
  <2>3. size * Worst = Worst * size
    BY <2>1
  <2> DEFINE a == size * size
             b == Worst * size
             c == Worst * Worst
  <2>4. a \in Nat /\ b \in Nat /\ c \in Nat /\ a <= b /\ b <= c
    BY <2>2, <2>3
  <2> HIDE DEF a, b, c
  <2>5. a <= c
    BY <2>4
  <2> QED
    BY <2>4, <2>5 DEF a, c, Square
<1> QED
  BY <1>1, <1>2, <1>3 DEF Square

\* LeaveMany is one exit after another.
Leaves(L, n, sizes) == \A k \in 1..n : L[k] = Times!Leave(L[k - 1], sizes[k])

LEMMA LeaveManyIs ==
  ASSUME NEW n \in Nat, NEW sizes, NEW L, Leaves(L, n, sizes)
  PROVE  Times!LeaveMany(L[0], n, sizes) = L[n]
<1> DEFINE a == L[0]
           P(g) == g = [k \in 0..n |-> IF k = 0 THEN a ELSE Times!Leave(g[k - 1], sizes[k])]
           left == CHOOSE g : P(g)
           known == [k \in 0..n |-> L[k]]
           S == {k \in Nat : k <= n => left[k] = L[k]}
<1>1. Times!LeaveMany(a, n, sizes) = left[n]
  <2> HIDE DEF a
  <2> QED
    BY DEF Times!LeaveMany
<1>2. P(known)
  <2>1. ASSUME NEW k \in 0..n
        PROVE  L[k] = IF k = 0 THEN a ELSE Times!Leave(known[k - 1], sizes[k])
    <3>1. CASE k = 0
      BY <3>1
    <3>2. CASE k # 0
      <4>1. k \in 1..n /\ k - 1 \in 0..n
        BY <3>2
      <4>2. known[k - 1] = L[k - 1]
        BY <4>1
      <4> HIDE DEF known
      <4> QED
        BY <3>2, <4>1, <4>2 DEF Leaves
    <3> QED
      BY <3>1, <3>2
  <2> HIDE DEF a
  <2> QED
    BY <2>1
<1>3. P(left)
  <2> HIDE DEF P, known
  <2> QED
    BY <1>2
<1> HIDE DEF left, known
<1>4. \A k \in 0..n : left[k] = IF k = 0 THEN a ELSE Times!Leave(left[k - 1], sizes[k])
  <2> HIDE DEF a
  <2> QED
    BY <1>3
<1>5. 0 \in S
  BY <1>4
<1>6. ASSUME NEW k \in S PROVE k + 1 \in S
  <2> SUFFICES ASSUME k + 1 <= n PROVE left[k + 1] = L[k + 1]
    OBVIOUS
  <2>1. k + 1 \in 1..n /\ k + 1 \in 0..n /\ k + 1 # 0 /\ k + 1 - 1 = k /\ k <= n
    OBVIOUS
  <2>2. left[k] = L[k]
    BY <2>1
  <2>3. left[k + 1] = Times!Leave(left[k], sizes[k + 1])
    BY <1>4, <2>1
  <2>4. L[k + 1] = Times!Leave(L[k], sizes[k + 1])
    BY <2>1 DEF Leaves
  <2> QED
    BY <2>2, <2>3, <2>4
<1>7. n \in S
  <2>1. S \in SUBSET Nat
    OBVIOUS
  <2> HIDE DEF S
  <2> QED
    BY <1>5, <1>6, <2>1, SetInduction
<1> QED
  BY <1>1, <1>7

\* A routine that returns is off the stack.
LEMMA LeaveStack ==
  ASSUME NEW st, NEW now, NEW ts, NEW B, NEW size
  PROVE  Times!Leave(Account(st, now, ts, B), size).stack = Times!Front(Routines(st))
<1> DEFINE a == Account(st, now, ts, B)
           n == IF Times!Last(a.stack) \in DopeFn THEN size * size ELSE 0
           b == Times!Spend(a, n)
<1>1. /\ a = [stack |-> a.stack, self |-> a.self, real |-> a.real, spent |-> a.spent]
      /\ a.stack = Routines(st)
  BY DEF Account
<1> HIDE DEF a, n
<1>2. b = [stack |-> a.stack, self |-> b.self, real |-> b.real, spent |-> b.spent]
  BY <1>1 DEF Times!Spend
<1>3. Times!Leave(a, size) = [b EXCEPT !.stack = Times!Front(@)]
  BY DEF Times!Leave, n
<1> HIDE DEF b
<1>4. Times!Leave(a, size).stack = Times!Front(a.stack)
  BY <1>2, <1>3
<1> QED
  BY <1>1, <1>4 DEF a

LEMMA ExitsLeave ==
  ASSUME NEW t \in Thread, t \in DOMAIN threads, NEW r, Exiting(t, r),
         NEW n \in Nat, n <= Len(r.td.stack), NEW sizes \in [1..n -> Size],
         IsFiniteSet(DOMAIN r.tuples), NEW B, BaseOK(B)
  PROVE  LET s == ExitMany(t, r, n, sizes)
         IN  /\ IsFiniteSet(DOMAIN s.tuples)
             /\ AccountOf(s, B) = Times!LeaveMany(AccountOf(r, B), n, sizes)
             /\ s.td.cost <= r.td.cost + n * Square
             /\ \A i \in 1..Len(s.td.stack) : s.td.stack[i].fn = r.td.stack[i].fn
<1>1. PICK f : Exits(f, t, r, n, sizes) /\ ExitMany(t, r, n, sizes) = f[n]
  BY ExitManyIsLast
<1>2. \A k \in 0..n : f[k] = IF k = 0 THEN r ELSE function_exit(t, f[k - 1], sizes[k])
  BY <1>1, Zenon DEF Exits
<1> DEFINE q == Square
           c == r.td.cost
           Reached(k) == /\ Exiting(t, f[k]) /\ Len(f[k].td.stack) = Len(r.td.stack) - k
                         /\ IsFiniteSet(DOMAIN f[k].tuples)
                         /\ f[k].td.cost <= c + k * q
                         /\ \A i \in 1..Len(f[k].td.stack) :
                              f[k].td.stack[i].fn = r.td.stack[i].fn
           S == {k \in Nat : k <= n => Reached(k)}
<1>3. Len(r.td.stack) \in Nat /\ c \in Nat
  <2>1. r.td \in ThreadData
    BY DEF Exiting, ThreadOK
  <2> QED
    BY <2>1, ThreadFields
<1>4. q \in Nat
  BY SquaresBound
<1>5. 0 \in S
  <2>1. f[0] = r
    BY <1>2
  <2> HIDE DEF q
  <2>2. c <= c + 0 * q
    BY <1>3, <1>4
  <2> QED
    BY <1>3, <2>1, <2>2
<1>6. ASSUME NEW k \in Nat, k + 1 <= n, Reached(k)
      PROVE  /\ Reached(k + 1)
             /\ AccountOf(f[k + 1], B) = Times!Leave(AccountOf(f[k], B), sizes[k + 1])
  <2> DEFINE x == f[k]
             y == f[k + 1]
             size == sizes[k + 1]
  <2>1. y = function_exit(t, x, size) /\ size \in Size
    <3>1. k + 1 \in 0..n /\ k + 1 \in 1..n /\ k + 1 # 0 /\ k + 1 - 1 = k
      BY <1>6
    <3> QED
      BY <1>2, <3>1
  <2>2. /\ Exiting(t, x) /\ Len(x.td.stack) = Len(r.td.stack) - k
        /\ IsFiniteSet(DOMAIN x.tuples) /\ x.td.cost <= c + k * q
        /\ \A i \in 1..Len(x.td.stack) : x.td.stack[i].fn = r.td.stack[i].fn
    BY <1>6
  <2>3. x.td.stack # <<>>
    <3>1. Len(x.td.stack) # 0
      <4> HIDE DEF x
      <4> QED
        BY <1>3, <1>6, <2>2
    <3> QED
      BY <3>1
  <2> HIDE DEF x, y, c, size
  <2>4. Exiting(t, y) /\ Len(y.td.stack) = Len(x.td.stack) - 1
    BY <2>1, <2>2, <2>3, ExitKeeps
  <2>5. /\ IsFiniteSet(DOMAIN y.tuples)
        /\ AccountOf(y, B) = Times!Leave(AccountOf(x, B), size)
        /\ y.td.cost <= x.td.cost + size * size
    BY <2>1, <2>2, <2>3, ExitLeaves
  <2>6. x.td.cost \in Nat /\ y.td.cost \in Nat
    <3>1. x.td \in ThreadData /\ y.td \in ThreadData
      BY <2>2, <2>4 DEF Exiting, ThreadOK
    <3> QED
      BY <3>1, ThreadFields
  <2>11. size * size \in Nat /\ size * size <= q
    BY <2>1, SquaresBound
  <2> HIDE DEF q
  <2>7. y.td.cost <= c + (k + 1) * q
    <3> DEFINE kq == k * q
               u == x.td.cost
               v == y.td.cost
               z == size * size
    <3>1. kq \in Nat /\ (k + 1) * q = kq + q
      BY <1>4, ProductGrows
    <3>2. u <= c + kq /\ v <= u + z /\ z \in Nat /\ z <= q /\ u \in Nat /\ v \in Nat
      BY <2>2, <2>5, <2>6, <2>11
    <3> HIDE DEF kq, u, v, z
    <3>3. v <= c + (kq + q)
      BY <1>3, <1>4, <3>1, <3>2
    <3> QED
      BY <3>1, <3>3 DEF v
  <2>8. Len(y.td.stack) = Len(r.td.stack) - (k + 1)
    <3> DEFINE a == Len(r.td.stack)
               b == Len(x.td.stack)
               d == Len(y.td.stack)
    <3>1. a \in Nat /\ b = a - k /\ d = b - 1 /\ k \in Nat
      BY <1>3, <2>2, <2>4
    <3> HIDE DEF a, b, d
    <3>2. d = a - (k + 1)
      BY <3>1
    <3> QED
      BY <3>2 DEF a, d
  <2>9. \A i \in 1..Len(y.td.stack) : y.td.stack[i].fn = x.td.stack[i].fn
    <3>1. x.td \in ThreadData /\ y.td \in ThreadData
      BY <2>2, <2>4 DEF Exiting, ThreadOK
    <3> DEFINE v == x.td.stack
               w == y.td.stack
    <3>2. v \in Seq(Activation) /\ w \in Seq(Activation)
      BY <3>1, ThreadFields
    <3>3. Routines(w) = Times!Front(Routines(v))
      <4>1. AccountOf(y, B).stack = Routines(w)
        BY DEF AccountOf, Account
      <4>2. AccountOf(x, B) = Account(v, Now(x.td), x.tuples, B)
        BY DEF AccountOf
      <4> HIDE DEF v, w
      <4> QED
        BY <2>5, <4>1, <4>2, LeaveStack
    <3> HIDE DEF v, w
    <3>4. Len(w) = Len(v) - 1
      BY <2>4 DEF v, w
    <3>5. /\ Routines(v) \in Seq(Fn) /\ Len(Routines(v)) = Len(v) /\ Len(v) \in Nat
          /\ \A i \in 1..Len(v) : Routines(v)[i] = v[i].fn
          /\ \A i \in 1..Len(w) : Routines(w)[i] = w[i].fn
      BY <3>2, StackFacts
    <3> DEFINE fs == Routines(v)
    <3>6. \A i \in 1..(Len(v) - 1) : Times!Front(fs)[i] = fs[i]
      <4> HIDE DEF fs
      <4> QED
        BY <3>5 DEF Times!Front, fs
    <3> QED
      BY <3>3, <3>4, <3>5, <3>6 DEF v, w
  <2>10. \A i \in 1..Len(y.td.stack) : y.td.stack[i].fn = r.td.stack[i].fn
    <3> DEFINE a == Len(y.td.stack)
               b == Len(x.td.stack)
    <3>1. a = b - 1 /\ b = Len(r.td.stack) - k
      BY <2>2, <2>4
    <3> HIDE DEF a, b
    <3>2. \A i \in 1..a : i \in 1..b
      BY <1>3, <1>6, <3>1
    <3> QED
      BY <2>2, <2>9, <3>2 DEF a, b
  <2> QED
    BY <2>4, <2>5, <2>7, <2>8, <2>10 DEF x, y, size
<1>7. ASSUME NEW k \in S
      PROVE  k + 1 \in S
  <2>1. k \in Nat
    OBVIOUS
  <2>2. SUFFICES ASSUME k + 1 <= n PROVE Reached(k + 1)
    OBVIOUS
  <2>3. k <= n
    BY <2>1, <2>2
  <2>4. Reached(k)
    BY <2>3
  <2> HIDE DEF Reached
  <2> QED
    BY <1>6, <2>1, <2>2, <2>4
<1>8. \A k \in Nat : k \in S
  <2>1. S \in SUBSET Nat
    OBVIOUS
  <2> HIDE DEF S
  <2> QED
    BY <1>5, <1>7, <2>1, SetInduction
<1>9. \A k \in 0..n : Reached(k)
  <2> HIDE DEF Reached
  <2> QED
    BY <1>8
<1> DEFINE L == [k \in 0..n |-> AccountOf(f[k], B)]
<1>10. \A k \in 1..n : L[k] = Times!Leave(L[k - 1], sizes[k])
  <2> SUFFICES ASSUME NEW k \in 1..n PROVE L[k] = Times!Leave(L[k - 1], sizes[k])
    OBVIOUS
  <2> DEFINE j == k - 1
  <2>1. j \in Nat /\ j + 1 <= n /\ k = j + 1 /\ j \in 0..n /\ k \in 0..n
    OBVIOUS
  <2> HIDE DEF j, Reached
  <2>2. AccountOf(f[j + 1], B) = Times!Leave(AccountOf(f[j], B), sizes[k])
    BY <1>6, <1>9, <2>1
  <2>3. L[k] = AccountOf(f[j + 1], B) /\ L[j] = AccountOf(f[j], B)
    BY <2>1
  <2> HIDE DEF L
  <2> QED
    BY <2>2, <2>3 DEF j
<1>11. L[0] = AccountOf(r, B) /\ L[n] = AccountOf(f[n], B)
  BY <1>2
<1> HIDE DEF L
<1>12. AccountOf(f[n], B) = Times!LeaveMany(AccountOf(r, B), n, sizes)
  <2>1. Leaves(L, n, sizes)
    BY <1>10 DEF Leaves
  <2> QED
    BY <1>11, <2>1, LeaveManyIs
<1>13. Reached(n)
  <2>1. n \in 0..n
    BY <1>1
  <2> HIDE DEF Reached
  <2> QED
    BY <1>9, <2>1
<1> QED
  BY <1>1, <1>12, <1>13

-----------------------------------------------------------------------------
(* What has been counted so far, as sums.                                  *)

LEMMA SumOfIs ==
  ASSUME NEW f, IsFiniteSet(DOMAIN f), NEW h, Agree(f, h, DOMAIN f)
  PROVE  SumOf(f) = Total(h, DOMAIN f)
<1> DEFINE D == DOMAIN f
           P(i) == i = [s \in SUBSET D |->
                          IF s = {} THEN 0
                          ELSE f[CHOOSE x \in s : TRUE] + i[s \ {CHOOSE x \in s : TRUE}]]
           sums == CHOOSE i : P(i)
<1>1. SumOf(f) = sums[D]
  BY DEF SumOf, MapThenSumSet, MapThenFoldSet
<1>2. \A i : P(i) <=> SumsUp(f, D, i)
  BY DEF SumsUp, Some
<1>3. \E i : P(i)
  <2> HIDE DEF P
  <2> QED
    BY <1>2, SumsExist
<1>4. P(sums)
  <2> HIDE DEF P
  <2> QED
    BY <1>3
<1> HIDE DEF P, sums
<1>5. SumsUp(f, D, sums)
  BY <1>2, <1>4
<1>6. Agree(h, f, D)
  BY DEF Agree
<1>7. Total(h, D) = sums[D]
  BY <1>5, <1>6, TotalIs
<1> QED
  BY <1>1, <1>7

\* The threads' costs.
SelfAt(ths, f) == [t \in DOMAIN ths |-> SelfOf(ths[t].stack, Now(ths[t]), f)]
RealAt(ths, f) == [t \in DOMAIN ths |-> RealOf(ths[t].stack, Now(ths[t]), f)]
ReadingAt(ths) == [t \in DOMAIN ths |-> Reading(ths[t].stack, Now(ths[t]))]

\* The reports'.
TuplesIn(ps) == UNION {{<<i, p[1], p[2]>> : p \in ps[i].tuples} : i \in DOMAIN ps}
PrintedOf(ps, f) == {p \in TuplesIn(ps) : p[2].fn = f}
PrintedField(ps, field) == [p \in TuplesIn(ps) |-> p[3][field]]
PrintedSum(ps, f, field) == Total(PrintedField(ps, field), PrintedOf(ps, f))
TimesIn(ps) == [i \in DOMAIN ps |-> (ps[i].k + ps[i].skipped) % ULongSpan]
PrintedTime(ps) == Total(TimesIn(ps), DOMAIN ps)

\* What the threads of a single report that have ended have cost.
Ended(m, ps, ex) ==
  IF m = "single" /\ ps = <<>> THEN (ex.cost + ex.skipped) % ULongSpan ELSE 0

SelfSum ==
  [f \in Measured |-> FiledSum(tuples, f, "sumSelf") + PrintedSum(printed, f, "sumSelf")
                        + Total(SelfAt(threads, f), DOMAIN threads)]
RealSum ==
  [f \in Measured |-> FiledSum(tuples, f, "real") + PrintedSum(printed, f, "real")
                        + Total(RealAt(threads, f), DOMAIN threads)]
SpentSum ==
  Total(ReadingAt(threads), DOMAIN threads) + Ended(mode, printed, extra)
  + PrintedTime(printed)

Finite ==
  /\ IsFiniteSet(DOMAIN threads) /\ IsFiniteSet(DOMAIN tuples)
  /\ IsFiniteSet(TuplesIn(printed))

\* What one thread's activations have cost.
LEMMA OnStack ==
  ASSUME NEW t \in Thread, t \in DOMAIN threads, ThreadOK(mode, threads[t]), NEW f
  PROVE  LET st == threads[t].stack
             now == Now(threads[t])
         IN  /\ SelfOnStack(t, f) = SelfOf(st, now, f)
             /\ RealOnStack(t, f) = RealOf(st, now, f)
             /\ Clock(t) = Reading(st, now)
             /\ SelfOf(st, now, f) \in Int /\ RealOf(st, now, f) \in Int
             /\ Reading(st, now) \in Nat
<1> DEFINE st == threads[t].stack
           now == Now(threads[t])
           T == TimedOf(Routines(st), f)
           F == FirstOf(st, f)
<1>1. st \in Seq(Activation) /\ now \in Nat /\ Len(st) \in Nat
  BY ThreadFields DEF ThreadOK, ClockOK, Now
<1>2. /\ Stacks[t] = Routines(st) /\ Timed(t) = TimedIn(Routines(st))
  BY StacksAre DEF Alive
<1> HIDE DEF now
<1>3. /\ Reading(st, now) \in Nat
      /\ \A i \in 1..Len(st) : LiveOf(st, now)[i] \in Int /\ SinceOf(st, now)[i] \in Int
      /\ IsFiniteSet(T) /\ T \subseteq 1..Len(st) /\ F \subseteq T /\ IsFiniteSet(F)
      /\ Timing(st) \in 0..Len(st)
  BY <1>1, LiveFacts
<1>4. Clock(t) = Reading(st, now)
  BY <1>2 DEF Clock, Reading, Timing, now
<1>5. \A i \in T : LiveSelf(t, i) = LiveOf(st, now)[i]
  <2> SUFFICES ASSUME NEW i \in T PROVE LiveSelf(t, i) = LiveOf(st, now)[i]
    OBVIOUS
  <2>1. i \in 1..Len(st) /\ (i + 1 \in DOMAIN st <=> i < Len(st))
    <3> HIDE DEF T
    <3> QED
      BY <1>1, <1>3
  <2> HIDE DEF T
  <2> QED
    BY <1>4, <2>1 DEF LiveSelf, LiveOf
<1>6. SelfOnStack(t, f) = Total(LiveOf(st, now), T)
  <2> DEFINE g == [i \in T |-> LiveSelf(t, i)]
  <2>1. SelfOnStack(t, f) = SumOf(g)
    BY <1>2 DEF SelfOnStack, TimedOf
  <2>2. DOMAIN g = T /\ Agree(g, LiveOf(st, now), T)
    <3> HIDE DEF T
    <3> QED
      BY <1>5 DEF Agree
  <2> HIDE DEF g, T
  <2> QED
    BY <1>3, <2>1, <2>2, SumOfIs
<1>7. RealOnStack(t, f) = Total(SinceOf(st, now), F)
  <2> DEFINE g == [i \in F |-> Clock(t) - threads[t].stack[i].start]
  <2>0. Outermost(t, f) = F
    BY <1>2 DEF Outermost, FirstOf, TimedOf
  <2>1. RealOnStack(t, f) = SumOf(g)
    BY <2>0 DEF RealOnStack
  <2>2. F \subseteq 1..Len(st)
    BY <1>3
  <2>3. DOMAIN g = F /\ Agree(g, SinceOf(st, now), F)
    <3> HIDE DEF F
    <3> QED
      BY <1>4, <2>2 DEF Agree, SinceOf
  <2> HIDE DEF g, F
  <2> QED
    BY <1>3, <2>1, <2>3, SumOfIs
<1>8. SelfOf(st, now, f) \in Int /\ RealOf(st, now, f) \in Int
  BY <1>1, CostsType
<1> QED
  BY <1>3, <1>4, <1>6, <1>7, <1>8 DEF SelfOf, RealOf, now

StackMap == [t \in Thread |-> IF t \in DOMAIN threads THEN Routines(threads[t].stack) ELSE <<>>]

\* The tuples of reports hold numbers.
PrintedType(ps) ==
  \A p \in TuplesIn(ps) : /\ p[3].sumSelf \in Nat /\ p[3].real \in Nat

LEMMA ReportsType ==
  ASSUME NEW m, NEW ps, ps \in Seq(Report), \A i \in 1..Len(ps) : ReportOK(m, ps[i])
  PROVE  /\ PrintedType(ps) /\ DOMAIN ps = 1..Len(ps) /\ Len(ps) \in Nat
         /\ \A i \in 1..Len(ps) : TimesIn(ps)[i] \in Nat
<1>1. DOMAIN ps = 1..Len(ps) /\ Len(ps) \in Nat
  OBVIOUS
<1>2. \A i \in 1..Len(ps) : ps[i] \in Report
  OBVIOUS
<1>3. PrintedType(ps)
  <2> SUFFICES ASSUME NEW p \in TuplesIn(ps)
               PROVE  p[3].sumSelf \in Nat /\ p[3].real \in Nat
    BY DEF PrintedType
  <2>1. PICK i \in 1..Len(ps) : \E q \in ps[i].tuples : p = <<i, q[1], q[2]>>
    BY <1>1 DEF TuplesIn
  <2>2. PICK q \in ps[i].tuples : p = <<i, q[1], q[2]>>
    BY <2>1
  <2>3. q \in Key \X Tuple
    BY <1>2, <2>2 DEF Report
  <2>4. q[2] \in Tuple
    BY <2>3
  <2> QED
    BY <2>2, <2>4 DEF Tuple
<1>4. \A i \in 1..Len(ps) : TimesIn(ps)[i] \in Nat
  <2> SUFFICES ASSUME NEW i \in 1..Len(ps) PROVE TimesIn(ps)[i] \in Nat
    OBVIOUS
  <2> DEFINE x == ps[i].k + ps[i].skipped
  <2>1. ps[i].k \in Nat /\ ps[i].skipped \in Nat
    <3>1. ps[i] \in Report /\ 0..(ULongSpan - 1) \subseteq Nat
      BY <1>2, BoundsAssumption
    <3>2. ps[i].k \in 0..(ULongSpan - 1) /\ ps[i].skipped \in Nat
      BY <3>1 DEF Report
    <3> QED
      BY <3>1, <3>2
  <2>2. x \in Int
    BY <2>1
  <2> HIDE DEF x
  <2>3. x % ULongSpan \in Nat
    BY <2>2, Modulo, BoundsAssumption
  <2> QED
    BY <1>1, <2>3 DEF TimesIn, x
<1> QED
  BY <1>1, <1>3, <1>4

LEMMA FiledIs ==
  ASSUME NEW f, NEW field, Finite
  PROVE  Filed(f, field) = FiledSum(tuples, f, field) + PrintedSum(printed, f, field)
<1> DEFINE K == KeysOf(tuples, f)
           P == PrintedOf(printed, f)
           g == [k \in K |-> tuples[k][field]]
           h == [p \in P |-> p[3][field]]
<1>1. IsFiniteSet(K) /\ IsFiniteSet(P)
  BY FS_Subset DEF Finite, KeysOf, PrintedOf
<1>2. Filed(f, field) = SumOf(g) + SumOf(h)
  BY DEF Filed, KeysOf, PrintedOf, TuplesIn, PrintedTuples
<1>3. DOMAIN g = K /\ Agree(g, FieldOf(tuples, field), K)
  BY DEF Agree, FieldOf, KeysOf
<1>4. DOMAIN h = P /\ Agree(h, PrintedField(printed, field), P)
  BY DEF Agree, PrintedField, PrintedOf
<1> HIDE DEF g, h, K, P
<1>5. SumOf(g) = Total(FieldOf(tuples, field), K)
  BY <1>1, <1>3, SumOfIs
<1>6. SumOf(h) = Total(PrintedField(printed, field), P)
  BY <1>1, <1>4, SumOfIs
<1> QED
  BY <1>2, <1>5, <1>6 DEF FiledSum, PrintedSum, K, P

LEMMA SelfIs == IInv /\ Finite => SelfSoFar = SelfSum
<1> SUFFICES ASSUME IInv, Finite, NEW f \in Measured
             PROVE  /\ Filed(f, "sumSelf") + SumOf([t \in Alive |-> SelfOnStack(t, f)])
                       = FiledSum(tuples, f, "sumSelf") + PrintedSum(printed, f, "sumSelf")
                           + Total(SelfAt(threads, f), DOMAIN threads)
  BY DEF SelfSoFar, SelfSum
<1> DEFINE g == [t \in Alive |-> SelfOnStack(t, f)]
<1>1. DOMAIN g = DOMAIN threads /\ IsFiniteSet(DOMAIN threads)
  BY DEF Alive, Finite
<1>2. ASSUME NEW t \in DOMAIN threads PROVE g[t] = SelfAt(threads, f)[t]
  <2>1. t \in Thread /\ ThreadOK(mode, threads[t])
    BY <1>2 DEF IInv
  <2>2. SelfOnStack(t, f) = SelfOf(threads[t].stack, Now(threads[t]), f)
    BY <2>1, OnStack
  <2> QED
    BY <2>2 DEF SelfAt, Alive
<1>3. Agree(g, SelfAt(threads, f), DOMAIN threads)
  BY <1>2 DEF Agree
<1> HIDE DEF g
<1>4. SumOf(g) = Total(SelfAt(threads, f), DOMAIN threads)
  BY <1>1, <1>3, SumOfIs
<1>5. Filed(f, "sumSelf")
        = FiledSum(tuples, f, "sumSelf") + PrintedSum(printed, f, "sumSelf")
  BY FiledIs
<1> QED
  BY <1>4, <1>5 DEF g

LEMMA RealsAre == IInv /\ Finite => RealSoFar = RealSum
<1> SUFFICES ASSUME IInv, Finite, NEW f \in Measured
             PROVE  /\ Filed(f, "real") + SumOf([t \in Alive |-> RealOnStack(t, f)])
                       = FiledSum(tuples, f, "real") + PrintedSum(printed, f, "real")
                           + Total(RealAt(threads, f), DOMAIN threads)
  BY DEF RealSoFar, RealSum
<1> DEFINE g == [t \in Alive |-> RealOnStack(t, f)]
<1>1. DOMAIN g = DOMAIN threads /\ IsFiniteSet(DOMAIN threads)
  BY DEF Alive, Finite
<1>2. ASSUME NEW t \in DOMAIN threads PROVE g[t] = RealAt(threads, f)[t]
  <2>1. t \in Thread /\ ThreadOK(mode, threads[t])
    BY <1>2 DEF IInv
  <2>2. RealOnStack(t, f) = RealOf(threads[t].stack, Now(threads[t]), f)
    BY <2>1, OnStack
  <2> QED
    BY <2>2 DEF RealAt, Alive
<1>3. Agree(g, RealAt(threads, f), DOMAIN threads)
  BY <1>2 DEF Agree
<1> HIDE DEF g
<1>4. SumOf(g) = Total(RealAt(threads, f), DOMAIN threads)
  BY <1>1, <1>3, SumOfIs
<1>5. Filed(f, "real")
        = FiledSum(tuples, f, "real") + PrintedSum(printed, f, "real")
  BY FiledIs
<1> QED
  BY <1>4, <1>5 DEF g

LEMMA SpentIs == IInv /\ Finite => SpentSoFar = SpentSum
<1> SUFFICES ASSUME IInv, Finite
             PROVE  SpentSoFar = SpentSum
  OBVIOUS
<1> DEFINE g == [t \in Alive |-> Clock(t)]
           h == [i \in DOMAIN printed |-> (printed[i].k + printed[i].skipped) % ULongSpan]
<1>1. DOMAIN g = DOMAIN threads /\ IsFiniteSet(DOMAIN threads)
  BY DEF Alive, Finite
<1>2. ASSUME NEW t \in DOMAIN threads PROVE g[t] = ReadingAt(threads)[t]
  <2>1. t \in Thread /\ ThreadOK(mode, threads[t])
    BY <1>2 DEF IInv
  <2>2. Clock(t) = Reading(threads[t].stack, Now(threads[t]))
    BY <2>1, OnStack
  <2> QED
    BY <2>2 DEF ReadingAt, Alive
<1>3. Agree(g, ReadingAt(threads), DOMAIN threads)
  BY <1>2 DEF Agree
<1>4. DOMAIN h = DOMAIN printed /\ IsFiniteSet(DOMAIN printed) /\ Agree(TimesIn(printed), h, DOMAIN h)
      /\ Agree(h, TimesIn(printed), DOMAIN printed)
  <2>1. DOMAIN printed = 1..Len(printed) /\ Len(printed) \in Nat
    BY DEF IInv
  <2>2. IsFiniteSet(1..Len(printed))
    BY <2>1, FS_Interval
  <2> QED
    BY <2>1, <2>2 DEF Agree, TimesIn
<1>5. SpentSoFar = SumOf(g) + Ended(mode, printed, extra) + SumOf(h)
  BY DEF SpentSoFar, Ended
<1> HIDE DEF g, h
<1>6. SumOf(g) = Total(ReadingAt(threads), DOMAIN threads)
  BY <1>1, <1>3, SumOfIs
<1>7. SumOf(h) = PrintedTime(printed)
  BY <1>4, SumOfIs DEF PrintedTime
<1> QED
  BY <1>5, <1>6, <1>7 DEF SpentSum

LEMMA StackMapIs == IInv => Stacks = StackMap
<1> SUFFICES ASSUME IInv, NEW t \in Thread PROVE Stacks[t] = StackMap[t]
  BY DEF Stacks, StackMap
<1>1. t \in DOMAIN threads => Stacks[t] = Routines(threads[t].stack)
  BY StacksAre DEF IInv, Alive
<1> QED
  BY <1>1 DEF Stacks, StackMap, Alive

-----------------------------------------------------------------------------
(* One thread apart.                                                       *)

Clocked(ths) ==
  \A t \in DOMAIN ths : ths[t].stack \in Seq(Activation) /\ Now(ths[t]) \in Nat

\* What all threads but t, the tuples in the reports and their times add up to.
OthersIn(t, ths, m, ps, ex) ==
  [self |-> [f \in Measured |-> PrintedSum(ps, f, "sumSelf")
                                  + Total(SelfAt(ths, f), DOMAIN ths \ {t})],
   real |-> [f \in Measured |-> PrintedSum(ps, f, "real")
                                  + Total(RealAt(ths, f), DOMAIN ths \ {t})],
   spent |-> Total(ReadingAt(ths), DOMAIN ths \ {t}) + Ended(m, ps, ex) + PrintedTime(ps)]

Others(t) == OthersIn(t, threads, mode, printed, extra)

LEMMA TermsAt ==
  ASSUME NEW ths, Clocked(ths), NEW f
  PROVE  /\ \A t \in DOMAIN ths : /\ SelfAt(ths, f)[t] = SelfOf(ths[t].stack, Now(ths[t]), f)
                                  /\ RealAt(ths, f)[t] = RealOf(ths[t].stack, Now(ths[t]), f)
                                  /\ ReadingAt(ths)[t] = Reading(ths[t].stack, Now(ths[t]))
         /\ \A t \in DOMAIN ths : /\ SelfAt(ths, f)[t] \in Int /\ RealAt(ths, f)[t] \in Int
                                  /\ ReadingAt(ths)[t] \in Nat
<1>1. \A t \in DOMAIN ths : /\ SelfAt(ths, f)[t] = SelfOf(ths[t].stack, Now(ths[t]), f)
                            /\ RealAt(ths, f)[t] = RealOf(ths[t].stack, Now(ths[t]), f)
                            /\ ReadingAt(ths)[t] = Reading(ths[t].stack, Now(ths[t]))
  BY DEF SelfAt, RealAt, ReadingAt
<1>2. ASSUME NEW t \in DOMAIN ths
      PROVE  /\ SelfAt(ths, f)[t] \in Int /\ RealAt(ths, f)[t] \in Int
             /\ ReadingAt(ths)[t] \in Nat
  <2> DEFINE st == ths[t].stack
             now == Now(ths[t])
  <2>1. st \in Seq(Activation) /\ now \in Nat
    BY DEF Clocked
  <2> HIDE DEF st, now
  <2>2. SelfOf(st, now, f) \in Int /\ RealOf(st, now, f) \in Int
    BY <2>1, CostsType
  <2>3. Reading(st, now) \in Nat
    BY <2>1, LiveFacts
  <2> QED
    BY <1>1, <2>2, <2>3 DEF st, now
<1> QED
  BY <1>1, <1>2

\* A thread's costs are one term of the sums.
LEMMA OneApart ==
  ASSUME NEW ths, Clocked(ths), IsFiniteSet(DOMAIN ths), NEW f, NEW t \in DOMAIN ths
  PROVE  LET st == ths[t].stack
             now == Now(ths[t])
             rest == DOMAIN ths \ {t}
         IN  /\ Total(SelfAt(ths, f), DOMAIN ths) = SelfOf(st, now, f) + Total(SelfAt(ths, f), rest)
             /\ Total(RealAt(ths, f), DOMAIN ths) = RealOf(st, now, f) + Total(RealAt(ths, f), rest)
             /\ Total(ReadingAt(ths), DOMAIN ths)
                  = Reading(st, now) + Total(ReadingAt(ths), rest)
<1> DEFINE D == DOMAIN ths
<1>1. /\ Integral(SelfAt(ths, f), D) /\ Integral(RealAt(ths, f), D)
      /\ Integral(ReadingAt(ths), D)
  BY TermsAt DEF Integral
<1>2. IsFiniteSet(D) /\ t \in D
  OBVIOUS
<1>3. D \in SUBSET D
  OBVIOUS
<1>4. Total(SelfAt(ths, f), D) = SelfAt(ths, f)[t] + Total(SelfAt(ths, f), D \ {t})
  <2> HIDE DEF D
  <2> QED
    BY <1>1, <1>2, <1>3, TotalSteps
<1>5. Total(RealAt(ths, f), D) = RealAt(ths, f)[t] + Total(RealAt(ths, f), D \ {t})
  <2> HIDE DEF D
  <2> QED
    BY <1>1, <1>2, <1>3, TotalSteps
<1>6. Total(ReadingAt(ths), D) = ReadingAt(ths)[t] + Total(ReadingAt(ths), D \ {t})
  <2> HIDE DEF D
  <2> QED
    BY <1>1, <1>2, <1>3, TotalSteps
<1> QED
  BY <1>4, <1>5, <1>6, TermsAt

\* The sums of threads that have not moved.
LEMMA SameOthers ==
  ASSUME NEW ths, Clocked(ths), IsFiniteSet(DOMAIN ths), NEW R \in SUBSET DOMAIN ths,
         NEW ths2, R \subseteq DOMAIN ths2, \A t \in R : ths2[t] = ths[t], NEW f
  PROVE  /\ Total(SelfAt(ths2, f), R) = Total(SelfAt(ths, f), R)
         /\ Total(RealAt(ths2, f), R) = Total(RealAt(ths, f), R)
         /\ Total(ReadingAt(ths2), R) = Total(ReadingAt(ths), R)
         /\ Total(SelfAt(ths, f), R) \in Int /\ Total(RealAt(ths, f), R) \in Int
         /\ Total(ReadingAt(ths), R) \in Int
<1>1. /\ Agree(SelfAt(ths2, f), SelfAt(ths, f), R)
      /\ Agree(RealAt(ths2, f), RealAt(ths, f), R)
      /\ Agree(ReadingAt(ths2), ReadingAt(ths), R)
  BY DEF Agree, SelfAt, RealAt, ReadingAt
<1>2. IsFiniteSet(R)
  BY FS_Subset
<1>3. /\ Integral(SelfAt(ths, f), R) /\ Integral(RealAt(ths, f), R)
      /\ Integral(ReadingAt(ths), R)
  BY TermsAt DEF Integral
<1>4. R \in SUBSET R
  OBVIOUS
<1>5. Total(SelfAt(ths, f), R) \in Int /\ Total(RealAt(ths, f), R) \in Int
         /\ Total(ReadingAt(ths), R) \in Int
  BY <1>2, <1>3, <1>4, TotalSteps
<1>6. Total(SelfAt(ths2, f), R) = Total(SelfAt(ths, f), R)
  BY <1>1, <1>2, TotalSame
<1>7. Total(RealAt(ths2, f), R) = Total(RealAt(ths, f), R)
  BY <1>1, <1>2, TotalSame
<1>8. Total(ReadingAt(ths2), R) = Total(ReadingAt(ths), R)
  BY <1>1, <1>2, TotalSame
<1> QED
  BY <1>5, <1>6, <1>7, <1>8

\* The sums of the reports are numbers.
LEMMA PrintedSums ==
  ASSUME IInv, Finite
  PROVE  /\ \A f : PrintedSum(printed, f, "sumSelf") \in Int /\ PrintedSum(printed, f, "real") \in Int
         /\ PrintedTime(printed) \in Nat
         /\ \A i \in 1..Len(printed) : TimesIn(printed)[i] <= PrintedTime(printed)
<1>1. PrintedType(printed) /\ DOMAIN printed = 1..Len(printed) /\ Len(printed) \in Nat
      /\ \A i \in 1..Len(printed) : TimesIn(printed)[i] \in Nat
  <2>1. printed \in Seq(Report) /\ \A i \in 1..Len(printed) : ReportOK(mode, printed[i])
    BY DEF IInv
  <2> QED
    BY <2>1, ReportsType
<1>2. ASSUME NEW f
      PROVE  PrintedSum(printed, f, "sumSelf") \in Int /\ PrintedSum(printed, f, "real") \in Int
  <2> DEFINE P == PrintedOf(printed, f)
  <2>1. IsFiniteSet(P) /\ P \subseteq TuplesIn(printed)
    BY FS_Subset DEF Finite, PrintedOf
  <2>2. /\ Integral(PrintedField(printed, "sumSelf"), P)
        /\ Integral(PrintedField(printed, "real"), P)
    BY <1>1, <2>1 DEF Integral, PrintedField, PrintedType
  <2>3. P \in SUBSET P
    OBVIOUS
  <2> HIDE DEF P
  <2>4. Total(PrintedField(printed, "sumSelf"), P) \in Int
    BY <2>1, <2>2, <2>3, TotalSteps
  <2>5. Total(PrintedField(printed, "real"), P) \in Int
    BY <2>1, <2>2, <2>3, TotalSteps
  <2> QED
    BY <2>4, <2>5 DEF PrintedSum, P
<1>3. IsFiniteSet(1..Len(printed))
  BY <1>1, FS_Interval
<1>4. /\ PrintedTime(printed) \in Nat
      /\ \A i \in 1..Len(printed) : TimesIn(printed)[i] <= PrintedTime(printed)
  <2> DEFINE S == 1..Len(printed)
             g == TimesIn(printed)
  <2>1. IsFiniteSet(S) /\ \A x \in S : g[x] \in Nat
    BY <1>1, <1>3
  <2>2. PrintedTime(printed) = Total(g, S)
    BY <1>1 DEF PrintedTime
  <2> HIDE DEF S, g
  <2>3. Total(g, S) \in Nat /\ \A x \in S : g[x] <= Total(g, S)
    BY <2>1, TotalBounds
  <2> QED
    BY <2>2, <2>3 DEF S, g
<1> QED
  BY <1>2, <1>4

LEMMA ThreadsClocked ==
  ASSUME IInv
  PROVE  /\ Clocked(threads)
         /\ Ended(mode, printed, extra) \in Nat
<1>1. ASSUME NEW t \in DOMAIN threads
      PROVE  threads[t].stack \in Seq(Activation) /\ Now(threads[t]) \in Nat
  BY ThreadFields DEF IInv, ThreadOK, ClockOK, Now
<1>2. Ended(mode, printed, extra) \in Nat
  <2> DEFINE x == extra.cost + extra.skipped
  <2>1. x \in Int
    BY BoundsAssumption DEF IInv
  <2> HIDE DEF x
  <2>2. x % ULongSpan \in Nat
    BY <2>1, Modulo, BoundsAssumption
  <2> QED
    BY <2>2 DEF Ended, x
<1> QED
  BY <1>1, <1>2 DEF Clocked

LEMMA OthersOK ==
  ASSUME IInv, Finite, NEW t
  PROVE  BaseOK(Others(t))
<1> DEFINE R == DOMAIN threads \ {t}
<1>1. Clocked(threads) /\ IsFiniteSet(DOMAIN threads) /\ R \in SUBSET DOMAIN threads
      /\ Ended(mode, printed, extra) \in Int
  BY ThreadsClocked DEF Finite
<1>2. \A f : /\ Total(SelfAt(threads, f), R) \in Int /\ Total(RealAt(threads, f), R) \in Int
             /\ Total(ReadingAt(threads), R) \in Int
  <2> HIDE DEF R
  <2> QED
    BY <1>1, SameOthers
<1>3. \A f : PrintedSum(printed, f, "sumSelf") \in Int /\ PrintedSum(printed, f, "real") \in Int
  BY PrintedSums
<1>4. PrintedTime(printed) \in Int
  BY PrintedSums
<1> QED
  BY <1>1, <1>2, <1>3, <1>4 DEF BaseOK, Others, OthersIn

\* The accounts of a thread in a state.
SumAccount(t) == [stack |-> StackMap[t], self |-> SelfSum, real |-> RealSum, spent |-> SpentSum]

LEMMA AccountNow ==
  ASSUME IInv, Finite, NEW t \in Thread, t \in DOMAIN threads
  PROVE  SumAccount(t) = Account(threads[t].stack, Now(threads[t]), tuples, Others(t))
<1> DEFINE st == threads[t].stack
           now == Now(threads[t])
           R == DOMAIN threads \ {t}
<1>1. Clocked(threads) /\ IsFiniteSet(DOMAIN threads) /\ R \in SUBSET DOMAIN threads
      /\ Ended(mode, printed, extra) \in Int
  BY ThreadsClocked DEF Finite
<1>2. \A f : /\ Total(SelfAt(threads, f), R) \in Int /\ Total(RealAt(threads, f), R) \in Int
             /\ Total(ReadingAt(threads), R) \in Int
  <2> HIDE DEF R
  <2> QED
    BY <1>1, SameOthers
<1>3. \A f : PrintedSum(printed, f, "sumSelf") \in Int /\ PrintedSum(printed, f, "real") \in Int
  BY PrintedSums
<1>4. PrintedTime(printed) \in Int
  BY PrintedSums
<1>5. \A f : /\ Total(SelfAt(threads, f), DOMAIN threads) = SelfOf(st, now, f) + Total(SelfAt(threads, f), R)
             /\ Total(RealAt(threads, f), DOMAIN threads) = RealOf(st, now, f) + Total(RealAt(threads, f), R)
             /\ Total(ReadingAt(threads), DOMAIN threads)
                  = Reading(st, now) + Total(ReadingAt(threads), R)
  BY <1>1, OneApart
<1>6. FileOf(tuples)
  BY DEF FileOf, Finite, IInv, TuplesOK
<1>7. \A f : FiledSum(tuples, f, "sumSelf") \in Int /\ FiledSum(tuples, f, "real") \in Int
  BY <1>6, FiledType
<1>8. \A f : SelfOf(st, now, f) \in Int /\ RealOf(st, now, f) \in Int
  BY <1>1, CostsType DEF Clocked
<1>9. Reading(st, now) \in Int
  BY <1>1, LiveFacts DEF Clocked
<1> HIDE DEF st, now, R
<1>10. SelfSum = [f \in Measured |-> (PrintedSum(printed, f, "sumSelf") + Total(SelfAt(threads, f), R))
                                      + FiledSum(tuples, f, "sumSelf") + SelfOf(st, now, f)]
  <2>1. ASSUME NEW f \in Measured
        PROVE  FiledSum(tuples, f, "sumSelf") + PrintedSum(printed, f, "sumSelf")
                        + Total(SelfAt(threads, f), DOMAIN threads)
                = (PrintedSum(printed, f, "sumSelf") + Total(SelfAt(threads, f), R))
                    + FiledSum(tuples, f, "sumSelf") + SelfOf(st, now, f)
    BY <1>2, <1>3, <1>5, <1>7, <1>8
  <2> QED
    BY <2>1 DEF SelfSum
<1>11. RealSum = [f \in Measured |-> (PrintedSum(printed, f, "real") + Total(RealAt(threads, f), R))
                                      + FiledSum(tuples, f, "real") + RealOf(st, now, f)]
  <2>1. ASSUME NEW f \in Measured
        PROVE  FiledSum(tuples, f, "real") + PrintedSum(printed, f, "real")
                        + Total(RealAt(threads, f), DOMAIN threads)
                = (PrintedSum(printed, f, "real") + Total(RealAt(threads, f), R))
                    + FiledSum(tuples, f, "real") + RealOf(st, now, f)
    BY <1>2, <1>3, <1>5, <1>7, <1>8
  <2> QED
    BY <2>1 DEF RealSum
<1>12. SpentSum = (Total(ReadingAt(threads), R) + Ended(mode, printed, extra)
                    + PrintedTime(printed)) + Reading(st, now)
  BY <1>1, <1>2, <1>4, <1>5, <1>9 DEF SpentSum
<1>13. StackMap[t] = Routines(st)
  BY DEF StackMap, st
<1> QED
  BY <1>10, <1>11, <1>12, <1>13 DEF SumAccount, Account, Others, OthersIn, st, now, R

-----------------------------------------------------------------------------
(* The sums in a state and in the next one.                                 *)

Accounted ==
  \A t \in Thread : t \in DOMAIN threads =>
    SumAccount(t) = Account(threads[t].stack, Now(threads[t]), tuples, Others(t))

LEMMA AccountsNow == IInv /\ Finite => Accounted
<1> SUFFICES ASSUME IInv, Finite, NEW t \in Thread, t \in DOMAIN threads
             PROVE  SumAccount(t) = Account(threads[t].stack, Now(threads[t]), tuples, Others(t))
  BY DEF Accounted
<1> QED
  BY AccountNow

LEMMA AccountsNext == IInv' /\ Finite' => Accounted'
  BY AccountsNow, PTL

LEMMA SumsNow == IInv /\ Finite => /\ SelfSoFar = SelfSum /\ RealSoFar = RealSum
                                   /\ SpentSoFar = SpentSum /\ Stacks = StackMap
  BY SelfIs, RealsAre, SpentIs, StackMapIs

LEMMA SumsNext == IInv' /\ Finite' => (/\ SelfSoFar = SelfSum /\ RealSoFar = RealSum
                                   /\ SpentSoFar = SpentSum /\ Stacks = StackMap)'
  BY SumsNow, PTL

\* A block changes one thread and the tuples.
LEMMA AccountOfBlock ==
  ASSUME IInv, Finite, IInv', Finite', NEW t \in Thread, NEW r, Block(t, r)
  PROVE  /\ SelfSum' = AccountOf(r, Others(t)).self
         /\ RealSum' = AccountOf(r, Others(t)).real
         /\ SpentSum' = AccountOf(r, Others(t)).spent
         /\ StackMap' = [StackMap EXCEPT ![t] = Routines(r.td.stack)]
<1>1. /\ t \in DOMAIN threads /\ DOMAIN threads' = DOMAIN threads
      /\ threads' = [threads EXCEPT ![t] = r.td] /\ threads'[t] = r.td
      /\ \A u \in DOMAIN threads : u # t => threads'[u] = threads[u]
      /\ tuples' = r.tuples /\ mode' = mode /\ extra' = extra /\ printed' = printed
  BY DEF Block, Alive
<1>2. Accounted'
  BY AccountsNext
<1>3. SumAccount(t)' = Account(threads'[t].stack, Now(threads'[t]), tuples', Others(t)')
  BY <1>1, <1>2 DEF Accounted
<1>4. Others(t)' = OthersIn(t, threads', mode', printed', extra')
  BY DEF Others
<1>5. OthersIn(t, threads', mode, printed, extra) = OthersIn(t, threads, mode, printed, extra)
  <2> DEFINE R == DOMAIN threads \ {t}
             ths == threads
             ths2 == threads'
  <2>1. /\ Clocked(ths) /\ IsFiniteSet(DOMAIN ths) /\ R \in SUBSET DOMAIN ths
        /\ R \subseteq DOMAIN ths2 /\ (\A u \in R : ths2[u] = ths[u])
    BY <1>1, ThreadsClocked DEF Finite
  <2>2. R = DOMAIN ths2 \ {t} /\ R = DOMAIN ths \ {t}
    BY <1>1
  <2> HIDE DEF R, ths, ths2
  <2>3. \A f : /\ Total(SelfAt(ths2, f), R) = Total(SelfAt(ths, f), R)
               /\ Total(RealAt(ths2, f), R) = Total(RealAt(ths, f), R)
               /\ Total(ReadingAt(ths2), R) = Total(ReadingAt(ths), R)
    BY <2>1, SameOthers
  <2>4. OthersIn(t, ths2, mode, printed, extra) = OthersIn(t, ths, mode, printed, extra)
    BY <2>2, <2>3 DEF OthersIn
  <2> QED
    BY <2>4 DEF ths, ths2
<1>6. SumAccount(t)' = AccountOf(r, Others(t))
  BY <1>1, <1>3, <1>4, <1>5 DEF AccountOf, Others
<1>7. SumAccount(t)' = [stack |-> StackMap'[t], self |-> SelfSum', real |-> RealSum', spent |-> SpentSum']
  BY DEF SumAccount
<1>8. StackMap' = [StackMap EXCEPT ![t] = Routines(r.td.stack)]
  BY <1>1 DEF StackMap
<1> DEFINE a == AccountOf(r, Others(t))
<1> HIDE DEF a
<1>9. SelfSum' = a.self /\ RealSum' = a.real /\ SpentSum' = a.spent
  BY <1>6, <1>7 DEF a
<1> QED
  BY <1>8, <1>9 DEF a

-----------------------------------------------------------------------------
(* Calls.                                                                   *)

\* A call on the account: a routine more on the stack, and no cost.
LEMMA EnterIsCalled ==
  ASSUME NEW td, ThreadOK(mode, td), Len(td.stack) < MaxDepth, NEW f \in Fn,
         NEW ts, FileOf(ts), NEW B, BaseOK(B)
  PROVE  LET u == function_enter(td, f)
         IN  /\ ThreadOK(mode, u) /\ u.cost = td.cost /\ Len(u.stack) = Len(td.stack) + 1
             /\ Account(u.stack, Now(u), ts, B)
                  = [Account(td.stack, Now(td), ts, B) EXCEPT !.stack = Append(Routines(td.stack), f)]
             /\ Routines(u.stack) = Append(Routines(td.stack), f)
<1> DEFINE u == function_enter(td, f)
           st == td.stack
           now == Now(td)
           us == u.stack
<1>1. /\ ThreadOK(mode, u)
      /\ u.stack = Pushed(td, f).stack /\ u.cost = td.cost /\ u.skipCost = td.skipCost
  BY EnterKeeps
<1>2. Now(u) = now
  BY <1>1 DEF Now
<1>3. st \in Seq(Activation) /\ now \in Nat
  BY ThreadFields DEF ThreadOK, ClockOK, Now
<1>4. us = Append(st, [fn |-> f, start |-> now, children |-> 0])
  <2>1. td \in ThreadData
    BY DEF ThreadOK
  <2>2. Pushed(td, f).stack = Append(st, [fn |-> f, start |-> now, children |-> 0])
    BY <2>1 DEF Pushed, ThreadData
  <2> QED
    BY <1>1, <2>2
<1> HIDE DEF u, us, st, now
<1>5. /\ us \in Seq(Activation) /\ Routines(us) = Append(Routines(st), f)
      /\ Reading(us, now) = Reading(st, now)
      /\ \A g : SelfOf(us, now, g) = SelfOf(st, now, g)
                /\ RealOf(us, now, g) = RealOf(st, now, g)
  BY <1>3, <1>4, CostsPush, SMTT(30)
<1>6. SameSums(st, now, ts, us, now, ts)
  <2>1. \A g : FiledSum(ts, g, "sumSelf") \in Int /\ FiledSum(ts, g, "real") \in Int
    BY FiledType
  <2>2. \A g : SelfOf(st, now, g) \in Int /\ RealOf(st, now, g) \in Int
    BY <1>3, CostsType
  <2> QED
    BY <1>5, <2>1, <2>2 DEF SameSums
<1>7. Account(us, now, ts, B) = [Account(st, now, ts, B) EXCEPT !.stack = Routines(us)]
  BY <1>6, SameAccount
<1>8. Len(us) = Len(st) + 1
  BY <1>3, <1>4
<1> QED
  BY <1>1, <1>2, <1>5, <1>7, <1>8 DEF u, us, st, now

-----------------------------------------------------------------------------
(* No clock wraps.                                                         *)

\* What a thread has paid for or may still pay for without another block.
WeightOf(td) == td.cost + Len(td.stack) * Square
Weights(ths) == [t \in DOMAIN ths |-> WeightOf(ths[t])]
Counted(m, ex) == IF m = "single" THEN (ex.cost + ex.skipped) % ULongSpan ELSE 0

Budget == Counted(mode, extra) + Total(Weights(threads), DOMAIN threads) <= blocks * (1 + Square)

\* A single report is printed by the last thread.
LastPrints == mode = "single" /\ printed # <<>> => DOMAIN threads = {}

Exact == IInv /\ Finite /\ LastPrints /\ Budget

LEMMA WeightType ==
  ASSUME NEW m, NEW td, ThreadOK(m, td)
  PROVE  WeightOf(td) \in Nat /\ td.cost \in Nat /\ td.cost <= WeightOf(td)
         /\ Len(td.stack) * Square \in Nat
<1> DEFINE n == Len(td.stack)
           x == n * Square
<1>1. td.cost \in Nat /\ n \in Nat
  BY ThreadFields DEF ThreadOK
<1> HIDE DEF n
<1>2. x \in Nat
  BY <1>1, SquaresBound
<1> HIDE DEF x
<1>3. td.cost + x \in Nat /\ td.cost <= td.cost + x
  BY <1>1, <1>2
<1> QED
  BY <1>1, <1>2, <1>3 DEF WeightOf, x, n

\* Everything that can have been counted is less than the span of a ULong.
LEMMA BudgetBounds ==
  ASSUME IInv, Finite, Budget
  PROVE  /\ Counted(mode, extra) \in Nat
         /\ Total(Weights(threads), DOMAIN threads) \in Nat
         /\ Counted(mode, extra) + Total(Weights(threads), DOMAIN threads) < ULongSpan
         /\ \A t \in DOMAIN threads :
              /\ Weights(threads)[t] = WeightOf(threads[t])
              /\ Weights(threads)[t] \in Nat
              /\ Weights(threads)[t] <= Total(Weights(threads), DOMAIN threads)
<1> DEFINE D == DOMAIN threads
           w == Weights(threads)
<1>1. \A t \in D : w[t] = WeightOf(threads[t]) /\ w[t] \in Nat
  BY WeightType DEF IInv, Weights
<1>2. IsFiniteSet(D)
  BY DEF Finite
<1>3. Total(w, D) \in Nat /\ \A t \in D : w[t] <= Total(w, D)
  <2> HIDE DEF D, w
  <2> QED
    BY <1>1, <1>2, TotalBounds
<1>4. Counted(mode, extra) \in Nat
  <2> DEFINE x == extra.cost + extra.skipped
  <2>1. x \in Int
    BY BoundsAssumption DEF IInv
  <2> HIDE DEF x
  <2>2. x % ULongSpan \in Nat
    BY <2>1, Modulo, BoundsAssumption
  <2> QED
    BY <2>2 DEF Counted, x
<1>5. blocks * (1 + Square) < ULongSpan /\ blocks * (1 + Square) \in Nat
  <2> DEFINE c == 1 + Square
             max == MaxBlocks[mode]
  <2>1. c \in Nat
    BY SquaresBound
  <2>2. max \in Nat /\ blocks \in Nat /\ blocks <= max
    BY BoundsAssumption DEF IInv
  <2>3. max * c < ULongSpan
    BY SquaresBound DEF IInv
  <2> HIDE DEF c, max
  <2>4. blocks * c \in Nat /\ max * c \in Nat /\ blocks * c <= max * c
    BY <2>1, <2>2, ProductGrows
  <2>5. ULongSpan \in Nat
    BY BoundsAssumption
  <2> DEFINE x == blocks * c
             y == max * c
  <2>6. x \in Nat /\ y \in Nat /\ x <= y /\ y < ULongSpan
    BY <2>3, <2>4
  <2> HIDE DEF x, y
  <2>7. x < ULongSpan
    BY <2>5, <2>6
  <2> QED
    BY <2>6, <2>7 DEF x, c
<1> DEFINE e == Counted(mode, extra)
           s == Total(w, D)
           b == blocks * (1 + Square)
<1>6. e + s < ULongSpan
  <2>1. e \in Nat /\ s \in Nat /\ b \in Nat /\ e + s <= b /\ b < ULongSpan /\ ULongSpan \in Nat
    BY <1>3, <1>4, <1>5, BoundsAssumption DEF Budget
  <2> HIDE DEF e, s, b
  <2> QED
    BY <2>1
<1> QED
  BY <1>1, <1>3, <1>4, <1>6

-----------------------------------------------------------------------------
(* Blocks.                                                                 *)

\* A block pays for itself and for what a call in it may cost later.
LEMMA BlockExact ==
  ASSUME Exact, NEW t \in Thread, NEW r, Block(t, r), IInv', ThreadOK(mode, r.td),
         IsFiniteSet(DOMAIN r.tuples),
         WeightOf(r.td) <= WeightOf(threads[t]) + 1 + Square
  PROVE  Exact'
<1>1. /\ t \in DOMAIN threads /\ DOMAIN threads' = DOMAIN threads
      /\ threads'[t] = r.td
      /\ \A u \in DOMAIN threads : u # t => threads'[u] = threads[u]
      /\ tuples' = r.tuples /\ mode' = mode /\ extra' = extra /\ printed' = printed
      /\ blocks' = blocks + 1
  BY DEF Block, Alive
<1>2. Finite'
  BY <1>1 DEF Exact, Finite
<1>3. LastPrints'
  BY <1>1 DEF Exact, LastPrints
<1>4. Budget'
  <2> DEFINE D == DOMAIN threads
             w == Weights(threads)
             v == Weights(threads')
             x == Total(w, D)
             y == Total(v, D)
             a == w[t]
             b == v[t]
             e == Counted(mode, extra)
             c == 1 + Square
  <2>1. IsFiniteSet(D) /\ t \in D
    BY <1>1 DEF Exact, Finite
  <2>2. /\ \A u \in D : w[u] = WeightOf(threads[u]) /\ w[u] \in Nat
        /\ e \in Nat /\ x \in Nat
    BY BudgetBounds DEF Exact
  <2>3. b = WeightOf(r.td) /\ b \in Nat /\ \A u \in D : u # t => v[u] = w[u]
    <3>1. WeightOf(r.td) \in Nat
      BY WeightType
    <3> QED
      BY <1>1, <3>1 DEF Weights
  <2>4. Integral(w, D) /\ Integral(v, D) /\ Agree(w, v, D \ {t})
    BY <2>2, <2>3 DEF Integral, Agree
  <2>5. y = x - a + b /\ x \in Int
    <3> HIDE DEF D, w, v
    <3> QED
      BY <2>1, <2>4, TotalUpdate
  <2>6. a \in Nat /\ b <= a + c /\ c \in Nat
    <3>1. a = WeightOf(threads[t]) /\ a \in Nat
      BY <2>1, <2>2
    <3> HIDE DEF a, b
    <3>2. Square \in Nat
      BY SquaresBound
    <3> QED
      BY <2>3, <3>1, <3>2
  <2>7. e + x <= blocks * c /\ blocks \in Nat
    BY DEF Exact, Budget, IInv
  <2>8. (blocks + 1) * c = blocks * c + c /\ blocks * c \in Nat
    BY <2>6, <2>7, ProductGrows
  <2>9. Budget' <=> e + y <= (blocks + 1) * c
    BY <1>1 DEF Budget
  <2> DEFINE k == blocks * c
             k1 == (blocks + 1) * c
  <2>10. e + x <= k /\ k1 = k + c /\ k \in Nat
    BY <2>7, <2>8
  <2> HIDE DEF x, y, a, b, e, c, k, k1
  <2>11. e + y <= k1
    BY <2>2, <2>3, <2>5, <2>6, <2>10
  <2> QED
    BY <2>9, <2>11 DEF k1
<1> QED
  BY <1>2, <1>3, <1>4 DEF Exact

\* The block is counted.
LEMMA TickedIs ==
  ASSUME Exact, NEW t \in Thread, t \in DOMAIN threads
  PROVE  LET r == Ticked(t)
         IN  /\ Exiting(t, r) /\ r.td.stack = threads[t].stack /\ r.tuples = tuples
             /\ r.td.cost = threads[t].cost + 1
             /\ IsFiniteSet(DOMAIN r.tuples)
             /\ AccountOf(r, Others(t)) = Times!Spend(SumAccount(t), 1)
<1> DEFINE td == threads[t]
           u == [td EXCEPT !.cost = @ + 1]
           r == Ticked(t)
<1>1. Exiting(t, r)
  BY TickedOK DEF Exact
<1>2. ThreadOK(mode, td)
  BY DEF Exact, IInv
<1>3. u.stack = td.stack /\ u.cost = td.cost + 1 /\ u.skipCost = td.skipCost
  <2> HIDE DEF td
  <2> QED
    BY <1>2, CostGrows
<1>4. r.td = u /\ r.tuples = tuples
  <2>1. r = [td |-> u, tuples |-> tuples]
    BY DEF Ticked
  <2> HIDE DEF u, r
  <2> QED
    BY <2>1
<1>5. td.stack \in Seq(Activation) /\ Now(td) \in Nat /\ Now(u) = Now(td) + 1
  <2>1. td.cost \in Nat /\ td.skipCost \in Nat /\ td.stack \in Seq(Activation)
        /\ td.skipCost <= td.cost
    BY <1>2, ThreadFields DEF ThreadOK, ClockOK
  <2> HIDE DEF u, td
  <2>2. Now(td) \in Nat /\ Now(u) = Now(td) + 1
    BY <1>3, <2>1 DEF Now
  <2> QED
    BY <2>1, <2>2
<1>6. FileOf(tuples) /\ IsFiniteSet(DOMAIN tuples)
  BY DEF FileOf, Exact, Finite, IInv, TuplesOK
<1>7. BaseOK(Others(t))
  BY OthersOK DEF Exact
<1>8. SumAccount(t) = Account(td.stack, Now(td), tuples, Others(t))
  BY AccountNow DEF Exact
<1> DEFINE st == td.stack
           now == Now(td)
           B == Others(t)
<1>9. Account(st, now + 1, tuples, B) = Times!Spend(Account(st, now, tuples, B), 1)
  <2>1. st \in Seq(Activation) /\ now \in Nat /\ 1 \in Nat /\ BaseOK(B)
    BY <1>5, <1>7
  <2> HIDE DEF st, now, B
  <2> QED
    BY <1>6, <2>1, AccountTicks
<1>10. AccountOf(r, B) = Account(st, now + 1, tuples, B)
  BY <1>3, <1>4, <1>5 DEF AccountOf
<1> QED
  BY <1>1, <1>3, <1>4, <1>6, <1>8, <1>9, <1>10

\* In terms of RoutineTimes.
LEMMA AccountsAre ==
  ASSUME Exact, NEW t \in Thread
  PROVE  Times!Accounts(t) = SumAccount(t) /\ Stacks = StackMap
  BY SumsNow DEF Exact, Times!Accounts, SumAccount

\* What a block leaves behind.
LEMMA BlockCosts ==
  ASSUME Exact, Exact', NEW t \in Thread, NEW r, Block(t, r), NEW a, a = AccountOf(r, Others(t))
  PROVE  Times!Cost(a) /\ Stacks' = [Stacks EXCEPT ![t] = Routines(r.td.stack)]
<1>1. /\ SelfSum' = a.self /\ RealSum' = a.real /\ SpentSum' = a.spent
      /\ StackMap' = [StackMap EXCEPT ![t] = Routines(r.td.stack)]
  BY AccountOfBlock DEF Exact
<1>2. /\ SelfSoFar' = SelfSum' /\ RealSoFar' = RealSum' /\ SpentSoFar' = SpentSum'
      /\ Stacks' = StackMap' /\ Stacks = StackMap
  BY SumsNow, SumsNext DEF Exact
<1> QED
  BY <1>1, <1>2 DEF Times!Cost

LEMMA LeftRoutines ==
  ASSUME NEW v \in Seq(Activation), NEW w \in Seq(Activation), NEW n \in Nat,
         n <= Len(v), Len(w) = Len(v) - n, \A i \in 1..Len(w) : w[i].fn = v[i].fn
  PROVE  Routines(w) = SubSeq(Routines(v), 1, Len(v) - n)
<1> DEFINE fs == Routines(v)
           gs == Routines(w)
<1>1. /\ fs \in Seq(Fn) /\ Len(fs) = Len(v) /\ Len(v) \in Nat
      /\ \A i \in 1..Len(v) : fs[i] = v[i].fn
  BY StackFacts
<1>2. /\ gs \in Seq(Fn) /\ Len(gs) = Len(w) /\ Len(w) \in Nat
      /\ \A i \in 1..Len(w) : gs[i] = w[i].fn
  BY StackFacts
<1> HIDE DEF fs, gs
<1>3. \A i \in 1..Len(w) : gs[i] = fs[i]
  <2> SUFFICES ASSUME NEW i \in 1..Len(w) PROVE gs[i] = fs[i]
    OBVIOUS
  <2>1. i \in 1..Len(v)
    BY <1>1, <1>2
  <2>2. gs[i] = w[i].fn /\ w[i].fn = v[i].fn
    BY <1>2
  <2>3. fs[i] = v[i].fn
    BY <1>1, <2>1
  <2> QED
    BY <2>2, <2>3
<1>4. gs = SubSeq(fs, 1, Len(w))
  BY <1>1, <1>2, <1>3
<1> QED
  BY <1>4 DEF fs, gs

\* n exits of a thread, with what they cost.
LEMMA ExitsCost ==
  ASSUME Exact, NEW t \in Thread, t \in DOMAIN threads, NEW r, Exiting(t, r),
         IsFiniteSet(DOMAIN r.tuples),
         NEW n \in Nat, n <= Len(r.td.stack), NEW sizes \in [1..n -> Size]
  PROVE  LET s == ExitMany(t, r, n, sizes)
         IN  /\ Exiting(t, s) /\ IsFiniteSet(DOMAIN s.tuples)
             /\ AccountOf(s, Others(t)) = Times!LeaveMany(AccountOf(r, Others(t)), n, sizes)
             /\ WeightOf(s.td) <= WeightOf(r.td)
             /\ Len(s.td.stack) = Len(r.td.stack) - n
             /\ Routines(s.td.stack) = SubSeq(Routines(r.td.stack), 1, Len(r.td.stack) - n)
<1> DEFINE s == ExitMany(t, r, n, sizes)
           a == Len(r.td.stack)
           b == Len(s.td.stack)
           c == r.td.cost
           d == s.td.cost
<1>1. Exiting(t, s) /\ b = a - n
  BY ExitsKeep
<1>2. BaseOK(Others(t))
  BY OthersOK DEF Exact
<1>3. /\ IsFiniteSet(DOMAIN s.tuples)
      /\ AccountOf(s, Others(t)) = Times!LeaveMany(AccountOf(r, Others(t)), n, sizes)
      /\ d <= c + n * Square
      /\ \A i \in 1..b : s.td.stack[i].fn = r.td.stack[i].fn
  BY <1>2, ExitsLeave
<1>4. r.td \in ThreadData /\ s.td \in ThreadData
  BY <1>1 DEF Exiting, ThreadOK
<1>5. /\ r.td.stack \in Seq(Activation) /\ s.td.stack \in Seq(Activation)
      /\ a \in Nat /\ b \in Nat /\ c \in Nat /\ d \in Nat
  BY <1>4, ThreadFields
<1>6. WeightOf(s.td) <= WeightOf(r.td)
  <2> HIDE DEF s, a, b, c, d
  <2>1. Square \in Nat
    BY SquaresBound
  <2>2. Square * n \in Nat
    BY <2>1, ProductGrows
  <2>3. n * Square = Square * n /\ a * Square = b * Square + Square * n
        /\ a * Square \in Nat /\ b * Square \in Nat
    BY <1>1, <1>5, <2>1
  <2> DEFINE ns == Square * n
             as == a * Square
             bs == b * Square
  <2>4. ns \in Nat /\ as = bs + ns /\ d <= c + ns
        /\ as \in Nat /\ bs \in Nat
    BY <1>3, <2>2, <2>3
  <2> HIDE DEF ns, as, bs
  <2>5. d + bs <= c + as
    BY <1>5, <2>4
  <2> QED
    BY <2>5 DEF WeightOf, as, bs, a, b, c, d
<1>7. Routines(s.td.stack) = SubSeq(Routines(r.td.stack), 1, a - n)
  <2> DEFINE v == r.td.stack
             w == s.td.stack
  <2>1. /\ v \in Seq(Activation) /\ w \in Seq(Activation)
        /\ n <= Len(v) /\ Len(w) = Len(v) - n
        /\ \A i \in 1..Len(w) : w[i].fn = v[i].fn
    BY <1>1, <1>3, <1>5
  <2> HIDE DEF v, w
  <2>2. Routines(w) = SubSeq(Routines(v), 1, Len(v) - n)
    BY <2>1, LeftRoutines
  <2> QED
    BY <2>2 DEF v, w
<1> QED
  BY <1>1, <1>3, <1>6, <1>7

\* Returns within a block.
LEMMA ContinueIs ==
  ASSUME Exact, NEW t \in Thread, NEW n \in 0..MaxDepth, NEW sizes \in [1..n -> Size],
         Continue(t, n, sizes)
  PROVE  Exact' /\ Times!Block(t)
<1> DEFINE r == Ticked(t)
           s == ExitMany(t, r, n, sizes)
           B == Others(t)
           now == Times!Spend(Times!Accounts(t), 1)
<1>1. t \in DOMAIN threads /\ n <= Len(threads[t].stack) /\ Block(t, s) /\ n \in Nat
  BY BoundsAssumption DEF Continue, Alive
<1>2. IInv'
  BY ContinueKeeps DEF Exact
<1>3. /\ Exiting(t, r) /\ r.td.stack = threads[t].stack
      /\ r.td.cost = threads[t].cost + 1
      /\ IsFiniteSet(DOMAIN r.tuples)
      /\ AccountOf(r, B) = Times!Spend(SumAccount(t), 1)
  BY <1>1, TickedIs
<1> HIDE DEF r
<1>4. /\ Exiting(t, s) /\ IsFiniteSet(DOMAIN s.tuples)
      /\ AccountOf(s, B) = Times!LeaveMany(AccountOf(r, B), n, sizes)
      /\ WeightOf(s.td) <= WeightOf(r.td)
      /\ Routines(s.td.stack) = SubSeq(Routines(r.td.stack), 1, Len(r.td.stack) - n)
  BY <1>1, <1>3, ExitsCost
<1> HIDE DEF s
<1>5. ThreadOK(mode, threads[t]) /\ ThreadOK(mode, s.td) /\ ThreadOK(mode, r.td)
  BY <1>1, <1>3, <1>4 DEF Exact, IInv, Exiting
<1>6. Exact'
  <2> DEFINE x == WeightOf(s.td)
             y == WeightOf(r.td)
             z == WeightOf(threads[t])
             c == threads[t].cost
             m == Len(threads[t].stack) * Square
  <2>1. x \in Nat /\ y \in Nat /\ z \in Nat /\ Square \in Nat /\ c \in Nat /\ m \in Nat
    BY <1>5, WeightType, SquaresBound
  <2>2. y = (c + 1) + m /\ z = c + m /\ x <= y
    BY <1>3, <1>4 DEF WeightOf
  <2> HIDE DEF x, y, z, c, m
  <2>3. x <= z + 1 + Square
    BY <2>1, <2>2
  <2> QED
    BY <1>1, <1>2, <1>4, <1>5, <2>3, BlockExact DEF x, z
<1>7. now = AccountOf(r, B)
  BY <1>3, AccountsAre
<1> DEFINE a == Times!LeaveMany(now, n, sizes)
<1>8. Times!Cost(a) /\ Stacks' = [Stacks EXCEPT ![t] = Routines(s.td.stack)]
  <2>1. a = AccountOf(s, B)
    BY <1>4, <1>7
  <2> HIDE DEF a
  <2> QED
    BY <1>1, <1>6, <2>1, BlockCosts
<1>9. Stacks[t] = Routines(r.td.stack) /\ Len(Stacks[t]) = Len(r.td.stack)
  <2>1. Stacks = StackMap
    BY AccountsAre
  <2>2. Len(Routines(threads[t].stack)) = Len(threads[t].stack)
    BY <1>5, RoutinesType DEF ThreadOK
  <2> QED
    BY <1>1, <1>3, <2>1, <2>2 DEF StackMap
<1>10. Routines(s.td.stack) = Times!Left(t, n) /\ n \in 0..Len(Stacks[t])
  <2>1. n <= Len(Stacks[t]) /\ Len(Stacks[t]) \in Nat
    <3>1. Len(r.td.stack) \in Nat
      BY <1>5, ThreadFields DEF ThreadOK
    <3> QED
      BY <1>1, <1>3, <1>9, <3>1
  <2> QED
    BY <1>1, <1>4, <1>9, <2>1 DEF Times!Left
<1> HIDE DEF a
<1>11. \E k \in [1..n -> Size] : Times!Cost(Times!LeaveMany(now, n, k))
  BY <1>8 DEF a
<1>12. Stacks' = [Stacks EXCEPT ![t] = Times!Left(t, n)]
  BY <1>8, <1>10
<1> QED
  BY <1>6, <1>10, <1>11, <1>12 DEF Times!Block

\* A call at the end of a block.
LEMMA CallCosts ==
  ASSUME Exact, IInv', NEW t \in Thread, t \in DOMAIN threads, NEW r, Exiting(t, r),
         IsFiniteSet(DOMAIN r.tuples), Len(r.td.stack) < MaxDepth, NEW f \in Fn,
         NEW s, s = [r EXCEPT !.td = function_enter(@, f)], Block(t, s),
         WeightOf(r.td) <= WeightOf(threads[t]) + 1
  PROVE  /\ Exact' /\ Times!Cost(AccountOf(r, Others(t)))
         /\ Stacks' = [Stacks EXCEPT ![t] = Append(Routines(r.td.stack), f)]
<1> DEFINE td == r.td
           u == function_enter(td, f)
           B == Others(t)
           fs == Append(Routines(td.stack), f)
<1>1. r = [td |-> td, tuples |-> r.tuples] /\ ThreadOK(mode, td) /\ FileOf(r.tuples)
  BY DEF Exiting, FileOf, TuplesOK
<1>2. s = [r EXCEPT !.td = u]
  BY DEF u
<1>3. s.td = u /\ s.tuples = r.tuples
  <2> HIDE DEF u, td
  <2> QED
    BY <1>1, <1>2
<1>4. BaseOK(B)
  BY OthersOK DEF Exact
<1>5. /\ ThreadOK(mode, u) /\ u.cost = td.cost /\ Len(u.stack) = Len(td.stack) + 1
      /\ Account(u.stack, Now(u), r.tuples, B)
           = [Account(td.stack, Now(td), r.tuples, B) EXCEPT !.stack = fs]
      /\ Routines(u.stack) = fs
  <2> HIDE DEF td, B
  <2>1. Len(td.stack) < MaxDepth
    BY DEF td
  <2> QED
    BY <1>1, <1>4, <2>1, EnterIsCalled
<1> HIDE DEF u
<1>6. Exact'
  <2> DEFINE x == WeightOf(u)
             y == WeightOf(td)
             z == WeightOf(threads[t])
             n == Len(td.stack)
             c == td.cost
             m == n * Square
  <2>1. x \in Nat /\ y \in Nat /\ z \in Nat /\ Square \in Nat /\ c \in Nat /\ m \in Nat /\ n \in Nat
    <3>1. ThreadOK(mode, threads[t])
      BY DEF Exact, IInv
    <3>2. n \in Nat
      BY <1>1, ThreadFields DEF ThreadOK
    <3> QED
      BY <1>1, <1>5, <3>1, <3>2, WeightType, SquaresBound
  <2>2. x = c + (n + 1) * Square /\ y = c + m /\ y <= z + 1
    BY <1>5 DEF WeightOf
  <2>3. (n + 1) * Square = m + Square
    <3> HIDE DEF n
    <3> QED
      BY <2>1
  <2> HIDE DEF x, y, z, c, m, n
  <2>4. x <= z + 1 + Square
    BY <2>1, <2>2, <2>3
  <2>5. WeightOf(s.td) <= WeightOf(threads[t]) + 1 + Square
    BY <1>3, <2>4 DEF x, z
  <2> QED
    BY <1>3, <1>5, <2>5, BlockExact
<1> DEFINE a == AccountOf(r, B)
           b == AccountOf(s, B)
<1>7. b = [a EXCEPT !.stack = fs]
  BY <1>3, <1>5 DEF AccountOf
<1>8. a = [stack |-> a.stack, self |-> a.self, real |-> a.real, spent |-> a.spent]
  BY DEF AccountOf, Account
<1>9. Times!Cost(b) /\ Stacks' = [Stacks EXCEPT ![t] = Routines(s.td.stack)]
  <2> HIDE DEF b
  <2>1. b = AccountOf(s, Others(t))
    BY DEF b
  <2> QED
    BY <1>6, <2>1, BlockCosts
<1> HIDE DEF a, b
<1>10. b.self = a.self /\ b.real = a.real /\ b.spent = a.spent
  BY <1>7, <1>8
<1>11. Times!Cost(a)
  BY <1>9, <1>10 DEF Times!Cost
<1> QED
  BY <1>3, <1>5, <1>6, <1>9, <1>11 DEF a

LEMMA NoneLeave ==
  ASSUME NEW a, NEW sizes
  PROVE  Times!LeaveMany(a, 0, sizes) = a
<1> DEFINE L == [k \in 0..0 |-> a]
<1>1. L[0] = a
  OBVIOUS
<1>2. Leaves(L, 0, sizes)
  BY DEF Leaves
<1> HIDE DEF L
<1>3. Times!LeaveMany(L[0], 0, sizes) = L[0]
  BY <1>2, LeaveManyIs
<1> QED
  BY <1>1, <1>3

\* The stack of a running thread.
LEMMA StackIs ==
  ASSUME Exact, NEW t \in Thread, t \in DOMAIN threads
  PROVE  /\ Stacks[t] = Routines(threads[t].stack) /\ Stacks[t] \in Seq(Fn)
         /\ Len(Stacks[t]) = Len(threads[t].stack) /\ Len(Stacks[t]) \in Nat
         /\ Len(threads[t].stack) <= MaxDepth
<1>1. ThreadOK(mode, threads[t])
  BY DEF Exact, IInv
<1>2. Stacks = StackMap
  BY AccountsAre
<1>3. /\ Routines(threads[t].stack) \in Seq(Fn)
      /\ Len(Routines(threads[t].stack)) = Len(threads[t].stack)
      /\ Len(threads[t].stack) \in Nat
  BY <1>1, RoutinesType, ThreadFields DEF ThreadOK
<1> QED
  BY <1>1, <1>2, <1>3 DEF StackMap, ThreadOK

\* What makes a block with a call.
LEMMA BlockFrom ==
  ASSUME NEW t, NEW n \in 0..Len(Stacks[t]), n \in {0, 1}, NEW f \in Fn,
         Stacks' = [Stacks EXCEPT ![t] = Append(Times!Left(t, n), f)],
         \E k \in [1..n -> Size] :
           Times!Cost(Times!LeaveMany(Times!Spend(Times!Accounts(t), 1), n, k))
  PROVE  Times!Block(t)
<1>1. n <= 1
  OBVIOUS
<1>2. \E g \in Fn : Stacks' = [Stacks EXCEPT ![t] = Append(Times!Left(t, n), g)]
  OBVIOUS
<1> QED
  BY <1>1, <1>2 DEF Times!Block

LEMMA CallIs ==
  ASSUME Exact, NEW t \in Thread, NEW f \in Fn, Call(t, f)
  PROVE  Exact' /\ Times!Block(t)
<1> DEFINE r == Ticked(t)
           s == [r EXCEPT !.td = function_enter(@, f)]
           now == Times!Spend(Times!Accounts(t), 1)
<1>1. t \in DOMAIN threads /\ Len(threads[t].stack) < MaxDepth /\ Block(t, s)
  BY DEF Call, Alive
<1>2. IInv'
  BY CallKeeps DEF Exact
<1>3. /\ Exiting(t, r) /\ r.td.stack = threads[t].stack
      /\ r.td.cost = threads[t].cost + 1
      /\ IsFiniteSet(DOMAIN r.tuples)
      /\ AccountOf(r, Others(t)) = Times!Spend(SumAccount(t), 1)
  BY <1>1, TickedIs
<1> HIDE DEF r
<1>4. WeightOf(r.td) <= WeightOf(threads[t]) + 1
  <2>1. ThreadOK(mode, threads[t])
    BY <1>1 DEF Exact, IInv
  <2> DEFINE c == threads[t].cost
             m == Len(threads[t].stack) * Square
  <2>2. c \in Nat /\ m \in Nat
    BY <2>1, WeightType
  <2>3. WeightOf(r.td) = (c + 1) + m /\ WeightOf(threads[t]) = c + m
    BY <1>3 DEF WeightOf
  <2> HIDE DEF c, m
  <2> QED
    BY <2>2, <2>3
<1>5. /\ Exact' /\ Times!Cost(AccountOf(r, Others(t)))
      /\ Stacks' = [Stacks EXCEPT ![t] = Append(Routines(r.td.stack), f)]
  <2>1. s = [r EXCEPT !.td = function_enter(@, f)] /\ Len(r.td.stack) < MaxDepth
    BY <1>1, <1>3
  <2> HIDE DEF s
  <2> QED
    BY <1>1, <1>2, <1>3, <1>4, <2>1, CallCosts
<1>6. now = AccountOf(r, Others(t))
  BY <1>3, AccountsAre
<1>7. Routines(r.td.stack) = Times!Left(t, 0) /\ 0 \in 0..Len(Stacks[t])
  <2> DEFINE fs == Stacks[t]
  <2>1. Stacks[t] = Routines(r.td.stack) /\ fs \in Seq(Fn) /\ Len(fs) \in Nat
    BY <1>1, <1>3, StackIs
  <2>2. Times!Left(t, 0) = SubSeq(fs, 1, Len(fs) - 0)
    BY DEF Times!Left
  <2> HIDE DEF fs
  <2>3. SubSeq(fs, 1, Len(fs) - 0) = fs
    BY <2>1
  <2> QED
    BY <2>1, <2>2, <2>3 DEF fs
<1> HIDE DEF now
<1>8. \E sizes \in [1..0 -> Size] : Times!Cost(Times!LeaveMany(now, 0, sizes))
  <2> DEFINE none == [i \in 1..0 |-> Worst]
  <2>1. none \in [1..0 -> Size]
    BY SquaresBound
  <2> HIDE DEF none
  <2>2. Times!LeaveMany(now, 0, none) = now
    BY NoneLeave
  <2> QED
    BY <1>5, <1>6, <2>1, <2>2
<1>9. Stacks' = [Stacks EXCEPT ![t] = Append(Times!Left(t, 0), f)]
  BY <1>5, <1>7
<1> QED
  BY <1>5, <1>7, <1>8, <1>9, BlockFrom DEF now

LEMMA CallResolvedIs ==
  ASSUME Exact, NEW t \in Thread, NEW f \in Fn, NEW size \in Size, CallResolved(t, f, size)
  PROVE  Exact' /\ Times!Block(t)
<1> DEFINE q == Ticked(t)
           r == ExitMany(t, q, 1, <<size>>)
           s == [r EXCEPT !.td = function_enter(@, f)]
           now == Times!Spend(Times!Accounts(t), 1)
<1>1. t \in DOMAIN threads /\ threads[t].stack # <<>> /\ Block(t, s)
  BY DEF CallResolved, Alive
<1>2. IInv'
  BY CallResolvedKeeps DEF Exact
<1>3. /\ Exiting(t, q) /\ q.td.stack = threads[t].stack
      /\ q.td.cost = threads[t].cost + 1
      /\ IsFiniteSet(DOMAIN q.tuples)
      /\ AccountOf(q, Others(t)) = Times!Spend(SumAccount(t), 1)
  BY <1>1, TickedIs
<1>4. /\ Stacks[t] = Routines(q.td.stack) /\ Len(Stacks[t]) = Len(q.td.stack)
      /\ Len(q.td.stack) \in Nat /\ 1 <= Len(q.td.stack) /\ Len(q.td.stack) <= MaxDepth
      /\ MaxDepth \in Nat
  <2>1. ThreadOK(mode, threads[t])
    BY <1>1 DEF Exact, IInv
  <2>2. Len(threads[t].stack) \in 1..MaxDepth
    BY <1>1, <2>1, TopOf
  <2> HIDE DEF q
  <2> QED
    BY <1>1, <1>3, <2>2, StackIs, BoundsAssumption
<1> HIDE DEF q
<1>5. /\ Exiting(t, r) /\ IsFiniteSet(DOMAIN r.tuples)
      /\ AccountOf(r, Others(t)) = Times!LeaveMany(AccountOf(q, Others(t)), 1, <<size>>)
      /\ WeightOf(r.td) <= WeightOf(q.td)
      /\ Len(r.td.stack) = Len(q.td.stack) - 1
      /\ Routines(r.td.stack) = SubSeq(Routines(q.td.stack), 1, Len(q.td.stack) - 1)
  <2>1. 1 \in Nat /\ 1 <= Len(q.td.stack) /\ <<size>> \in [1..1 -> Size]
    BY <1>4, OneSize
  <2>2. \A n \in Nat : \A sizes \in [1..n -> Size] : n <= Len(q.td.stack) =>
        LET v == ExitMany(t, q, n, sizes)
        IN  /\ Exiting(t, v) /\ IsFiniteSet(DOMAIN v.tuples)
            /\ AccountOf(v, Others(t)) = Times!LeaveMany(AccountOf(q, Others(t)), n, sizes)
            /\ WeightOf(v.td) <= WeightOf(q.td)
            /\ Len(v.td.stack) = Len(q.td.stack) - n
            /\ Routines(v.td.stack) = SubSeq(Routines(q.td.stack), 1, Len(q.td.stack) - n)
    BY <1>1, <1>3, ExitsCost
  <2> QED
    BY <2>1, <2>2
<1> HIDE DEF r
<1>6. WeightOf(r.td) <= WeightOf(threads[t]) + 1
  <2>1. ThreadOK(mode, threads[t]) /\ ThreadOK(mode, r.td)
    BY <1>1, <1>5 DEF Exact, IInv, Exiting
  <2> DEFINE c == threads[t].cost
             m == Len(threads[t].stack) * Square
             x == WeightOf(r.td)
  <2>2. c \in Nat /\ m \in Nat /\ x \in Nat
    BY <2>1, WeightType
  <2>3. WeightOf(q.td) = (c + 1) + m /\ WeightOf(threads[t]) = c + m
    BY <1>3 DEF WeightOf
  <2>4. x <= (c + 1) + m
    BY <1>5, <2>3
  <2> HIDE DEF c, m, x
  <2>5. x <= (c + m) + 1
    BY <2>2, <2>4
  <2> QED
    BY <2>3, <2>5 DEF x
<1>7. /\ Exact' /\ Times!Cost(AccountOf(r, Others(t)))
      /\ Stacks' = [Stacks EXCEPT ![t] = Append(Routines(r.td.stack), f)]
  <2>1. s = [r EXCEPT !.td = function_enter(@, f)] /\ Len(r.td.stack) < MaxDepth
    BY <1>4, <1>5
  <2> HIDE DEF s
  <2> QED
    BY <1>1, <1>2, <1>5, <1>6, <2>1, CallCosts
<1>8. now = AccountOf(q, Others(t))
  BY <1>3, AccountsAre
<1>9. Routines(r.td.stack) = Times!Left(t, 1) /\ 1 \in 0..Len(Stacks[t])
  <2>1. Times!Left(t, 1) = SubSeq(Stacks[t], 1, Len(Stacks[t]) - 1)
    BY DEF Times!Left
  <2> QED
    BY <1>4, <1>5, <2>1
<1> HIDE DEF now
<1>10. \E k \in [1..1 -> Size] : Times!Cost(Times!LeaveMany(now, 1, k))
  BY <1>5, <1>7, <1>8, OneSize
<1>11. Stacks' = [Stacks EXCEPT ![t] = Append(Times!Left(t, 1), f)]
  BY <1>7, <1>9
<1> QED
  BY <1>7, <1>9, <1>10, <1>11, BlockFrom DEF now

-----------------------------------------------------------------------------
(* Threads that start.                                                      *)

LEMMA EmptyStack ==
  ASSUME NEW now \in Nat, NEW f
  PROVE  /\ Routines(<<>>) = <<>> /\ <<>> \in Seq(Activation)
         /\ SelfOf(<<>>, now, f) = 0 /\ RealOf(<<>>, now, f) = 0 /\ Reading(<<>>, now) = now
<1> DEFINE st == <<>>
<1>1. Routines(st) = <<>> /\ st \in Seq(Activation) /\ Len(st) = 0
  BY DEF Routines
<1> HIDE DEF st
<1>2. TimedOf(Routines(st), f) \subseteq 1..0 /\ FirstOf(st, f) \subseteq TimedOf(Routines(st), f)
      /\ Timing(st) \in 0..0
      /\ \A i \in 1..0 : LiveOf(st, now)[i] \in Int /\ SinceOf(st, now)[i] \in Int
  BY <1>1, LiveFacts
<1>3. TimedOf(Routines(st), f) = {} /\ FirstOf(st, f) = {}
  BY <1>2
<1>4. Integral(LiveOf(st, now), {}) /\ Integral(SinceOf(st, now), {})
  BY DEF Integral
<1>5. Total(LiveOf(st, now), {}) = 0 /\ Total(SinceOf(st, now), {}) = 0
  BY <1>4, TotalSteps, FS_EmptySet
<1>6. Reading(st, now) = now
  BY <1>1, <1>2 DEF Reading
<1> QED
  BY <1>1, <1>3, <1>5, <1>6 DEF SelfOf, RealOf, st

\* A thread that starts has cost nothing.
LEMMA StartIs ==
  ASSUME Exact, NEW t \in Thread, Start(t)
  PROVE  Exact' /\ UNCHANGED <<Stacks, SelfSoFar, RealSoFar, SpentSoFar>>
<1> DEFINE D == DOMAIN threads
           E == DOMAIN threads'
<1>0. PICK first \in FirstNodes :
        threads' = [u \in D \cup {t} |-> IF u = t THEN NewThread(first) ELSE threads[u]]
  BY DEF Start, Alive
<1> DEFINE new == NewThread(first)
<1>1. /\ t \notin D /\ E = D \cup {t} /\ threads'[t] = new
      /\ \A u \in D : threads'[u] = threads[u]
      /\ mode' = mode /\ blocks' = blocks /\ tuples' = tuples /\ extra' = extra
      /\ printed' = printed /\ (D # {} \/ printed = <<>>)
  BY <1>0 DEF Start, Alive
<1>2. IInv'
  BY StartKeeps DEF Exact
<1>3. IsFiniteSet(D) /\ IsFiniteSet(E) /\ E \ {t} = D /\ t \in E
  BY <1>1, FS_AddElement DEF Exact, Finite
<1>4. Finite'
  BY <1>1, <1>3 DEF Exact, Finite
<1>5. LastPrints'
  BY <1>1 DEF Exact, LastPrints
<1>6. new.stack = <<>> /\ Now(new) = 0 /\ WeightOf(new) = 0
  <2>1. new.stack = <<>> /\ new.cost = 0 /\ new.skipCost = 0
    BY DEF NewThread
  <2>2. 0 * Square = 0
    BY SquaresBound
  <2> QED
    BY <2>1, <2>2 DEF Now, WeightOf
<1>7. Budget'
  <2> DEFINE v == Weights(threads')
             w == Weights(threads)
             e == Counted(mode, extra)
             b == blocks * (1 + Square)
  <2>1. \A u \in D : w[u] \in Nat /\ v[u] = w[u]
    <3>1. \A u \in D : w[u] \in Nat
      BY BudgetBounds DEF Exact
    <3> QED
      BY <1>1, <3>1 DEF Weights
  <2>2. v[t] = 0
    BY <1>1, <1>6 DEF Weights
  <2>3. Integral(v, E) /\ Agree(v, w, D)
    BY <1>1, <2>1, <2>2 DEF Integral, Agree
  <2>4. Total(v, D) = Total(w, D)
    <3> HIDE DEF v, w
    <3> QED
      BY <1>3, <2>3, TotalSame
  <2>5. Total(v, D \cup {t}) = Total(v, D) + v[t] /\ Total(v, D) \in Int
    <3>1. Integral(v, D \cup {t}) /\ t \notin D
      BY <1>1, <2>3
    <3> HIDE DEF v, D
    <3> QED
      BY <1>3, <3>1, TotalInsert
  <2>6. Total(v, E) = Total(w, D)
    <3>1. E = D \cup {t}
      BY <1>1
    <3> HIDE DEF v, w, D, E
    <3> QED
      BY <2>2, <2>4, <2>5, <3>1
  <2> QED
    BY <1>1, <2>6 DEF Budget, Exact
<1>8. Exact'
  BY <1>2, <1>4, <1>5, <1>7 DEF Exact
<1>9. StackMap' = StackMap
  <2>1. Routines(new.stack) = <<>>
    BY <1>6, EmptyStack
  <2> QED
    BY <1>1, <2>1 DEF StackMap
<1>10. \A f : /\ Total(SelfAt(threads', f), E) = Total(SelfAt(threads, f), D)
              /\ Total(RealAt(threads', f), E) = Total(RealAt(threads, f), D)
              /\ Total(ReadingAt(threads'), E) = Total(ReadingAt(threads), D)
  <2> SUFFICES ASSUME NEW f
               PROVE  /\ Total(SelfAt(threads', f), E) = Total(SelfAt(threads, f), D)
                      /\ Total(RealAt(threads', f), E) = Total(RealAt(threads, f), D)
                      /\ Total(ReadingAt(threads'), E) = Total(ReadingAt(threads), D)
    OBVIOUS
  <2> DEFINE ths == threads
             ths2 == threads'
  <2>1. Clocked(ths) /\ IsFiniteSet(DOMAIN ths) /\ D \in SUBSET DOMAIN ths
        /\ D \subseteq DOMAIN ths2 /\ (\A u \in D : ths2[u] = ths[u])
    BY <1>1, ThreadsClocked DEF Exact, Finite
  <2>2. Clocked(ths2) /\ IsFiniteSet(DOMAIN ths2) /\ t \in DOMAIN ths2
    <3>1. ths2[t].stack \in Seq(Activation) /\ Now(ths2[t]) \in Nat
      BY <1>1, <1>6, EmptyStack
    <3> QED
      BY <1>1, <1>3, <2>1, <3>1 DEF Clocked
  <2>3. DOMAIN ths2 \ {t} = D /\ DOMAIN ths2 = E /\ ths2[t].stack = <<>> /\ Now(ths2[t]) = 0
    BY <1>1, <1>3, <1>6
  <2> HIDE DEF ths, ths2, D, E
  <2>4. /\ Total(SelfAt(ths2, f), D) = Total(SelfAt(ths, f), D)
         /\ Total(RealAt(ths2, f), D) = Total(RealAt(ths, f), D)
         /\ Total(ReadingAt(ths2), D) = Total(ReadingAt(ths), D)
         /\ Total(SelfAt(ths, f), D) \in Int /\ Total(RealAt(ths, f), D) \in Int
         /\ Total(ReadingAt(ths), D) \in Int
    BY <2>1, SameOthers
  <2>5. /\ Total(SelfAt(ths2, f), E) = SelfOf(<<>>, 0, f) + Total(SelfAt(ths2, f), D)
        /\ Total(RealAt(ths2, f), E) = RealOf(<<>>, 0, f) + Total(RealAt(ths2, f), D)
        /\ Total(ReadingAt(ths2), E) = Reading(<<>>, 0) + Total(ReadingAt(ths2), D)
    BY <2>2, <2>3, OneApart
  <2>6. SelfOf(<<>>, 0, f) = 0 /\ RealOf(<<>>, 0, f) = 0 /\ Reading(<<>>, 0) = 0
    BY EmptyStack
  <2>7. /\ Total(SelfAt(ths2, f), E) = Total(SelfAt(ths, f), D)
        /\ Total(RealAt(ths2, f), E) = Total(RealAt(ths, f), D)
        /\ Total(ReadingAt(ths2), E) = Total(ReadingAt(ths), D)
    BY <2>4, <2>5, <2>6
  <2> QED
    BY <2>7 DEF ths, ths2, D, E
<1>11. SelfSum' = SelfSum /\ RealSum' = RealSum /\ SpentSum' = SpentSum
  BY <1>1, <1>10 DEF SelfSum, RealSum, SpentSum
<1>12. /\ SelfSoFar' = SelfSum' /\ RealSoFar' = RealSum' /\ SpentSoFar' = SpentSum'
       /\ Stacks' = StackMap'
  BY <1>8, SumsNext DEF Exact
<1>13. /\ SelfSoFar = SelfSum /\ RealSoFar = RealSum /\ SpentSoFar = SpentSum
       /\ Stacks = StackMap
  BY SumsNow DEF Exact
<1> QED
  BY <1>8, <1>9, <1>11, <1>12, <1>13

\* What is printed of a thread's cost, with the skipped cost put back.
LEMMA PrintedCost ==
  ASSUME NEW now \in Nat, now < ULongSpan, NEW skipped \in Nat
  PROVE  (((now - skipped) % ULongSpan) + skipped) % ULongSpan = now
<1>1. ULongSpan \in Nat \ {0}
  BY BoundsAssumption
<1> DEFINE x == now - skipped
<1>2. x \in Int /\ skipped \in Int /\ x + skipped = now /\ now \in 0..(ULongSpan - 1)
  BY <1>1
<1> HIDE DEF x
<1>3. ((x % ULongSpan) + skipped) % ULongSpan = (x + skipped) % ULongSpan
  BY <1>1, <1>2, ModuloOfSum
<1>4. now % ULongSpan = now
  BY <1>1, <1>2, ModuloSmall
<1> QED
  BY <1>2, <1>3, <1>4 DEF x

\* What is added up of the threads of a single report.
LEMMA PrintedCosts ==
  ASSUME NEW cost \in Nat, NEW skip \in Nat, NEW now \in Nat, NEW skipped \in Nat,
         ((cost + skip) % ULongSpan) + now < ULongSpan
  PROVE  (((cost + ((now - skipped) % ULongSpan)) % ULongSpan) + (skip + skipped)) % ULongSpan
           = ((cost + skip) % ULongSpan) + now
<1> DEFINE n == ULongSpan
           x == now - skipped
           c == x % n
           a == cost + c
           b == skip + skipped
           d == cost + skip
           e == d % n
           g == d + skipped
<1>1. n \in Nat \ {0}
  BY BoundsAssumption
<1>2. x \in Int /\ b \in Int /\ d \in Int /\ g \in Int /\ now \in Int
  OBVIOUS
<1> HIDE DEF n
<1>3. c \in Int /\ a \in Int /\ e \in 0..(n - 1)
  <2>1. x % n \in 0..(n - 1) /\ d % n \in 0..(n - 1)
    <3> HIDE DEF x, d
    <3> QED
      BY <1>1, <1>2, ModuloIs
  <2> HIDE DEF x, e
  <2> QED
    BY <1>1, <2>1 DEF e
<1>4. ((a % n) + b) % n = (a + b) % n
  <2> HIDE DEF a, b
  <2> QED
    BY <1>1, <1>2, <1>3, ModuloOfSum
<1>5. a + b = c + g /\ x + g = d + now
  <2>1. x + g = d + now
    OBVIOUS
  <2> HIDE DEF c, x
  <2> QED
    BY <1>3, <2>1
<1>6. (c + g) % n = (x + g) % n
  <2> HIDE DEF x, g
  <2> QED
    BY <1>1, <1>2, ModuloOfSum
<1>7. (e + now) % n = (d + now) % n
  <2> HIDE DEF d
  <2> QED
    BY <1>1, <1>2, ModuloOfSum
<1>8. (e + now) % n = e + now
  <2>1. e + now < n
    BY DEF n
  <2> DEFINE s == e + now
  <2> HIDE DEF e
  <2>2. s \in 0..(n - 1)
    BY <1>1, <1>3, <2>1
  <2> HIDE DEF s
  <2>3. s % n = s
    BY <1>1, <2>2, ModuloSmall
  <2> QED
    BY <2>3 DEF s
<1>9. ((a % n) + b) % n = e + now
  <2> HIDE DEF a, b, c, e, x, d, g
  <2> QED
    BY <1>4, <1>5, <1>6, <1>7, <1>8
<1> QED
  BY <1>9 DEF n

-----------------------------------------------------------------------------
(* Reports.                                                                *)

\* The tuples of an owner move from the input map ts, which becomes us, to a report.
OwnedIn(ts, owner) == {k \in DOMAIN ts : k.owner = owner}
Printing(ts, owner, us, ps, qs) ==
  /\ us = Without(ts, OwnedIn(ts, owner))
  /\ Len(ps) \in Nat /\ DOMAIN ps = 1..Len(ps) /\ DOMAIN qs = 1..(Len(ps) + 1)
  /\ \A i \in 1..Len(ps) : qs[i] = ps[i]
  /\ qs[Len(ps) + 1].tuples = OwnedBy(ts, owner)

\* The tuple of a key as the reports have it.
PrintedAs(ts, n) == [k \in DOMAIN ts |-> <<n, k, ts[k]>>]

LEMMA PrintedTuplesAre ==
  ASSUME NEW ts, NEW owner, NEW us, NEW ps, NEW qs, Printing(ts, owner, us, ps, qs)
  PROVE  TuplesIn(qs) = TuplesIn(ps)
           \cup {PrintedAs(ts, Len(ps) + 1)[k] : k \in OwnedIn(ts, owner)}
<1> DEFINE n == Len(ps) + 1
           m == PrintedAs(ts, n)
           In(s, i) == {<<i, p[1], p[2]>> : p \in s[i].tuples}
<1>1. /\ DOMAIN qs = DOMAIN ps \cup {n} /\ n \notin DOMAIN ps
      /\ \A i \in DOMAIN ps : qs[i] = ps[i]
  BY DEF Printing
<1>2. In(qs, n) = {m[k] : k \in OwnedIn(ts, owner)}
  <2>1. qs[n].tuples = {<<k, ts[k]>> : k \in OwnedIn(ts, owner)}
    BY DEF Printing, OwnedBy, OwnedIn
  <2>2. \A k \in OwnedIn(ts, owner) : m[k] = <<n, k, ts[k]>>
    BY DEF PrintedAs, OwnedIn
  <2> HIDE DEF m, n
  <2>3. \A k \in OwnedIn(ts, owner) : <<n, <<k, ts[k]>>[1], <<k, ts[k]>>[2]>> = m[k]
    BY <2>2
  <2>4. \A p \in qs[n].tuples : \E k \in OwnedIn(ts, owner) : <<n, p[1], p[2]>> = m[k]
    BY <2>1, <2>3
  <2>5. \A k \in OwnedIn(ts, owner) : \E p \in qs[n].tuples : <<n, p[1], p[2]>> = m[k]
    <3> SUFFICES ASSUME NEW k \in OwnedIn(ts, owner)
                 PROVE  \E p \in qs[n].tuples : <<n, p[1], p[2]>> = m[k]
      OBVIOUS
    <3>1. <<k, ts[k]>> \in qs[n].tuples
      BY <2>1
    <3> QED
      BY <2>3, <3>1
  <2> DEFINE N == In(qs, n)
             M == {m[k] : k \in OwnedIn(ts, owner)}
             v(p) == <<n, p[1], p[2]>>
  <2>6. (\A x \in N : \E p \in qs[n].tuples : x = v(p)) /\ \A p \in qs[n].tuples : v(p) \in N
    OBVIOUS
  <2>7. (\A x \in M : \E k \in OwnedIn(ts, owner) : x = m[k])
        /\ \A k \in OwnedIn(ts, owner) : m[k] \in M
    OBVIOUS
  <2>8. /\ \A p \in qs[n].tuples : \E k \in OwnedIn(ts, owner) : v(p) = m[k]
        /\ \A k \in OwnedIn(ts, owner) : \E p \in qs[n].tuples : v(p) = m[k]
    BY <2>4, <2>5
  <2> HIDE DEF N, M, v
  <2>9. N = M
    BY <2>6, <2>7, <2>8
  <2> QED
    BY <2>9 DEF N, M
<1>3. TuplesIn(qs) = UNION {In(qs, i) : i \in DOMAIN qs}
      /\ TuplesIn(ps) = UNION {In(ps, i) : i \in DOMAIN ps}
  BY DEF TuplesIn
<1>4. \A i \in DOMAIN ps : In(qs, i) = In(ps, i)
  BY <1>1
<1> HIDE DEF In, n
<1>5. (UNION {In(qs, i) : i \in DOMAIN qs})
        = (UNION {In(ps, i) : i \in DOMAIN ps}) \cup In(qs, n)
  BY <1>1, <1>4
<1> QED
  BY <1>2, <1>3, <1>5 DEF n

LEMMA PrintedMore ==
  ASSUME NEW ts, FileOf(ts), NEW owner, NEW us, NEW ps, NEW qs,
         Printing(ts, owner, us, ps, qs), IsFiniteSet(TuplesIn(ps)), PrintedType(ps),
         NEW f, NEW field \in {"sumSelf", "real"}
  PROVE  /\ IsFiniteSet(TuplesIn(qs)) /\ IsFiniteSet(DOMAIN us)
         /\ FiledSum(us, f, field) + PrintedSum(qs, f, field)
              = FiledSum(ts, f, field) + PrintedSum(ps, f, field)
<1> DEFINE n == Len(ps) + 1
           m == PrintedAs(ts, n)
           O == OwnedIn(ts, owner)
           F == O \cap KeysOf(ts, f)
           U == KeysOf(us, f)
           P == PrintedOf(ps, f)
           Q == {m[k] : k \in F}
           g == FieldOf(ts, field)
           h == PrintedField(qs, field)
<1>1. /\ IsFiniteSet(DOMAIN ts) /\ IsFiniteSet(O) /\ IsFiniteSet(F)
      /\ IsFiniteSet(P) /\ IsFiniteSet(DOMAIN us) /\ IsFiniteSet(U)
  <2>1. IsFiniteSet(DOMAIN ts) /\ O \subseteq DOMAIN ts /\ F \subseteq DOMAIN ts
        /\ DOMAIN us \subseteq DOMAIN ts /\ U \subseteq DOMAIN ts /\ P \subseteq TuplesIn(ps)
    BY DEF FileOf, OwnedIn, Printing, Without, KeysOf, PrintedOf
  <2> QED
    BY <2>1, FS_Subset
<1>2. \A k \in DOMAIN ts : m[k] = <<n, k, ts[k]>>
  BY DEF PrintedAs
<1>3. \A k \in DOMAIN ts : m[k][1] = n /\ m[k][2] = k /\ m[k][3] = ts[k]
  <2> HIDE DEF m, n
  <2> QED
    BY <1>2
<1>4. \A k \in DOMAIN ts : g[k] = ts[k][field] /\ g[k] \in Int
  <2>1. \A k \in DOMAIN ts : ts[k].sumSelf \in Int /\ ts[k].real \in Int
    BY FiledType
  <2> QED
    BY <2>1 DEF FieldOf
<1>5. TuplesIn(qs) = TuplesIn(ps) \cup {m[k] : k \in O}
  BY PrintedTuplesAre
<1>6. \A p \in TuplesIn(ps) : p[1] # n
  <2>1. \A p \in TuplesIn(ps) : \E i \in 1..Len(ps) : \E q \in ps[i].tuples : p = <<i, q[1], q[2]>>
    BY DEF TuplesIn, Printing
  <2>2. Len(ps) \in Nat
    BY DEF Printing
  <2> SUFFICES ASSUME NEW p \in TuplesIn(ps) PROVE p[1] # n
    OBVIOUS
  <2>3. PICK i \in 1..Len(ps) : \E q \in ps[i].tuples : p = <<i, q[1], q[2]>>
    BY <2>1
  <2>4. p[1] = i
    BY <2>3
  <2> QED
    BY <2>2, <2>4
<1>7. /\ PrintedOf(qs, f) = P \cup Q /\ P \cap Q = {}
  <2>1. \A k \in O : k \in DOMAIN ts
    BY DEF OwnedIn
  <2>2. F = {k \in O : k.fn = f}
    BY DEF KeysOf, OwnedIn
  <2> HIDE DEF m, O, F, n
  <2>3. {p \in {m[k] : k \in O} : p[2].fn = f} = Q
    BY <1>3, <2>1, <2>2
  <2>4. \A p \in Q : p[1] = n
    BY <1>3, <2>1, <2>2
  <2> HIDE DEF Q
  <2>5. PrintedOf(qs, f) = P \cup Q
    BY <1>5, <2>3 DEF PrintedOf
  <2>6. \A p \in P : p[1] # n
    BY <1>6 DEF PrintedOf
  <2> QED
    BY <2>4, <2>5, <2>6
<1>8. \A p \in TuplesIn(qs) : h[p] = p[3][field]
  BY DEF PrintedField
<1>9. \A p \in TuplesIn(ps) : PrintedField(ps, field)[p] = p[3][field] /\ p[3][field] \in Int
  BY DEF PrintedField, PrintedType
<1>10. /\ IsFiniteSet({m[k] : k \in O}) /\ IsFiniteSet(Q) /\ Total(h, Q) = Total(g, F)
  <2>1. \A k \in O : k \in DOMAIN ts /\ m[k] \in TuplesIn(qs)
    BY <1>5 DEF OwnedIn
  <2>2. \A x, y \in O : m[x] = m[y] => x = y
    <3> HIDE DEF m, O
    <3> QED
      BY <1>3, <2>1
  <2> HIDE DEF m, O, g, h
  <2>3. \A k \in O : g[k] \in Int /\ h[m[k]] = g[k]
    BY <1>3, <1>4, <1>8, <2>1
  <2>4. F \subseteq O
    OBVIOUS
  <2>5. \A x, y \in F : m[x] = m[y] => x = y
    BY <2>2, <2>4
  <2>6. \A k \in F : g[k] \in Int /\ h[m[k]] = g[k]
    BY <2>3, <2>4
  <2>7. IsFiniteSet({m[k] : k \in O}) /\ Total(h, {m[k] : k \in O}) = Total(g, O)
    BY <1>1, <2>2, <2>3, TotalImage, SMTT(30)
  <2> HIDE DEF F
  <2>8. IsFiniteSet({m[k] : k \in F}) /\ Total(h, {m[k] : k \in F}) = Total(g, F)
    BY <1>1, <2>5, <2>6, TotalImage, SMTT(30)
  <2> QED
    BY <2>7, <2>8
<1>11. IsFiniteSet(TuplesIn(qs))
  <2> DEFINE A == TuplesIn(ps)
             N == {m[k] : k \in O}
  <2>1. TuplesIn(qs) = A \cup N /\ IsFiniteSet(A) /\ IsFiniteSet(N)
    BY <1>5, <1>10
  <2> HIDE DEF A, N
  <2> QED
    BY <2>1, FS_Union
<1>12. PrintedSum(qs, f, field) = PrintedSum(ps, f, field) + Total(g, F)
       /\ PrintedSum(ps, f, field) \in Int
  <2>1. Q \subseteq TuplesIn(qs) /\ P \subseteq TuplesIn(ps) /\ TuplesIn(ps) \subseteq TuplesIn(qs)
        /\ \A p \in Q : h[p] \in Int
    <3>1. Q \subseteq {m[k] : k \in O}
      OBVIOUS
    <3>2. \A p \in Q : \E k \in DOMAIN ts : p = m[k]
      BY DEF OwnedIn
    <3> HIDE DEF m, Q, h, O, g
    <3>3. \A p \in Q : h[p] \in Int
      BY <1>3, <1>4, <1>5, <1>8, <3>1, <3>2
    <3> QED
      BY <1>5, <3>1, <3>3 DEF PrintedOf
  <2>2. Agree(h, PrintedField(ps, field), P)
    <3> HIDE DEF h
    <3> QED
      BY <1>8, <1>9, <2>1 DEF Agree
  <2>3. Integral(h, P \cup Q)
    <3> HIDE DEF h, Q, P
    <3> QED
      BY <1>8, <1>9, <2>1 DEF Integral
  <2> HIDE DEF h, Q, P, g, F
  <2>4. Total(h, P \cup Q) = Total(h, P) + Total(h, Q) /\ Total(h, P) \in Int
    BY <1>1, <1>7, <1>10, <2>3, TotalUnion
  <2>5. Total(h, P) = Total(PrintedField(ps, field), P)
    BY <1>1, <2>2, TotalSame
  <2>6. PrintedSum(qs, f, field) = Total(h, P \cup Q)
    BY <1>7 DEF PrintedSum, h
  <2>7. PrintedSum(ps, f, field) = Total(PrintedField(ps, field), P)
    BY DEF PrintedSum, P
  <2> QED
    BY <1>10, <2>4, <2>5, <2>6, <2>7
<1>13. FiledSum(ts, f, field) = FiledSum(us, f, field) + Total(g, F)
       /\ FiledSum(us, f, field) \in Int /\ Total(g, F) \in Int
  <2>1. DOMAIN us = DOMAIN ts \ O /\ \A k \in DOMAIN us : us[k] = ts[k]
    BY DEF Printing, Without
  <2>2. KeysOf(ts, f) = U \cup F /\ U \cap F = {}
    BY <2>1 DEF KeysOf
  <2>3. Integral(g, U \cup F)
    <3> HIDE DEF g
    <3> QED
      BY <1>4, <2>1 DEF Integral, KeysOf
  <2>4. Agree(FieldOf(us, field), g, U)
    BY <2>1 DEF Agree, FieldOf, KeysOf
  <2> HIDE DEF U, F, g
  <2>5. Total(g, U \cup F) = Total(g, U) + Total(g, F) /\ Total(g, U) \in Int /\ Total(g, F) \in Int
    BY <1>1, <2>2, <2>3, TotalUnion
  <2>6. Total(FieldOf(us, field), U) = Total(g, U)
    BY <1>1, <2>4, TotalSame
  <2> QED
    BY <2>2, <2>5, <2>6 DEF FiledSum, g, U
<1> HIDE DEF g, F
<1> QED
  BY <1>1, <1>11, <1>12, <1>13

-----------------------------------------------------------------------------
(* Threads that end.                                                        *)

LEMMA PrintedTimeMore ==
  ASSUME NEW ps, NEW qs, Len(ps) \in Nat, DOMAIN ps = 1..Len(ps), DOMAIN qs = 1..(Len(ps) + 1),
         \A i \in 1..Len(ps) : qs[i] = ps[i],
         \A i \in 1..Len(ps) : TimesIn(ps)[i] \in Nat,
         NEW x \in Nat, x = (qs[Len(ps) + 1].k + qs[Len(ps) + 1].skipped) % ULongSpan
  PROVE  PrintedTime(qs) = PrintedTime(ps) + x /\ PrintedTime(ps) \in Nat
<1> DEFINE n == Len(ps) + 1
           S == 1..Len(ps)
           g == TimesIn(ps)
           h == TimesIn(qs)
<1>1. DOMAIN qs = S \cup {n} /\ n \notin S /\ IsFiniteSet(S)
  <2> DEFINE m == Len(ps)
  <2>1. m \in Nat /\ DOMAIN qs = 1..(m + 1) /\ S = 1..m /\ n = m + 1
    OBVIOUS
  <2> HIDE DEF m, S, n
  <2>2. IsFiniteSet(1..m)
    <3>1. 1 \in Int /\ m \in Int
      BY <2>1
    <3> QED
      BY <3>1, FS_Interval
  <2>3. 1..(m + 1) = (1..m) \cup {m + 1} /\ m + 1 \notin 1..m
    <3>1. m \in Nat
      BY <2>1
    <3> QED
      BY <3>1
  <2> QED
    BY <2>1, <2>2, <2>3
<1>2. h[n] = x /\ \A i \in S : h[i] = g[i] /\ g[i] \in Nat
  BY <1>1 DEF TimesIn
<1>3. Integral(h, S \cup {n}) /\ Agree(h, g, S)
  <2> HIDE DEF n, S, g, h
  <2> QED
    BY <1>2 DEF Integral, Agree
<1>4. PrintedTime(ps) = Total(g, S) /\ PrintedTime(qs) = Total(h, S \cup {n})
  BY <1>1 DEF PrintedTime
<1> HIDE DEF n, S, g, h
<1>5. Total(h, S \cup {n}) = Total(h, S) + h[n] /\ Total(h, S) \in Int
  BY <1>1, <1>3, TotalInsert
<1>6. Total(h, S) = Total(g, S)
  BY <1>1, <1>3, TotalSame
<1>7. Total(g, S) \in Nat
  BY <1>1, <1>2, TotalBounds
<1> QED
  BY <1>2, <1>4, <1>5, <1>6, <1>7

\* Thread t when all its routines have been left.
LEMMA Unwound ==
  ASSUME Exact, NEW t \in Thread, t \in DOMAIN threads, NEW n \in Nat, n = Len(threads[t].stack), NEW sizes \in [1..n -> Size],
         NEW q, q = [td |-> threads[t], tuples |-> tuples]
  PROVE  LET r == ExitMany(t, q, n, sizes)
         IN  /\ Exiting(t, r) /\ FileOf(r.tuples) /\ r.td.stack = <<>>
             /\ AccountOf(r, Others(t)) = Times!LeaveMany(SumAccount(t), n, sizes)
             /\ Now(r.td) \in Nat /\ r.td.skipCost \in Nat
             /\ Now(r.td) <= Weights(threads)[t]
             /\ Counted(mode, extra) + Now(r.td) < ULongSpan
<1> DEFINE r == ExitMany(t, q, n, sizes)
           B == Others(t)
<1>1. q.td = threads[t] /\ q.tuples = tuples
  OBVIOUS
<1>2. ThreadOK(mode, threads[t]) /\ TuplesOK(mode, tuples, threads)
  BY DEF Exact, IInv
<1>3. Exiting(t, q) /\ IsFiniteSet(DOMAIN q.tuples)
  BY <1>1, <1>2 DEF Exiting, Exact, Finite
<1>4. n \in Nat /\ n <= Len(q.td.stack)
  <2>1. n \in Nat
    BY <1>2, ThreadFields DEF ThreadOK
  <2> QED
    BY <1>1, <2>1
<1>5. AccountOf(q, B) = SumAccount(t)
  BY <1>1, AccountNow DEF AccountOf, Exact
<1>6. /\ Exiting(t, r) /\ IsFiniteSet(DOMAIN r.tuples)
      /\ AccountOf(r, B) = Times!LeaveMany(AccountOf(q, B), n, sizes)
      /\ WeightOf(r.td) <= WeightOf(q.td)
      /\ Len(r.td.stack) = Len(q.td.stack) - n
  BY <1>3, <1>4, ExitsCost
<1> HIDE DEF r
<1>7. ThreadOK(mode, r.td) /\ TuplesOK(mode, r.tuples, threads)
  BY <1>6 DEF Exiting
<1>8. /\ r.td.stack \in Seq(Activation) /\ r.td.skipCost \in Nat /\ r.td.cost \in Nat
      /\ r.td.skipCost <= r.td.cost
  BY <1>7, ThreadFields DEF ThreadOK, ClockOK
<1>9. r.td.stack = <<>>
  <2>1. Len(r.td.stack) = 0
    BY <1>1, <1>4, <1>6
  <2> QED
    BY <1>8, <2>1
<1>10. Now(r.td) \in Nat /\ Now(r.td) <= r.td.cost
  <2> DEFINE a == r.td.cost
             b == r.td.skipCost
  <2>1. a \in Nat /\ b \in Nat /\ b <= a /\ Now(r.td) = a - b
    BY <1>8 DEF Now
  <2> HIDE DEF a, b
  <2>2. Now(r.td) \in Nat /\ Now(r.td) <= a
    BY <2>1
  <2> QED
    BY <2>2 DEF a
<1>11. /\ WeightOf(r.td) \in Nat /\ r.td.cost <= WeightOf(r.td)
  BY <1>7, WeightType
<1> DEFINE now == Now(r.td)
           c == r.td.cost
           x == WeightOf(r.td)
           y == Weights(threads)[t]
           s == Total(Weights(threads), DOMAIN threads)
           e == Counted(mode, extra)
<1>12. /\ e \in Nat /\ s \in Nat /\ e + s < ULongSpan /\ y = WeightOf(threads[t])
       /\ y \in Nat /\ y <= s
  BY BudgetBounds DEF Exact
<1>13. now \in Nat /\ now <= c /\ c \in Nat /\ c <= x /\ x \in Nat /\ x <= y
  BY <1>1, <1>6, <1>8, <1>10, <1>11, <1>12
<1>14. now <= y /\ e + now < ULongSpan
  <2>1. ULongSpan \in Nat
    BY BoundsAssumption
  <2> HIDE DEF now, c, x, y, s, e
  <2> QED
    BY <1>12, <1>13, <2>1
<1>15. FileOf(r.tuples)
  BY <1>6, <1>7 DEF FileOf, TuplesOK
<1> QED
  BY <1>5, <1>6, <1>8, <1>9, <1>10, <1>14, <1>15 DEF r

CostsAdd(cost, skip, now, skipped) ==
  ((cost + skip) % ULongSpan) + now < ULongSpan =>
    (((cost + ((now - skipped) % ULongSpan)) % ULongSpan) + (skip + skipped)) % ULongSpan
      = ((cost + skip) % ULongSpan) + now

LEMMA CostsAlwaysAdd ==
  \A cost, skip, now, skipped \in Nat : CostsAdd(cost, skip, now, skipped)
  BY PrintedCosts DEF CostsAdd

\* What thread_exit prints and adds up.
Prints(td, now, total, last, more, qs) ==
  /\ td.skipCost \in Nat /\ now = Now(td) /\ now \in Nat
  /\ Counted(mode, extra) + now < ULongSpan
  /\ total = IF mode = "single" THEN ExtraWith(td)
             ELSE [cost |-> CostOfThread(td), skipped |-> td.skipCost]
  /\ mode # "single" => last
  /\ more = IF mode = "single" THEN total ELSE extra
  /\ ~ last => qs = printed
  /\ last => /\ DOMAIN qs = 1..(Len(printed) + 1)
             /\ \A i \in 1..Len(printed) : qs[i] = printed[i]
             /\ qs[Len(printed) + 1].k = total.cost
             /\ qs[Len(printed) + 1].skipped = total.skipped

\* What the reports and the ended threads add up to after thread t has ended.
LEMMA ExitTime ==
  ASSUME Exact, NEW t \in Thread, t \in DOMAIN threads,
         NEW td, NEW now, NEW total, NEW last \in BOOLEAN, NEW more, NEW qs,
         Prints(td, now, total, last, more, qs)
  PROVE  /\ Ended(mode, qs, more) + PrintedTime(qs)
              = Ended(mode, printed, extra) + PrintedTime(printed) + now
         /\ Counted(mode, more) = Counted(mode, extra) + IF mode = "single" THEN now ELSE 0
         /\ Ended(mode, qs, more) \in Int /\ PrintedTime(qs) \in Int
<1> DEFINE x == (total.cost + total.skipped) % ULongSpan
           e == Counted(mode, extra)
<1>0. /\ td.skipCost \in Nat /\ now = Now(td) /\ now \in Nat
      /\ Counted(mode, extra) + now < ULongSpan
      /\ total = IF mode = "single" THEN ExtraWith(td)
                 ELSE [cost |-> CostOfThread(td), skipped |-> td.skipCost]
      /\ mode # "single" => last
      /\ more = IF mode = "single" THEN total ELSE extra
      /\ ~ last => qs = printed
      /\ last => /\ DOMAIN qs = 1..(Len(printed) + 1)
                 /\ \A i \in 1..Len(printed) : qs[i] = printed[i]
                 /\ qs[Len(printed) + 1].k = total.cost
                 /\ qs[Len(printed) + 1].skipped = total.skipped
  BY DEF Prints
<1> USE <1>0
<1>1. e \in Nat /\ ULongSpan \in Nat \ {0} /\ extra.cost \in Nat /\ extra.skipped \in Nat
  BY BudgetBounds, BoundsAssumption DEF Exact, IInv
<1>2. mode = "single" => printed = <<>> /\ Ended(mode, printed, extra) = e
  BY DEF Exact, LastPrints, Ended, Counted
<1>3. mode # "single" => Ended(mode, printed, extra) = 0 /\ e = 0
                         /\ \A ps : Ended(mode, ps, more) = 0
  BY DEF Ended, Counted
<1>4. x = e + now
  <2> DEFINE sc == td.skipCost
  <2>1. CASE mode = "single"
    <3> DEFINE cost == extra.cost
               skip == extra.skipped
    <3>1. e = (cost + skip) % ULongSpan
      BY <2>1 DEF Counted
    <3>2. x = (((cost + ((now - sc) % ULongSpan)) % ULongSpan) + (skip + sc)) % ULongSpan
      <4>1. total.cost = (cost + ((now - sc) % ULongSpan)) % ULongSpan /\ total.skipped = skip + sc
        BY <2>1 DEF ExtraWith, CostOfThread
      <4> QED
        BY <4>1
    <3>3. cost \in Nat /\ skip \in Nat /\ sc \in Nat
      BY <1>1
    <3> HIDE DEF cost, skip, sc, x
    <3>4. ((cost + skip) % ULongSpan) + now < ULongSpan
      BY <3>1
    <3>5. (((cost + ((now - sc) % ULongSpan)) % ULongSpan) + (skip + sc)) % ULongSpan
            = ((cost + skip) % ULongSpan) + now
      <4>1. CostsAdd(cost, skip, now, sc)
        BY <3>3, CostsAlwaysAdd
      <4> HIDE DEF e
      <4> QED
        BY <3>4, <4>1 DEF CostsAdd
    <3> HIDE DEF e
    <3> QED
      BY <3>1, <3>2, <3>5
  <2>2. CASE mode # "single"
    <3>1. total.cost = (now - sc) % ULongSpan /\ total.skipped = sc
      BY <2>2 DEF CostOfThread
    <3>2. sc \in Nat /\ now < ULongSpan
      BY <1>1, <1>3, <2>2
    <3>3. (((now - sc) % ULongSpan) + sc) % ULongSpan = now
      <4> HIDE DEF sc
      <4> QED
        BY <3>2, PrintedCost
    <3>4. x = (((now - sc) % ULongSpan) + sc) % ULongSpan
      BY <3>1
    <3>5. e = 0
      BY <1>3, <2>2
    <3> HIDE DEF x, e, sc
    <3> QED
      BY <3>2, <3>3, <3>4, <3>5
  <2> QED
    BY <2>1, <2>2
<1> HIDE DEF x, e
<1>5. Counted(mode, more) = e + IF mode = "single" THEN now ELSE 0
  <2>1. mode = "single" => Counted(mode, more) = x
    BY DEF Counted, x
  <2>2. mode # "single" => Counted(mode, more) = 0
    BY DEF Counted
  <2> QED
    BY <1>1, <1>3, <1>4, <2>1, <2>2
<1>6. PrintedTime(printed) \in Nat
  BY PrintedSums DEF Exact
<1>7. CASE ~ last
  <2>1. mode = "single" /\ qs = <<>> /\ printed = <<>>
    BY <1>2, <1>7
  <2>2. Ended(mode, qs, more) = x
    BY <2>1 DEF Ended, x
  <2> QED
    BY <1>1, <1>2, <1>4, <1>5, <1>6, <2>1, <2>2 DEF e
<1>8. CASE last
  <2> DEFINE n == Len(printed)
  <2>1. n \in Nat /\ DOMAIN printed = 1..n /\ DOMAIN qs = 1..(n + 1)
        /\ (\A i \in 1..n : qs[i] = printed[i]) /\ (\A i \in 1..n : TimesIn(printed)[i] \in Nat)
    <3>1. printed \in Seq(Report) /\ \A i \in 1..n : ReportOK(mode, printed[i])
      BY DEF Exact, IInv
    <3>2. n \in Nat /\ DOMAIN printed = 1..n /\ \A i \in 1..n : TimesIn(printed)[i] \in Nat
      BY <3>1, ReportsType
    <3> QED
      BY <1>8, <3>2
  <2>2. x = (qs[n + 1].k + qs[n + 1].skipped) % ULongSpan /\ x \in Nat
    BY <1>1, <1>4, <1>8 DEF x
  <2>3. PrintedTime(qs) = PrintedTime(printed) + x
    BY <2>1, <2>2, PrintedTimeMore, ZenonT(30)
  <2>4. qs # <<>>
    <3>1. n + 1 \in DOMAIN qs
      BY <2>1
    <3> HIDE DEF n
    <3> QED
      BY <3>1
  <2>5. Ended(mode, qs, more) = 0
    BY <2>4 DEF Ended
  <2> QED
    <3> DEFINE a == Ended(mode, printed, extra)
               p == PrintedTime(printed)
               p2 == PrintedTime(qs)
               d == Ended(mode, qs, more)
    <3>1. a = e
      BY <1>2, <1>3
    <3>2. p \in Nat /\ p2 = p + (e + now) /\ d = 0 /\ e \in Nat /\ now \in Nat
      BY <1>1, <1>4, <1>6, <2>3, <2>5
    <3> HIDE DEF a, p, p2, d, e
    <3>3. d + p2 = a + p + now /\ d \in Int /\ p2 \in Int
      BY <3>1, <3>2
    <3> QED
      BY <1>5, <3>3 DEF a, p, p2, d, e
<1> QED
  BY <1>7, <1>8

\* Whether the tuples of an owner are printed or wait for another thread's, they add up to
\* the same.
LEMMA FilesMove ==
  ASSUME NEW ts, FileOf(ts), NEW owner, NEW us, NEW ps, NEW qs,
         IsFiniteSet(TuplesIn(ps)), PrintedType(ps), NEW last \in BOOLEAN,
         last => Printing(ts, owner, us, ps, qs),
         ~ last => us = Without(ts, {}) /\ qs = ps,
         NEW f, NEW field \in {"sumSelf", "real"}
  PROVE  /\ IsFiniteSet(TuplesIn(qs)) /\ IsFiniteSet(DOMAIN us)
         /\ FiledSum(us, f, field) + PrintedSum(qs, f, field)
              = FiledSum(ts, f, field) + PrintedSum(ps, f, field)
<1>1. CASE last
  <2>1. Printing(ts, owner, us, ps, qs)
    BY <1>1
  <2> QED
    BY <2>1, PrintedMore
<1>2. CASE ~ last
  <2>1. us = [x \in DOMAIN ts |-> ts[x]] /\ qs = ps
    BY <1>2 DEF Without
  <2>2. DOMAIN us = DOMAIN ts /\ \A k \in DOMAIN ts : us[k] = ts[k]
    BY <2>1
  <2>3. KeysOf(us, f) = KeysOf(ts, f)
    BY <2>2 DEF KeysOf
  <2>4. FieldOf(us, field) = FieldOf(ts, field)
    BY <2>2 DEF FieldOf
  <2>5. FiledSum(us, f, field) = FiledSum(ts, f, field)
    BY <2>3, <2>4 DEF FiledSum
  <2> QED
    BY <2>1, <2>2, <2>5 DEF FileOf
<1> QED
  BY <1>1, <1>2

\* What a thread leaves behind that has unwound its stack.
Exited(t, r, now, last) ==
  /\ t \in DOMAIN threads /\ FileOf(r.tuples) /\ r.td.stack = <<>> /\ now = Now(r.td)
  /\ now \in Nat /\ now <= Weights(threads)[t]
  /\ mode # "single" => last
  /\ last => mode # "single" \/ DOMAIN threads = {t}
  /\ DOMAIN threads' = DOMAIN threads \ {t}
  /\ \A u \in DOMAIN threads' : threads'[u] = threads[u]
  /\ mode' = mode /\ blocks' = blocks
  /\ last => Printing(r.tuples, Owner(t), tuples', printed, printed')
  /\ ~ last => tuples' = Without(r.tuples, {}) /\ printed' = printed
  /\ Ended(mode, printed', extra') + PrintedTime(printed')
       = Ended(mode, printed, extra) + PrintedTime(printed) + now
  /\ Counted(mode, extra') = Counted(mode, extra) + IF mode = "single" THEN now ELSE 0
  /\ Ended(mode, printed', extra') \in Int /\ PrintedTime(printed') \in Int

LEMMA ExitFiles ==
  ASSUME IInv, Finite, NEW t, NEW r, NEW now, NEW last \in BOOLEAN, Exited(t, r, now, last),
         NEW f, NEW field \in {"sumSelf", "real"}
  PROVE  /\ Finite'
         /\ FiledSum(tuples', f, field) + PrintedSum(printed', f, field)
              = FiledSum(r.tuples, f, field) + PrintedSum(printed, f, field)
<1> DEFINE ts == r.tuples
           us == tuples'
           ps == printed
           qs == printed'
<1>1. PrintedType(ps) /\ IsFiniteSet(TuplesIn(ps))
  BY ReportsType DEF IInv, Finite
<1>2. FileOf(ts) /\ (last => Printing(ts, Owner(t), us, ps, qs))
      /\ (~ last => us = Without(ts, {}) /\ qs = ps)
  BY DEF Exited
<1> HIDE DEF ts, us, ps, qs
<1>3. /\ IsFiniteSet(TuplesIn(qs)) /\ IsFiniteSet(DOMAIN us)
      /\ FiledSum(us, f, field) + PrintedSum(qs, f, field)
           = FiledSum(ts, f, field) + PrintedSum(ps, f, field)
  BY <1>1, <1>2, FilesMove
<1>4. IsFiniteSet(DOMAIN threads')
  <2>1. DOMAIN threads' \subseteq DOMAIN threads /\ IsFiniteSet(DOMAIN threads)
    BY DEF Exited, Finite
  <2> QED
    BY <2>1, FS_Subset
<1>5. Finite'
  BY <1>3, <1>4 DEF Finite, us, qs
<1> QED
  BY <1>3, <1>5 DEF ts, us, ps, qs

LEMMA ExitBudget ==
  ASSUME Exact, NEW t, NEW r, NEW now, NEW last \in BOOLEAN, Exited(t, r, now, last)
  PROVE  Budget'
<1> DEFINE D == DOMAIN threads
           R == D \ {t}
           w == Weights(threads)
           v == Weights(threads')
           e == Counted(mode, extra)
           e2 == Counted(mode, extra')
           b == blocks * (1 + Square)
<1>1. IsFiniteSet(D) /\ t \in D /\ R \in SUBSET D
  BY DEF Exact, Finite, Exited
<1>2. e \in Nat /\ e + Total(w, D) <= b /\ \A u \in D : w[u] \in Nat
  BY BudgetBounds DEF Exact, Budget
<1>3. DOMAIN threads' = R /\ (\A u \in R : v[u] = w[u])
  BY DEF Exited, Weights
<1>4. Total(v, R) = Total(w, R)
  <2>1. Agree(v, w, R)
    BY <1>3 DEF Agree
  <2>2. IsFiniteSet(R)
    BY <1>1, FS_Subset
  <2> HIDE DEF v, w, R
  <2> QED
    BY <2>1, <2>2, TotalSame
<1>5. Total(w, D) = w[t] + Total(w, R) /\ Total(w, R) \in Int
  <2>1. Integral(w, D)
    BY <1>2 DEF Integral
  <2> HIDE DEF w, D
  <2> QED
    BY <1>1, <2>1, TotalSteps
<1>6. w[t] \in Nat /\ e2 <= e + w[t] /\ e2 \in Int
  <2>1. e2 = e + (IF mode = "single" THEN now ELSE 0) /\ now \in Nat /\ now <= w[t]
    BY DEF Exited
  <2>2. w[t] \in Nat
    BY <1>1, <1>2
  <2> HIDE DEF e, e2, w
  <2> QED
    BY <1>2, <2>1, <2>2
<1>7. Budget' <=> e2 + Total(v, R) <= b
  <2>1. mode' = mode /\ blocks' = blocks
    BY DEF Exited
  <2> QED
    BY <1>3, <2>1 DEF Budget
<1>8. b \in Int
  <2>1. blocks \in Nat /\ Square \in Nat
    BY SquaresBound DEF Exact, IInv
  <2> QED
    BY <2>1, ProductGrows
<1> DEFINE x == Total(w, D)
           y == Total(w, R)
           z == w[t]
<1>9. e + x <= b /\ x = z + y /\ y \in Int /\ z \in Nat /\ e2 <= e + z /\ Total(v, R) = y
  BY <1>2, <1>4, <1>5, <1>6
<1> HIDE DEF e, e2, b, w, v, x, y, z
<1>10. e2 + y <= b
  BY <1>2, <1>6, <1>8, <1>9
<1> QED
  BY <1>7, <1>9, <1>10

LEMMA ExitSums ==
  ASSUME IInv, Finite, NEW t, NEW r, NEW now, NEW last \in BOOLEAN, Exited(t, r, now, last)
  PROVE  /\ SelfSum' = AccountOf(r, Others(t)).self
         /\ RealSum' = AccountOf(r, Others(t)).real
         /\ SpentSum' = AccountOf(r, Others(t)).spent
         /\ StackMap' = [StackMap EXCEPT ![t] = <<>>]
<1> DEFINE R == DOMAIN threads \ {t}
           ths == threads
           ths2 == threads'
           ts == r.tuples
           us == tuples'
           ps == printed
           qs == printed'
           B == Others(t)
<1>1. /\ Clocked(ths) /\ IsFiniteSet(DOMAIN ths) /\ R \in SUBSET DOMAIN ths
      /\ DOMAIN ths2 = R /\ R \subseteq DOMAIN ths2 /\ (\A u \in R : ths2[u] = ths[u])
  BY ThreadsClocked DEF Finite, Exited
<1>2. \A f : /\ Total(SelfAt(ths2, f), R) = Total(SelfAt(ths, f), R)
             /\ Total(RealAt(ths2, f), R) = Total(RealAt(ths, f), R)
             /\ Total(ReadingAt(ths2), R) = Total(ReadingAt(ths), R)
             /\ Total(SelfAt(ths, f), R) \in Int /\ Total(RealAt(ths, f), R) \in Int
             /\ Total(ReadingAt(ths), R) \in Int
  <2> HIDE DEF R, ths, ths2
  <2> QED
    BY <1>1, SameOthers
<1>3. \A f : \A field \in {"sumSelf", "real"} :
        FiledSum(us, f, field) + PrintedSum(qs, f, field)
          = FiledSum(ts, f, field) + PrintedSum(ps, f, field)
  BY ExitFiles
<1>4. \A f : /\ FiledSum(ts, f, "sumSelf") \in Int /\ FiledSum(ts, f, "real") \in Int
             /\ PrintedSum(ps, f, "sumSelf") \in Int /\ PrintedSum(ps, f, "real") \in Int
  <2>1. FileOf(ts)
    BY DEF Exited
  <2>2. \A f : FiledSum(ts, f, "sumSelf") \in Int /\ FiledSum(ts, f, "real") \in Int
    <3> HIDE DEF ts
    <3> QED
      BY <2>1, FiledType
  <2>3. \A f : PrintedSum(ps, f, "sumSelf") \in Int /\ PrintedSum(ps, f, "real") \in Int
    BY PrintedSums
  <2> QED
    BY <2>2, <2>3
<1>5. /\ now \in Nat /\ r.td.stack = <<>> /\ now = Now(r.td)
      /\ \A f : SelfOf(<<>>, now, f) = 0 /\ RealOf(<<>>, now, f) = 0
      /\ Routines(<<>>) = <<>> /\ Reading(<<>>, now) = now
  BY EmptyStack DEF Exited
<1>6. /\ \A f \in Measured : B.self[f] = PrintedSum(ps, f, "sumSelf") + Total(SelfAt(ths, f), R)
      /\ \A f \in Measured : B.real[f] = PrintedSum(ps, f, "real") + Total(RealAt(ths, f), R)
      /\ B.spent = Total(ReadingAt(ths), R) + Ended(mode, ps, extra) + PrintedTime(ps)
  BY DEF Others, OthersIn
<1> HIDE DEF B
<1>7. AccountOf(r, B) = Account(<<>>, now, ts, B)
  BY <1>5 DEF AccountOf
<1>8. /\ AccountOf(r, B).self = [f \in Measured |-> B.self[f] + FiledSum(ts, f, "sumSelf")
                                                     + SelfOf(<<>>, now, f)]
      /\ AccountOf(r, B).real = [f \in Measured |-> B.real[f] + FiledSum(ts, f, "real")
                                                     + RealOf(<<>>, now, f)]
      /\ AccountOf(r, B).spent = B.spent + Reading(<<>>, now)
  BY <1>7 DEF Account
<1>9. /\ SelfSum' = [f \in Measured |-> FiledSum(us, f, "sumSelf") + PrintedSum(qs, f, "sumSelf")
                                          + Total(SelfAt(ths2, f), R)]
      /\ RealSum' = [f \in Measured |-> FiledSum(us, f, "real") + PrintedSum(qs, f, "real")
                                          + Total(RealAt(ths2, f), R)]
      /\ SpentSum' = Total(ReadingAt(ths2), R) + Ended(mode, qs, extra') + PrintedTime(qs)
  <2>1. mode' = mode /\ DOMAIN threads' = R
    BY <1>1 DEF Exited
  <2> HIDE DEF R
  <2> QED
    BY <2>1 DEF SelfSum, RealSum, SpentSum
<1> DEFINE e == Ended(mode, ps, extra)
           p == PrintedTime(ps)
           e2 == Ended(mode, qs, extra')
           p2 == PrintedTime(qs)
<1>10. e2 + p2 = e + p + now /\ e \in Int /\ p \in Int /\ e2 \in Int /\ p2 \in Int
  <2>1. e \in Int /\ p \in Int
    BY ThreadsClocked, PrintedSums
  <2> QED
    BY <2>1 DEF Exited
<1>11. StackMap' = [StackMap EXCEPT ![t] = <<>>]
  <2>1. DOMAIN threads' = DOMAIN threads \ {t} /\ t \in DOMAIN threads
        /\ \A u \in DOMAIN threads' : threads'[u] = threads[u]
    BY DEF Exited
  <2> QED
    BY <2>1 DEF StackMap
<1> HIDE DEF R, ths, ths2, ts, us, ps, qs, e, p, e2, p2
<1>12. \A f \in Measured :
         /\ FiledSum(us, f, "sumSelf") + PrintedSum(qs, f, "sumSelf") + Total(SelfAt(ths2, f), R)
              = B.self[f] + FiledSum(ts, f, "sumSelf") + SelfOf(<<>>, now, f)
         /\ FiledSum(us, f, "real") + PrintedSum(qs, f, "real") + Total(RealAt(ths2, f), R)
              = B.real[f] + FiledSum(ts, f, "real") + RealOf(<<>>, now, f)
  <2> SUFFICES ASSUME NEW f \in Measured
               PROVE  /\ FiledSum(us, f, "sumSelf") + PrintedSum(qs, f, "sumSelf")
                           + Total(SelfAt(ths2, f), R)
                           = B.self[f] + FiledSum(ts, f, "sumSelf") + SelfOf(<<>>, now, f)
                      /\ FiledSum(us, f, "real") + PrintedSum(qs, f, "real")
                           + Total(RealAt(ths2, f), R)
                           = B.real[f] + FiledSum(ts, f, "real") + RealOf(<<>>, now, f)
    OBVIOUS
  <2> DEFINE a == FiledSum(us, f, "sumSelf") + PrintedSum(qs, f, "sumSelf")
             b == FiledSum(ts, f, "sumSelf")
             c == PrintedSum(ps, f, "sumSelf")
             d == Total(SelfAt(ths, f), R)
             g == FiledSum(us, f, "real") + PrintedSum(qs, f, "real")
             h == FiledSum(ts, f, "real")
             i == PrintedSum(ps, f, "real")
             j == Total(RealAt(ths, f), R)
  <2>1. a = b + c /\ b \in Int /\ c \in Int /\ d \in Int /\ Total(SelfAt(ths2, f), R) = d
        /\ g = h + i /\ h \in Int /\ i \in Int /\ j \in Int /\ Total(RealAt(ths2, f), R) = j
    BY <1>2, <1>3, <1>4
  <2>2. B.self[f] = c + d /\ B.real[f] = i + j
    BY <1>6
  <2>3. SelfOf(<<>>, now, f) = 0 /\ RealOf(<<>>, now, f) = 0
    BY <1>5
  <2> HIDE DEF a, b, c, d, g, h, i, j
  <2>4. a + d = B.self[f] + b + SelfOf(<<>>, now, f) /\ g + j = B.real[f] + h + RealOf(<<>>, now, f)
    BY <2>1, <2>2, <2>3
  <2> QED
    BY <2>1, <2>4 DEF a, b, g, h
<1>13. SpentSum' = B.spent + Reading(<<>>, now)
  <2> DEFINE d == Total(ReadingAt(ths), R)
  <2>1. d \in Int /\ Total(ReadingAt(ths2), R) = d
    BY <1>2
  <2>2. SpentSum' = d + e2 + p2
    BY <1>9, <2>1 DEF e2, p2
  <2>3. B.spent = d + e + p
    BY <1>6 DEF e, p
  <2>4. Reading(<<>>, now) = now /\ now \in Nat
    BY <1>5
  <2> HIDE DEF d
  <2>5. d + e2 + p2 = (d + e + p) + now
    BY <1>10, <2>1, <2>4
  <2> QED
    BY <2>2, <2>3, <2>4, <2>5
<1>14. SelfSum' = AccountOf(r, B).self /\ RealSum' = AccountOf(r, B).real
       /\ SpentSum' = AccountOf(r, B).spent
  <2> DEFINE a == AccountOf(r, B)
  <2> HIDE DEF a
  <2>1. a = AccountOf(r, B)
    BY DEF a
  <2> QED
    BY <1>8, <1>9, <1>12, <1>13
<1> QED
  BY <1>11, <1>14 DEF B

LEMMA ExitEffects ==
  ASSUME Exact, NEW t \in Thread, NEW n \in Nat, NEW sizes \in [1..n -> Size],
         ThreadExit(t, n, sizes),
         NEW r, r = ExitMany(t, [td |-> threads[t], tuples |-> tuples], n, sizes)
  PROVE  /\ \E last \in BOOLEAN :
              /\ Exited(t, r, Now(r.td), last)
              /\ mode = "single" /\ printed' # <<>> => DOMAIN threads' = {}
         /\ AccountOf(r, Others(t)) = Times!LeaveMany(SumAccount(t), n, sizes)
<1>a. PICK last \in BOOLEAN : last <=> (mode # "single" \/ Alive = {t})
  OBVIOUS
<1> DEFINE q == [td |-> threads[t], tuples |-> tuples]
           td == r.td
           now == Now(td)
           total == IF mode = "single" THEN ExtraWith(td)
                    ELSE [cost |-> CostOfThread(td), skipped |-> td.skipCost]
           mine == {k \in DOMAIN r.tuples : last /\ k.owner = Owner(t)}
           report == [k |-> total.cost, skipped |-> total.skipped,
                      tuples |-> OwnedBy(r.tuples, Owner(t)), tree |-> td.tree]
           more == IF mode = "single" THEN total ELSE extra
           qs == printed'
<1>1. t \in DOMAIN threads /\ Alive = DOMAIN threads /\ n = Len(threads[t].stack)
  BY DEF ThreadExit, Alive
<1>2. /\ threads' = Without(threads, {t})
      /\ tuples' = Without(r.tuples, mine)
      /\ extra' = more
      /\ qs = IF ~last THEN printed ELSE Append(printed, report)
      /\ mode' = mode /\ blocks' = blocks
  BY <1>a DEF ThreadExit
<1>3. /\ Exiting(t, r) /\ FileOf(r.tuples) /\ td.stack = <<>>
      /\ AccountOf(r, Others(t)) = Times!LeaveMany(SumAccount(t), n, sizes)
      /\ now \in Nat /\ td.skipCost \in Nat
      /\ now <= Weights(threads)[t]
      /\ Counted(mode, extra) + now < ULongSpan
  <2>1. r = ExitMany(t, q, n, sizes)
    OBVIOUS
  <2>2. \A p : p = q =>
          LET s == ExitMany(t, p, n, sizes)
          IN  /\ Exiting(t, s) /\ FileOf(s.tuples) /\ s.td.stack = <<>>
              /\ AccountOf(s, Others(t)) = Times!LeaveMany(SumAccount(t), n, sizes)
              /\ Now(s.td) \in Nat /\ s.td.skipCost \in Nat
              /\ Now(s.td) <= Weights(threads)[t]
              /\ Counted(mode, extra) + Now(s.td) < ULongSpan
    <3> SUFFICES ASSUME NEW p, p = q
                 PROVE  LET s == ExitMany(t, p, n, sizes)
                        IN  /\ Exiting(t, s) /\ FileOf(s.tuples) /\ s.td.stack = <<>>
                            /\ AccountOf(s, Others(t)) = Times!LeaveMany(SumAccount(t), n, sizes)
                            /\ Now(s.td) \in Nat /\ s.td.skipCost \in Nat
                            /\ Now(s.td) <= Weights(threads)[t]
                            /\ Counted(mode, extra) + Now(s.td) < ULongSpan
      OBVIOUS
    <3> QED
      BY <1>1, Unwound
  <2> HIDE DEF q
  <2> QED
    BY <2>1, <2>2
<1>4. /\ DOMAIN threads' = DOMAIN threads \ {t}
      /\ \A u \in DOMAIN threads' : threads'[u] = threads[u]
  BY <1>2 DEF Without
<1> HIDE DEF td, now
<1>5. Len(printed) \in Nat /\ DOMAIN printed = 1..Len(printed) /\ printed \in Seq(Report)
  BY DEF Exact, IInv
<1>6. last => /\ DOMAIN qs = 1..(Len(printed) + 1)
              /\ (\A i \in 1..Len(printed) : qs[i] = printed[i])
              /\ qs[Len(printed) + 1] = report
  <2> HIDE DEF report
  <2>1. Len(printed) \in Nat /\ DOMAIN printed = 1..Len(printed) /\ printed \in Seq(Report)
    BY <1>5
  <2>2. ASSUME NEW ps \in Seq(Report), NEW x
        PROVE  /\ DOMAIN Append(ps, x) = 1..(Len(ps) + 1)
               /\ (\A i \in 1..Len(ps) : Append(ps, x)[i] = ps[i])
               /\ Append(ps, x)[Len(ps) + 1] = x
    OBVIOUS
  <2> QED
    BY <1>2, <2>1, <2>2
<1>7. last => /\ qs[Len(printed) + 1].k = total.cost
              /\ qs[Len(printed) + 1].skipped = total.skipped
              /\ qs[Len(printed) + 1].tuples = OwnedBy(r.tuples, Owner(t))
  BY <1>6
<1>8. mine = IF last THEN OwnedIn(r.tuples, Owner(t)) ELSE {}
  BY DEF OwnedIn
<1>9. last \in BOOLEAN /\ (mode # "single" => last) /\ (last => mode # "single" \/ Alive = {t})
  BY <1>a
<1>10. ~ last => qs = printed
  BY <1>2
<1> HIDE DEF mine, report
<1>11. /\ Ended(mode, qs, more) + PrintedTime(qs)
            = Ended(mode, printed, extra) + PrintedTime(printed) + now
       /\ Counted(mode, more) = Counted(mode, extra) + IF mode = "single" THEN now ELSE 0
       /\ Ended(mode, qs, more) \in Int /\ PrintedTime(qs) \in Int
  <2>1. td.skipCost \in Nat /\ now = Now(td)
    BY <1>3 DEF now
  <2>2. total = IF mode = "single" THEN ExtraWith(td)
                ELSE [cost |-> CostOfThread(td), skipped |-> td.skipCost]
    OBVIOUS
  <2>3. more = IF mode = "single" THEN total ELSE extra
    OBVIOUS
  <2> HIDE DEF total, more, qs
  <2>4. Prints(td, now, total, last, more, qs)
    BY <1>3, <1>6, <1>7, <1>9, <1>10, <2>1, <2>2, <2>3 DEF Prints
  <2> QED
    BY <1>1, <2>4, ExitTime
<1> HIDE DEF total, more
<1>12. last => Printing(r.tuples, Owner(t), tuples', printed, qs)
  BY <1>2, <1>5, <1>6, <1>7, <1>8 DEF Printing
<1>13. ~ last => tuples' = Without(r.tuples, {}) /\ qs = printed
  BY <1>2, <1>8
<1>14. Exited(t, r, now, last)
  <2>1. r.td.stack = <<>> /\ now = Now(r.td)
    BY <1>3 DEF td, now
  <2>2. last => mode # "single" \/ DOMAIN threads = {t}
    BY <1>1, <1>9
  <2>3. mode # "single" => last
    BY <1>9
  <2>4. /\ Ended(mode, printed', extra') + PrintedTime(printed')
             = Ended(mode, printed, extra) + PrintedTime(printed) + now
        /\ Counted(mode, extra') = Counted(mode, extra) + IF mode = "single" THEN now ELSE 0
        /\ Ended(mode, printed', extra') \in Int /\ PrintedTime(printed') \in Int
    BY <1>2, <1>11
  <2> QED
    BY <1>1, <1>2, <1>3, <1>4, <1>12, <1>13, <2>1, <2>2, <2>3, <2>4 DEF Exited
<1>15. ASSUME mode = "single", printed' # <<>>
       PROVE  DOMAIN threads' = {}
  <2>1. CASE last
    BY <1>1, <1>4, <1>9, <1>15, <2>1
  <2>2. CASE ~ last
    BY <1>1, <1>13, <1>15, <2>2 DEF Exact, LastPrints
  <2> QED
    BY <2>1, <2>2
<1> QED
  BY <1>3, <1>9, <1>14, <1>15 DEF now, td

LEMMA ThreadExitIs ==
  ASSUME Exact, NEW t \in Thread, NEW n \in Nat, NEW sizes \in [1..n -> Size],
         ThreadExit(t, n, sizes)
  PROVE  Exact' /\ Times!End(t)
<1> DEFINE r == ExitMany(t, [td |-> threads[t], tuples |-> tuples], n, sizes)
           a == AccountOf(r, Others(t))
<1>1. IInv' /\ t \in DOMAIN threads /\ n = Len(threads[t].stack)
  BY ThreadExitKeeps DEF Exact, ThreadExit, Alive
<1>2. /\ \E last \in BOOLEAN :
           /\ Exited(t, r, Now(r.td), last)
           /\ mode = "single" /\ printed' # <<>> => DOMAIN threads' = {}
      /\ a = Times!LeaveMany(SumAccount(t), n, sizes)
  BY ExitEffects
<1> HIDE DEF r
<1>3. PICK last \in BOOLEAN :
        /\ Exited(t, r, Now(r.td), last)
        /\ mode = "single" /\ printed' # <<>> => DOMAIN threads' = {}
  BY <1>2
<1> DEFINE now == Now(r.td)
<1> HIDE DEF now
<1>4. Exited(t, r, now, last) /\ mode' = mode
  BY <1>3 DEF Exited, now
<1>5. Finite'
  BY <1>4, ExitFiles DEF Exact
<1>6. Budget'
  BY <1>4, ExitBudget
<1>7. LastPrints'
  BY <1>3, <1>4 DEF LastPrints
<1>8. Exact'
  BY <1>1, <1>5, <1>6, <1>7 DEF Exact
<1>9. /\ SelfSum' = a.self /\ RealSum' = a.real /\ SpentSum' = a.spent
      /\ StackMap' = [StackMap EXCEPT ![t] = <<>>]
  BY <1>4, ExitSums DEF Exact
<1>10. /\ SelfSoFar' = SelfSum' /\ RealSoFar' = RealSum' /\ SpentSoFar' = SpentSum'
       /\ Stacks' = StackMap'
  BY <1>8, SumsNext DEF Exact
<1>11. Times!Accounts(t) = SumAccount(t) /\ Stacks = StackMap
  BY AccountsAre
<1>12. n = Len(Stacks[t])
  BY <1>1, StackIs
<1>13. a = Times!LeaveMany(Times!Accounts(t), n, sizes)
  BY <1>2, <1>11
<1> HIDE DEF a
<1>14. Times!Cost(a)
  BY <1>9, <1>10 DEF Times!Cost
<1>15. Stacks' = [Stacks EXCEPT ![t] = <<>>]
  BY <1>9, <1>10, <1>11
<1>16. \E k \in [1..n -> Size] : Times!Cost(Times!LeaveMany(Times!Accounts(t), n, k))
  BY <1>13, <1>14
<1> QED
  BY <1>8, <1>12, <1>15, <1>16 DEF Times!End

-----------------------------------------------------------------------------
(* Costs implement times.                                                   *)

\* In the beginning nothing is counted.
LEMMA NoneOnStacks == Init => Exact /\ Times!Init
<1> SUFFICES ASSUME Init PROVE Exact /\ Times!Init
  OBVIOUS
<1>1. /\ threads = <<>> /\ tuples = <<>> /\ printed = <<>> /\ blocks = 0
      /\ extra.cost = 0 /\ extra.skipped = 0
      /\ DOMAIN threads = {} /\ DOMAIN tuples = {} /\ DOMAIN printed = {}
  BY DEF Init
<1>2. IInv
  BY Initially
<1>3. TuplesIn(printed) = {}
  BY <1>1 DEF TuplesIn
<1>4. Finite
  BY <1>1, <1>3, FS_EmptySet DEF Finite
<1>5. LastPrints
  BY <1>1 DEF LastPrints
<1>6. \A f : Total(f, {}) = 0
  <2> SUFFICES ASSUME NEW f PROVE Total(f, {}) = 0
    OBVIOUS
  <2>1. IsFiniteSet({}) /\ Integral(f, {})
    BY FS_EmptySet DEF Integral
  <2> QED
    BY <2>1, TotalSteps
<1>7. ULongSpan \in Nat \ {0} /\ (0 + 0) % ULongSpan = 0
  <2>1. ULongSpan \in Nat \ {0} /\ 0 \in 0..(ULongSpan - 1)
    BY BoundsAssumption
  <2>2. 0 % ULongSpan = 0
    BY <2>1, ModuloSmall
  <2> QED
    BY <2>1, <2>2
<1>8. Counted(mode, extra) = 0 /\ Ended(mode, printed, extra) = 0
  BY <1>1, <1>7 DEF Counted, Ended
<1>9. Budget
  <2>1. Total(Weights(threads), DOMAIN threads) = 0
    BY <1>1, <1>6
  <2>2. blocks * (1 + Square) \in Nat
    <3>1. Square \in Nat
      BY SquaresBound
    <3>2. blocks = 0
      BY <1>1
    <3> QED
      BY <3>1, <3>2
  <2> QED
    BY <1>8, <2>1, <2>2 DEF Budget
<1>10. Exact
  BY <1>2, <1>4, <1>5, <1>9 DEF Exact
<1>11. \A f : \A field : FiledSum(tuples, f, field) = 0 /\ PrintedSum(printed, f, field) = 0
  <2>1. \A f : KeysOf(tuples, f) = {} /\ PrintedOf(printed, f) = {}
    BY <1>1, <1>3 DEF KeysOf, PrintedOf
  <2> QED
    BY <1>6, <2>1 DEF FiledSum, PrintedSum
<1>12. /\ \A f : Total(SelfAt(threads, f), DOMAIN threads) = 0
                 /\ Total(RealAt(threads, f), DOMAIN threads) = 0
       /\ Total(ReadingAt(threads), DOMAIN threads) = 0
       /\ PrintedTime(printed) = 0
  BY <1>1, <1>6 DEF PrintedTime
<1>13. /\ SelfSum = [f \in Measured |-> 0] /\ RealSum = [f \in Measured |-> 0]
  BY <1>11, <1>12 DEF SelfSum, RealSum
<1>14. SpentSum = 0
  BY <1>8, <1>12 DEF SpentSum
<1>15. StackMap = [t \in Thread |-> <<>>]
  BY <1>1 DEF StackMap
<1>16. /\ SelfSoFar = SelfSum /\ RealSoFar = RealSum
       /\ SpentSoFar = SpentSum /\ Stacks = StackMap
  BY <1>2, <1>4, SumsNow
<1> QED
  BY <1>10, <1>13, <1>14, <1>15, <1>16 DEF Times!Init, Times!Measured, Measured

\* Every step is a step of RoutineTimes or changes none of its variables.
LEMMA StepIs == Exact /\ [Next]_vars => Exact' /\ [Times!Next]_Times!vars
<1>1. ASSUME Exact, Next
      PROVE  Exact' /\ [Times!Next]_Times!vars
  <2>1. PICK t \in Thread :
          \/ Start(t)
          \/ \E f \in Fn : Call(t, f) \/ \E size \in Size : CallResolved(t, f, size)
          \/ \E n \in 0..MaxDepth : \E sizes \in [1..n -> Size] :
               Continue(t, n, sizes) \/ ThreadExit(t, n, sizes)
    BY <1>1 DEF Next
  <2>2. CASE Start(t)
    <3>1. Exact' /\ UNCHANGED <<Stacks, SelfSoFar, RealSoFar, SpentSoFar>>
      BY <1>1, <2>2, StartIs
    <3> QED
      BY <3>1 DEF Times!vars
  <2>3. ASSUME NEW f \in Fn, Call(t, f)
        PROVE  Exact' /\ Times!Block(t)
    BY <1>1, <2>3, CallIs
  <2>4. ASSUME NEW n \in 0..MaxDepth, NEW sizes \in [1..n -> Size], Continue(t, n, sizes)
        PROVE  Exact' /\ Times!Block(t)
    BY <1>1, <2>4, ContinueIs
  <2>5. ASSUME NEW size \in Size, NEW f \in Fn, CallResolved(t, f, size)
        PROVE  Exact' /\ Times!Block(t)
    BY <1>1, <2>5, CallResolvedIs
  <2>6. ASSUME NEW n \in 0..MaxDepth, NEW sizes \in [1..n -> Size], ThreadExit(t, n, sizes)
        PROVE  Exact' /\ Times!End(t)
    <3>1. n \in Nat
      BY BoundsAssumption
    <3> QED
      BY <1>1, <2>6, <3>1, ThreadExitIs
  <2>7. Times!Block(t) \/ Times!End(t) => Times!Next
    BY DEF Times!Next
  <2> QED
    BY <2>1, <2>2, <2>3, <2>4, <2>5, <2>6, <2>7
<1>2. ASSUME Exact, UNCHANGED vars
      PROVE  Exact' /\ UNCHANGED Times!vars
  <2>1. /\ mode' = mode /\ blocks' = blocks /\ threads' = threads /\ tuples' = tuples
        /\ extra' = extra /\ printed' = printed
    BY <1>2 DEF vars
  <2>2. IInv'
    BY <1>2, <2>1, NextKeeps DEF Exact, vars
  <2>3. Exact'
    BY <1>2, <2>1, <2>2 DEF Exact, Finite, LastPrints, Budget
  <2>4. SelfSum' = SelfSum /\ RealSum' = RealSum /\ SpentSum' = SpentSum /\ StackMap' = StackMap
    BY <2>1 DEF SelfSum, RealSum, SpentSum, StackMap
  <2>5. /\ SelfSoFar = SelfSum /\ RealSoFar = RealSum
        /\ SpentSoFar = SpentSum /\ Stacks = StackMap
    BY <1>2, SumsNow DEF Exact
  <2>6. (/\ SelfSoFar = SelfSum /\ RealSoFar = RealSum
         /\ SpentSoFar = SpentSum /\ Stacks = StackMap)'
    BY <2>3, SumsNext DEF Exact
  <2> QED
    BY <2>3, <2>4, <2>5, <2>6 DEF Times!vars
<1> QED
  BY <1>1, <1>2

\* What the sums rest on: they are finite, and no clock wraps (Budget).
THEOREM CountsExact == Spec => []Exact
<1>1. Init => Exact
  BY NoneOnStacks
<1>2. Exact /\ [Next]_vars => Exact'
  BY StepIs
<1> QED
  BY <1>1, <1>2, PTL DEF Spec

\* function_enter, function_exit and generate_report account for every unit of time as
\* RoutineTimes says.
THEOREM CostsImplementTimes == Spec => RefinesRoutineTimes
<1>1. Init => Times!Init
  BY NoneOnStacks
<1>2. Exact /\ [Next]_vars => [Times!Next]_Times!vars
  BY StepIs
<1> QED
  BY CountsExact, <1>1, <1>2, PTL DEF Spec, RefinesRoutineTimes, Times!Spec

-----------------------------------------------------------------------------
(* The largest cost of a call.                                             *)

\* After an exit a clock reads what it read before, with what doping has added.
LEMMA ExitReading ==
  ASSUME NEW t \in Thread, t \in DOMAIN threads, NEW r, Exiting(t, r), r.td.stack # <<>>,
         NEW size \in Size, IsFiniteSet(DOMAIN r.tuples)
  PROVE  LET s == function_exit(t, r, size)
         IN  Reading(s.td.stack, Now(s.td))
               = Reading(r.td.stack, Now(r.td) + Doping(r.td, size))
<1> DEFINE s == function_exit(t, r, size)
           B == [self |-> [f \in Measured |-> 0], real |-> [f \in Measured |-> 0], spent |-> 0]
           n == Doping(r.td, size)
           st == r.td.stack
           now == Now(r.td)
           a == AccountOf(r, B)
<1>1. BaseOK(B) /\ B.spent = 0
  BY DEF BaseOK
<1> HIDE DEF B
<1>2. AccountOf(s, B) = Times!Leave(a, size) /\ Exiting(t, s)
  BY <1>1, ExitLeaves, ExitKeeps
<1>3. /\ st \in Seq(Activation) /\ now \in Nat /\ n \in Nat /\ FileOf(r.tuples) /\ st # <<>>
      /\ Last(st) = st[Len(st)]
  <2>1. ThreadOK(mode, r.td) /\ TuplesOK(mode, r.tuples, threads)
    BY DEF Exiting
  <2>2. n \in Nat /\ now \in Nat
    BY DopedOK
  <2>3. st \in Seq(Activation)
    BY <2>1, ThreadFields DEF ThreadOK
  <2>4. Last(st) = st[Len(st)]
    BY <2>1, TopOf
  <2> QED
    BY <2>1, <2>2, <2>3, <2>4 DEF FileOf, TuplesOK
<1>4. Account(st, now + n, r.tuples, B) = Times!Spend(a, n)
  <2>1. a = Account(st, now, r.tuples, B)
    BY DEF AccountOf
  <2> HIDE DEF st, now, n, a
  <2>2. st \in Seq(Activation) /\ now \in Nat /\ n \in Nat /\ FileOf(r.tuples)
    BY <1>3
  <2>3. Account(st, now + n, r.tuples, B) = Times!Spend(Account(st, now, r.tuples, B), n)
    BY <1>1, <2>2, AccountTicks
  <2> QED
    BY <2>1, <2>3
<1>5. n = IF Times!Last(a.stack) \in DopeFn THEN size * size ELSE 0
  <2>1. a.stack = Routines(st)
    BY DEF AccountOf, Account
  <2>2. n = IF Last(st).fn \in DopeFn THEN size * size ELSE 0
    BY DEF Doping
  <2> HIDE DEF st, a, n
  <2>3. Last(Routines(st)) = Last(st).fn
    BY <1>3, RoutineIn
  <2> QED
    BY <2>1, <2>2, <2>3 DEF Times!Last, Last
<1>6. Times!Leave(a, size).spent = Account(st, now + n, r.tuples, B).spent
  <2> DEFINE b == Account(st, now + n, r.tuples, B)
  <2>1. "spent" \in DOMAIN b
    BY DEF Account
  <2> HIDE DEF a, b, n
  <2>2. Times!Leave(a, size) = [b EXCEPT !.stack = Times!Front(@)]
    BY <1>4, <1>5 DEF Times!Leave, b
  <2>3. [b EXCEPT !.stack = Times!Front(@)].spent = b.spent
    BY <2>1
  <2> QED
    BY <2>2, <2>3 DEF b
<1>7. AccountOf(s, B).spent = 0 + Reading(s.td.stack, Now(s.td))
      /\ Account(st, now + n, r.tuples, B).spent = 0 + Reading(st, now + n)
  BY <1>1 DEF AccountOf, Account
<1>8. Reading(s.td.stack, Now(s.td)) \in Nat /\ Reading(st, now + n) \in Nat
  <2> DEFINE u == s.td.stack
             later == Now(s.td)
             even == now + n
  <2>1. ThreadOK(mode, s.td)
    BY <1>2 DEF Exiting
  <2>2. u \in Seq(Activation) /\ later \in Nat /\ even \in Nat
    <3>1. s.td \in ThreadData /\ ClockOK(s.td)
      BY <2>1 DEF ThreadOK
    <3>2. s.td.stack \in Seq(Activation) /\ s.td.cost \in Nat /\ s.td.skipCost \in Nat
          /\ s.td.skipCost <= s.td.cost
      BY <3>1, ThreadFields DEF ClockOK
    <3> HIDE DEF s
    <3> QED
      BY <1>3, <3>2 DEF Now
  <2> HIDE DEF u, later, even
  <2>3. Reading(u, later) \in Nat /\ Reading(st, even) \in Nat
    BY <1>3, <2>2, LiveFacts
  <2> QED
    BY <2>3 DEF u, later, even
<1> DEFINE x == Reading(s.td.stack, Now(s.td))
           y == Reading(st, now + n)
<1>9. 0 + x = 0 + y /\ x \in Nat /\ y \in Nat
  BY <1>2, <1>6, <1>7, <1>8
<1> HIDE DEF x, y
<1>10. x = y
  BY <1>9
<1> QED
  BY <1>10 DEF x, y

\* While no skipped routine is on the stack the clock runs.
LEMMA ReadingRuns ==
  ASSUME NEW m, NEW td, ThreadOK(m, td), td.skip = 0, NEW now \in Nat
  PROVE  Reading(td.stack, now) = now
<1>1. td \in ThreadData /\ td.skip = Cardinality(SkippedIn(Routines(td.stack)))
  BY DEF ThreadOK, CountsOK
<1> DEFINE st == td.stack
           S == SkippedIn(Routines(st))
<1>2. st \in Seq(Activation)
  BY <1>1, ThreadFields
<1> HIDE DEF st
<1>3. S \subseteq 1..Len(Routines(st)) /\ Len(Routines(st)) \in Nat
  BY <1>2, StackFacts DEF SkippedIn
<1>4. IsFiniteSet(S)
  <2> DEFINE n == Len(Routines(st))
  <2>1. n \in Int /\ 1 \in Int
    BY <1>3
  <2> HIDE DEF n
  <2>2. IsFiniteSet(1..n)
    BY <2>1, FS_Interval
  <2> QED
    BY <1>3, <2>2, FS_Subset DEF n
<1>5. Cardinality(S) = 0
  BY <1>1 DEF st
<1>6. S = {}
  <2> HIDE DEF S
  <2> QED
    BY <1>4, <1>5, FS_EmptySet
<1>7. Timing(st) = Len(st)
  BY <1>2, <1>6, LiveFacts
<1>8. Len(st) \in Nat
  BY <1>2
<1> QED
  BY <1>7, <1>8 DEF Reading, st

\* Where the clock of r stands.
ReadingOf(r) == Reading(r.td.stack, Now(r.td))

\* From r to s thread t's clock is not set back, its tuples have no larger maxima than it
\* reads, and those of others are as they were.
Grows(t, r, s) ==
  /\ ReadingOf(r) <= ReadingOf(s)
  /\ \A k \in DOMAIN s.tuples :
       IF k.owner = Owner(t)
       THEN \/ s.tuples[k].maxCumul <= ReadingOf(s)
            \/ k \in DOMAIN r.tuples /\ s.tuples[k].maxCumul <= r.tuples[k].maxCumul
       ELSE k \in DOMAIN r.tuples /\ s.tuples[k] = r.tuples[k]

\* Numbers that are compared.
Comparable(r) ==
  ReadingOf(r) \in Nat /\ \A k \in DOMAIN r.tuples : r.tuples[k].maxCumul \in Nat

LEMMA ExitingComparable ==
  ASSUME NEW t, NEW r, Exiting(t, r)
  PROVE  Comparable(r)
<1>1. ThreadOK(mode, r.td) /\ TuplesOK(mode, r.tuples, threads)
  BY DEF Exiting
<1>2. \A k \in DOMAIN r.tuples : r.tuples[k].maxCumul \in Nat
  <2>1. \A k \in DOMAIN r.tuples : r.tuples[k] \in Tuple
    BY <1>1 DEF TuplesOK, IsMap
  <2> QED
    BY <2>1 DEF Tuple
<1>3. r.td.stack \in Seq(Activation) /\ Now(r.td) \in Nat
  <2>1. r.td.stack \in Seq(Activation) /\ r.td.cost \in Nat /\ r.td.skipCost \in Nat
        /\ r.td.skipCost <= r.td.cost
    BY <1>1, ThreadFields DEF ThreadOK, ClockOK
  <2> DEFINE a == r.td.cost
             b == r.td.skipCost
  <2>2. a \in Nat /\ b \in Nat /\ b <= a /\ Now(r.td) = a - b
    BY <2>1 DEF Now
  <2> HIDE DEF a, b
  <2>3. Now(r.td) \in Nat
    BY <2>2
  <2> QED
    BY <2>1, <2>3
<1> DEFINE st == r.td.stack
           now == Now(r.td)
<1>4. Reading(st, now) \in Nat
  <2>1. st \in Seq(Activation) /\ now \in Nat
    BY <1>3
  <2> HIDE DEF st, now
  <2> QED
    BY <2>1, LiveFacts
<1> QED
  BY <1>2, <1>4 DEF Comparable, ReadingOf

LEMMA GrowsOn ==
  ASSUME NEW t, NEW r, NEW s, NEW w, Comparable(r), Comparable(s), Comparable(w),
         Grows(t, r, s), Grows(t, s, w)
  PROVE  Grows(t, r, w)
<1> DEFINE a == ReadingOf(r)
           b == ReadingOf(s)
           c == ReadingOf(w)
<1>1. a \in Nat /\ b \in Nat /\ c \in Nat /\ a <= b /\ b <= c
  BY DEF Comparable, Grows
<1>2. a <= c
  <2> HIDE DEF a, b, c
  <2> QED
    BY <1>1
<1>3. ASSUME NEW k \in DOMAIN w.tuples, k.owner = Owner(t)
      PROVE  \/ w.tuples[k].maxCumul <= c
             \/ k \in DOMAIN r.tuples /\ w.tuples[k].maxCumul <= r.tuples[k].maxCumul
  <2> DEFINE z == w.tuples[k].maxCumul
             y == s.tuples[k].maxCumul
             x == r.tuples[k].maxCumul
  <2>1. z \in Nat
    BY DEF Comparable
  <2>2. z <= c \/ (k \in DOMAIN s.tuples /\ z <= y)
    BY <1>3 DEF Grows
  <2>3. ASSUME k \in DOMAIN s.tuples
        PROVE  y \in Nat /\ (y <= b \/ (k \in DOMAIN r.tuples /\ y <= x))
    BY <1>3, <2>3 DEF Grows, Comparable
  <2>4. k \in DOMAIN r.tuples => x \in Nat
    BY DEF Comparable
  <2> HIDE DEF a, b, c, x, y, z
  <2>5. z <= c \/ (k \in DOMAIN r.tuples /\ z <= x)
    BY <1>1, <2>1, <2>2, <2>3, <2>4
  <2> QED
    BY <2>5 DEF c, x, z
<1>4. ASSUME NEW k \in DOMAIN w.tuples, k.owner # Owner(t)
      PROVE  k \in DOMAIN r.tuples /\ w.tuples[k] = r.tuples[k]
  BY <1>4 DEF Grows
<1> QED
  BY <1>2, <1>3, <1>4 DEF Grows

\* A tuple that is filed has no larger maximum.
LEMMA FiledMax ==
  ASSUME NEW ts, IsMap(ts, Key, Tuple), NEW key, NEW cumul \in Nat, NEW self, NEW outermost,
         NEW k \in DOMAIN File(ts, key, cumul, self, outermost)
  PROVE  LET us == File(ts, key, cumul, self, outermost)
         IN  IF k # key THEN k \in DOMAIN ts /\ us[k] = ts[k]
             ELSE us[k].maxCumul <= cumul
                  \/ (k \in DOMAIN ts /\ us[k].maxCumul <= ts[k].maxCumul)
<1> DEFINE us == File(ts, key, cumul, self, outermost)
           v == IF k \in DOMAIN ts THEN ts[k] ELSE NewTuple
<1>1. k \in DOMAIN ts \cup {key} /\ (k # key => us[k] = ts[k])
      /\ (k = key => us[k] = Added(v, cumul, self, outermost))
  BY DEF File
<1>2. CASE k # key
  BY <1>1, <1>2
<1>3. CASE k = key
  <2>1. v.maxCumul \in Nat
    <3>1. k \in DOMAIN ts => ts[k] \in Tuple
      BY DEF IsMap
    <3> QED
      BY <3>1 DEF Tuple, NewTuple
  <2>2. us[k].maxCumul = Max({v.maxCumul, cumul})
    BY <1>1, <1>3 DEF Added
  <2> DEFINE a == v.maxCumul
  <2>3. a \in Nat /\ (k \notin DOMAIN ts => a = 0) /\ (k \in DOMAIN ts => a = ts[k].maxCumul)
    BY <2>1 DEF NewTuple
  <2> HIDE DEF a, v, us
  <2>4. us[k].maxCumul = a \/ us[k].maxCumul = cumul
    <3>1. Max({a, cumul}) \in {a, cumul}
      BY <2>3, MinMaxOfTwo
    <3> QED
      BY <2>2, <3>1 DEF a
  <2>5. CASE us[k].maxCumul = cumul
    <3>1. us[k].maxCumul <= cumul
      BY <2>5
    <3> QED
      BY <1>3, <3>1 DEF us
  <2>6. CASE us[k].maxCumul = a /\ k \in DOMAIN ts
    <3>1. us[k].maxCumul <= ts[k].maxCumul
      BY <2>3, <2>6
    <3> QED
      BY <1>3, <2>6, <3>1 DEF us
  <2>7. CASE us[k].maxCumul = a /\ k \notin DOMAIN ts
    <3>1. us[k].maxCumul <= cumul
      BY <2>3, <2>7
    <3> QED
      BY <1>3, <3>1 DEF us
  <2> QED
    BY <2>4, <2>5, <2>6, <2>7
<1> QED
  BY <1>2, <1>3

\* The tuples after an exit: the cost of the call is in its tuple, if it is filed at all.
LEMMA ExitFilesCost ==
  ASSUME NEW t \in Thread, NEW r, Exiting(t, r), r.td.stack # <<>>, NEW size \in Size
  PROVE  LET s == function_exit(t, r, size)
             doped == DopedOf(r.td, size)
             cumul == Now(doped) - Last(doped.stack).start
         IN  \/ s.tuples = r.tuples
             \/ /\ doped.skip = 0
                /\ \E key, self, outermost :
                     key.owner = Owner(t)
                     /\ s.tuples = File(r.tuples, key, cumul, self, outermost)
<1> DEFINE s == function_exit(t, r, size)
           doped == DopedOf(r.td, size)
           act == Last(r.td.stack)
           cumul == Now(doped) - act.start
           left == ExitOf(doped, act.fn)
           context == IF mode = "contexts" THEN doped.node[Len(doped.stack)] ELSE NoContext
           key == [owner |-> Owner(t), fn |-> act.fn, size |-> size, context |-> context]
<1>1. ThreadOK(mode, doped) /\ doped.stack = r.td.stack
  BY DopedOK
<1>2. doped.skip \in Nat
  BY <1>1, ThreadFields DEF ThreadOK
<1>3. s = IF doped.skip > 0
          THEN [r EXCEPT !.td = Pop(IF act.fn \in Skipped
                                    THEN [doped EXCEPT !.skip = @ - 1, !.skipCost = @ + cumul]
                                    ELSE doped)]
          ELSE [td |-> PopIntoParent(left, cumul),
                tuples |-> IF act.fn \in Discarded THEN r.tuples
                           ELSE File(r.tuples, key, cumul, cumul - act.children,
                                     left.pending[act.fn] < 1)]
  BY DEF function_exit, DopedOf
<1>4. r = [td |-> r.td, tuples |-> r.tuples]
  BY DEF Exiting
<1>5. key.owner = Owner(t)
  OBVIOUS
<1> HIDE DEF s, doped, cumul, left, key
<1>6. CASE doped.skip > 0
  <2>1. s.tuples = r.tuples
    BY <1>3, <1>4, <1>6
  <2> QED
    BY <2>1 DEF s
<1>7. CASE ~ (doped.skip > 0)
  <2>1. doped.skip = 0
    BY <1>2, <1>7
  <2>2. s.tuples = IF act.fn \in Discarded THEN r.tuples
                   ELSE File(r.tuples, key, cumul, cumul - act.children,
                             left.pending[act.fn] < 1)
    BY <1>3, <1>7
  <2>3. cumul = Now(doped) - Last(doped.stack).start
    BY <1>1 DEF cumul
  <2> QED
    BY <1>5, <2>1, <2>2, <2>3 DEF s, doped
<1> QED
  BY <1>6, <1>7

\* An exit files no larger cost than the clock then reads.
LEMMA ExitGrows ==
  ASSUME NEW t \in Thread, t \in DOMAIN threads, NEW r, Exiting(t, r), r.td.stack # <<>>,
         NEW size \in Size, IsFiniteSet(DOMAIN r.tuples)
  PROVE  Grows(t, r, function_exit(t, r, size))
<1> DEFINE s == function_exit(t, r, size)
           doped == DopedOf(r.td, size)
           st == r.td.stack
           now == Now(r.td)
           n == Doping(r.td, size)
           a == ReadingOf(r)
           c == ReadingOf(s)
           start == Last(doped.stack).start
           cumul == Now(doped) - start
<1>1. /\ ThreadOK(mode, doped) /\ doped.stack = st /\ Now(doped) = now + n
      /\ now \in Nat /\ n \in Nat
  BY DopedOK
<1>2. c = Reading(st, now + n)
  BY ExitReading DEF ReadingOf
<1>3. st \in Seq(Activation)
  BY ThreadFields DEF Exiting, ThreadOK
<1>4. a = Reading(st, now)
  BY DEF ReadingOf
<1>5. a <= c /\ a \in Nat /\ c \in Nat
  <2> HIDE DEF st, now, n, a, c
  <2>1. Reading(st, now) \in Nat
    BY <1>1, <1>3, LiveFacts
  <2>2. Reading(st, now + n)
          = Reading(st, now) + IF SkippedIn(Routines(st)) = {} THEN n ELSE 0
    <3>1. Ticks(st, now, n, r)
      BY <1>1, <1>3, CostsTick
    <3> QED
      BY <3>1 DEF Ticks
  <2> QED
    BY <1>1, <1>2, <1>4, <2>1, <2>2
<1>6. start \in Nat /\ start <= Now(doped) /\ Now(doped) \in Nat /\ cumul \in Nat
  <2>1. doped.stack # <<>>
    BY <1>1
  <2> DEFINE act == Last(doped.stack)
             x == act.start
             y == act.children
             z == Now(doped)
  <2>2. x \in Nat /\ y \in Nat /\ z \in Nat /\ x + y <= z
    BY <1>1, <2>1, TopOf
  <2>3. start = x /\ cumul = z - x
    OBVIOUS
  <2> HIDE DEF x, y, z, start, cumul
  <2>4. x <= z /\ z - x \in Nat
    BY <2>2
  <2> QED
    BY <2>2, <2>3, <2>4 DEF z
<1>7. doped.skip = 0 => cumul <= c
  <2> SUFFICES ASSUME doped.skip = 0 PROVE cumul <= c
    OBVIOUS
  <2> DEFINE z == Now(doped)
  <2>1. Reading(doped.stack, z) = z
    BY <1>1, <1>6, ReadingRuns
  <2>2. c = z
    BY <1>1, <1>2, <2>1
  <2>3. cumul = z - start
    OBVIOUS
  <2> HIDE DEF z, start, cumul, c
  <2> QED
    BY <1>6, <2>2, <2>3 DEF z
<1>8. IsMap(r.tuples, Key, Tuple)
  BY DEF Exiting, TuplesOK
<1>9. \A k \in DOMAIN r.tuples : r.tuples[k].maxCumul \in Nat
  BY ExitingComparable DEF Comparable
<1>10. \/ s.tuples = r.tuples
       \/ /\ doped.skip = 0
          /\ \E key, self, outermost :
               key.owner = Owner(t)
               /\ s.tuples = File(r.tuples, key, cumul, self, outermost)
  BY ExitFilesCost
<1>11. CASE s.tuples = r.tuples
  <2> HIDE DEF s
  <2>1. \A k \in DOMAIN s.tuples : /\ k \in DOMAIN r.tuples /\ s.tuples[k] = r.tuples[k]
                                   /\ s.tuples[k].maxCumul <= r.tuples[k].maxCumul
    BY <1>9, <1>11
  <2>2. Grows(t, r, s)
    BY <1>5, <2>1 DEF Grows
  <2> QED
    BY <2>2 DEF s
<1>12. ASSUME doped.skip = 0, NEW key, NEW self, NEW outermost, key.owner = Owner(t),
              s.tuples = File(r.tuples, key, cumul, self, outermost)
       PROVE  Grows(t, r, s)
  <2> HIDE DEF s, doped, cumul, a, c
  <2>1. ASSUME NEW k \in DOMAIN s.tuples
        PROVE  IF k # key THEN k \in DOMAIN r.tuples /\ s.tuples[k] = r.tuples[k]
               ELSE s.tuples[k].maxCumul <= cumul
                    \/ (k \in DOMAIN r.tuples /\ s.tuples[k].maxCumul <= r.tuples[k].maxCumul)
    <3> DEFINE ts == r.tuples
    <3>1. IsMap(ts, Key, Tuple) /\ k \in DOMAIN File(ts, key, cumul, self, outermost)
      BY <1>8, <1>12, <2>1
    <3> HIDE DEF ts
    <3>2. LET us == File(ts, key, cumul, self, outermost)
          IN  IF k # key THEN k \in DOMAIN ts /\ us[k] = ts[k]
              ELSE us[k].maxCumul <= cumul
                   \/ (k \in DOMAIN ts /\ us[k].maxCumul <= ts[k].maxCumul)
      BY <1>6, <3>1, FiledMax
    <3> QED
      BY <1>12, <3>2 DEF ts
  <2>2. ASSUME NEW k \in DOMAIN s.tuples, k.owner # Owner(t)
        PROVE  k \in DOMAIN r.tuples /\ s.tuples[k] = r.tuples[k]
    BY <1>12, <2>1, <2>2
  <2>3. \A k \in DOMAIN s.tuples : s.tuples[k].maxCumul \in Nat
    <3>1. Exiting(t, s)
      BY ExitKeeps DEF s
    <3> QED
      BY <3>1, ExitingComparable DEF Comparable
  <2>4. cumul <= c
    BY <1>7, <1>12
  <2>5. ASSUME NEW k \in DOMAIN s.tuples
        PROVE  \/ s.tuples[k].maxCumul <= c
               \/ k \in DOMAIN r.tuples /\ s.tuples[k].maxCumul <= r.tuples[k].maxCumul
    <3>1. CASE k # key
      <4>1. k \in DOMAIN r.tuples /\ s.tuples[k] = r.tuples[k]
            /\ r.tuples[k].maxCumul \in Nat
        BY <1>9, <2>1, <3>1
      <4> QED
        BY <4>1
    <3>2. CASE k = key
      <4> DEFINE z == s.tuples[k].maxCumul
      <4>1. z \in Nat
        BY <2>3
      <4>2. z <= cumul
            \/ (k \in DOMAIN r.tuples /\ s.tuples[k].maxCumul <= r.tuples[k].maxCumul)
        BY <2>1, <3>2
      <4>3. CASE z <= cumul
        <5> HIDE DEF z
        <5>1. z <= c
          BY <1>5, <1>6, <2>4, <4>1, <4>3
        <5> QED
          BY <5>1 DEF z
      <4> QED
        BY <4>2, <4>3
    <3> QED
      BY <3>1, <3>2
  <2>6. ReadingOf(r) <= ReadingOf(s)
    BY <1>5 DEF a, c
  <2>7. \A k \in DOMAIN s.tuples :
          \/ s.tuples[k].maxCumul <= ReadingOf(s)
          \/ k \in DOMAIN r.tuples /\ s.tuples[k].maxCumul <= r.tuples[k].maxCumul
    BY <2>5 DEF c
  <2> QED
    BY <2>2, <2>6, <2>7 DEF Grows
<1> QED
  BY <1>10, <1>11, <1>12

LEMMA ExitsGrow ==
  ASSUME NEW t \in Thread, t \in DOMAIN threads, NEW r, Exiting(t, r),
         NEW n \in Nat, n <= Len(r.td.stack), NEW sizes \in [1..n -> Size],
         IsFiniteSet(DOMAIN r.tuples)
  PROVE  Grows(t, r, ExitMany(t, r, n, sizes))
<1>1. PICK f : Exits(f, t, r, n, sizes) /\ ExitMany(t, r, n, sizes) = f[n]
  BY ExitManyIsLast
<1>2. \A k \in 0..n : f[k] = IF k = 0 THEN r ELSE function_exit(t, f[k - 1], sizes[k])
  BY <1>1, Zenon DEF Exits
<1> DEFINE Reached(k) == /\ Exiting(t, f[k]) /\ Len(f[k].td.stack) = Len(r.td.stack) - k
                         /\ IsFiniteSet(DOMAIN f[k].tuples) /\ Grows(t, r, f[k])
           S == {k \in Nat : k <= n => Reached(k)}
<1>3. Len(r.td.stack) \in Nat
  BY ThreadFields DEF Exiting, ThreadOK
<1>4. 0 \in S
  <2>1. f[0] = r
    BY <1>2
  <2>2. Grows(t, r, r)
    <3>1. Comparable(r)
      BY ExitingComparable
    <3>2. ReadingOf(r) <= ReadingOf(r)
      BY <3>1 DEF Comparable
    <3>3. \A k \in DOMAIN r.tuples : r.tuples[k].maxCumul <= r.tuples[k].maxCumul
      BY <3>1 DEF Comparable
    <3> QED
      BY <3>2, <3>3 DEF Grows
  <2> QED
    BY <1>3, <2>1, <2>2
<1>5. ASSUME NEW k \in Nat, k + 1 <= n, Reached(k)
      PROVE  Reached(k + 1)
  <2> DEFINE x == f[k]
             y == f[k + 1]
             size == sizes[k + 1]
             B == [self |-> [g \in Measured |-> 0], real |-> [g \in Measured |-> 0], spent |-> 0]
  <2>1. y = function_exit(t, x, size) /\ size \in Size
    <3>1. k + 1 \in 0..n /\ k + 1 \in 1..n /\ k + 1 # 0 /\ k + 1 - 1 = k
      BY <1>5
    <3> QED
      BY <1>2, <3>1
  <2>2. /\ Exiting(t, x) /\ Len(x.td.stack) = Len(r.td.stack) - k
        /\ IsFiniteSet(DOMAIN x.tuples) /\ Grows(t, r, x)
    BY <1>5
  <2>3. BaseOK(B)
    BY DEF BaseOK
  <2> HIDE DEF x, y, B, size
  <2>4. x.td.stack # <<>>
    <3>1. Len(x.td.stack) # 0
      BY <1>3, <1>5, <2>2
    <3> QED
      BY <3>1
  <2>5. Exiting(t, y) /\ Len(y.td.stack) = Len(x.td.stack) - 1
    BY <2>1, <2>2, <2>4, ExitKeeps
  <2>6. IsFiniteSet(DOMAIN y.tuples)
    BY <2>1, <2>2, <2>3, <2>4, ExitLeaves
  <2>7. Grows(t, x, y)
    BY <2>1, <2>2, <2>4, ExitGrows
  <2>8. Grows(t, r, y)
    <3>1. Comparable(r) /\ Comparable(x) /\ Comparable(y)
      BY <2>2, <2>5, ExitingComparable
    <3> QED
      BY <2>2, <2>7, <3>1, GrowsOn
  <2>9. Len(y.td.stack) = Len(r.td.stack) - (k + 1)
    <3> DEFINE a == Len(r.td.stack)
               b == Len(x.td.stack)
               d == Len(y.td.stack)
    <3>1. a \in Nat /\ b = a - k /\ d = b - 1 /\ k \in Nat
      BY <1>3, <2>2, <2>5
    <3> HIDE DEF a, b, d
    <3>2. d = a - (k + 1)
      BY <3>1
    <3> QED
      BY <3>2 DEF a, d
  <2> QED
    BY <2>5, <2>6, <2>8, <2>9 DEF y
<1>6. ASSUME NEW k \in S
      PROVE  k + 1 \in S
  <2>1. k \in Nat
    OBVIOUS
  <2>2. SUFFICES ASSUME k + 1 <= n PROVE Reached(k + 1)
    OBVIOUS
  <2>3. k <= n
    BY <2>1, <2>2
  <2>4. Reached(k)
    BY <2>3
  <2> HIDE DEF Reached
  <2> QED
    BY <1>5, <2>1, <2>2, <2>4
<1>7. n \in S
  <2>1. S \in SUBSET Nat
    OBVIOUS
  <2> HIDE DEF S
  <2> QED
    BY <1>4, <1>6, <2>1, SetInduction
<1>8. Reached(n)
  <2> HIDE DEF Reached
  <2> QED
    BY <1>7
<1> QED
  BY <1>1, <1>8

\* A thread before a step.
Standing(t) == [td |-> threads[t], tuples |-> tuples]

LEMMA StandingOK ==
  ASSUME IInv, NEW t, t \in DOMAIN threads
  PROVE  Exiting(t, Standing(t))
BY DEF Exiting, Standing, IInv

LEMMA TickGrows ==
  ASSUME IInv, NEW t \in Thread, t \in DOMAIN threads
  PROVE  Grows(t, Standing(t), Ticked(t))
<1> DEFINE td == threads[t]
           u == [td EXCEPT !.cost = @ + 1]
           st == td.stack
           now == Now(td)
<1>1. ThreadOK(mode, td) /\ Comparable(Standing(t))
  BY StandingOK, ExitingComparable DEF IInv
<1>2. u.stack = st /\ u.cost = td.cost + 1 /\ u.skipCost = td.skipCost
  <2> HIDE DEF td
  <2> QED
    BY <1>1, CostGrows
<1>3. td.cost \in Nat /\ td.skipCost \in Nat /\ td.skipCost <= td.cost /\ st \in Seq(Activation)
  BY <1>1, ThreadFields DEF ThreadOK, ClockOK
<1>4. Now(u) = now + 1 /\ now \in Nat
  <2> DEFINE a == td.cost
             b == td.skipCost
  <2>1. a \in Nat /\ b \in Nat /\ b <= a /\ Now(u) = (a + 1) - b /\ now = a - b
    BY <1>2, <1>3 DEF Now
  <2> HIDE DEF a, b, u, now
  <2> QED
    BY <2>1
<1>5. Ticked(t) = [td |-> u, tuples |-> tuples]
  BY DEF Ticked
<1>6. ReadingOf(Standing(t)) = Reading(st, now) /\ ReadingOf(Ticked(t)) = Reading(st, now + 1)
  <2>1. ReadingOf(Standing(t)) = Reading(st, now)
    BY DEF ReadingOf, Standing
  <2>2. Ticked(t).td = u
    <3> HIDE DEF u
    <3> QED
      BY <1>5
  <2> HIDE DEF u, st, now
  <2>3. ReadingOf(Ticked(t)) = Reading(st, now + 1)
    BY <1>2, <1>4, <2>2 DEF ReadingOf
  <2> QED
    BY <2>1, <2>3
<1>7. Reading(st, now) <= Reading(st, now + 1)
  <2> HIDE DEF st, now
  <2>1. Reading(st, now) \in Nat
    BY <1>3, <1>4, LiveFacts
  <2>2. Reading(st, now + 1)
          = Reading(st, now) + IF SkippedIn(Routines(st)) = {} THEN 1 ELSE 0
    <3>1. 1 \in Nat
      OBVIOUS
    <3>2. Ticks(st, now, 1, t)
      BY <1>3, <1>4, <3>1, CostsTick
    <3> QED
      BY <3>2 DEF Ticks
  <2> QED
    BY <2>1, <2>2
<1>8. \A k \in DOMAIN tuples : tuples[k].maxCumul <= tuples[k].maxCumul
  BY <1>1 DEF Comparable, Standing
<1> HIDE DEF u
<1>9. Ticked(t).tuples = tuples /\ Standing(t).tuples = tuples
  BY <1>5 DEF Standing
<1> QED
  BY <1>6, <1>7, <1>8, <1>9 DEF Grows

\* A call takes no time and files nothing.
LEMMA CallGrows ==
  ASSUME NEW t \in Thread, NEW r, Exiting(t, r), Len(r.td.stack) < MaxDepth, NEW f \in Fn,
         NEW s, s = [r EXCEPT !.td = function_enter(@, f)]
  PROVE  Grows(t, r, s) /\ Comparable(s)
<1> DEFINE td == r.td
           u == function_enter(td, f)
           st == td.stack
           now == Now(td)
           us == u.stack
<1>1. ThreadOK(mode, td) /\ r = [td |-> td, tuples |-> r.tuples] /\ Comparable(r)
  BY ExitingComparable DEF Exiting
<1>2. u.stack = Pushed(td, f).stack /\ u.cost = td.cost /\ u.skipCost = td.skipCost
  BY <1>1, EnterKeeps
<1>3. Now(u) = now
  BY <1>2 DEF Now
<1>4. st \in Seq(Activation) /\ now \in Nat
  BY <1>1, ThreadFields DEF ThreadOK, ClockOK, Now
<1>5. us = Append(st, [fn |-> f, start |-> now, children |-> 0])
  <2>1. td \in ThreadData
    BY <1>1 DEF ThreadOK
  <2>2. Pushed(td, f).stack = Append(st, [fn |-> f, start |-> now, children |-> 0])
    BY <2>1 DEF Pushed, ThreadData
  <2> QED
    BY <1>2, <2>2
<1>6. s.td = u /\ s.tuples = r.tuples
  <2>1. s = [r EXCEPT !.td = u]
    OBVIOUS
  <2> HIDE DEF u, td
  <2> QED
    BY <1>1, <2>1
<1> HIDE DEF u, us, st, now
<1>7. Reading(us, now) = Reading(st, now)
  BY <1>4, <1>5, CostsPush
<1>8. ReadingOf(s) = ReadingOf(r)
  BY <1>3, <1>6, <1>7 DEF ReadingOf, us, st, now
<1>9. \A k \in DOMAIN r.tuples : r.tuples[k].maxCumul <= r.tuples[k].maxCumul
  BY <1>1 DEF Comparable
<1>10. ReadingOf(r) <= ReadingOf(s)
  BY <1>1, <1>8 DEF Comparable
<1> QED
  BY <1>1, <1>6, <1>8, <1>9, <1>10 DEF Grows, Comparable

\* No call has cost more than the clock of its thread reads or, with one report for all
\* threads, than all of them have cost.
Maxima ==
  /\ \A k \in DOMAIN tuples :
       IF mode = "single"
       THEN k.owner = Shared /\ tuples[k].maxCumul <= SpentSum
       ELSE /\ k.owner \in DOMAIN threads
            /\ tuples[k].maxCumul <= Reading(threads[k.owner].stack, Now(threads[k.owner]))
  /\ \A i \in DOMAIN printed : \A p \in printed[i].tuples :
       p[2].maxCumul <= (printed[i].k + printed[i].skipped) % ULongSpan

\* What is counted for the owner of thread t's tuples, without t itself.
Beside(t) == IF mode = "single" THEN Others(t).spent ELSE 0

LEMMA BesideType ==
  ASSUME Exact, NEW t \in Thread, t \in DOMAIN threads
  PROVE  Beside(t) \in Nat
<1> DEFINE S == DOMAIN threads \ {t}
           g == ReadingAt(threads)
           x == Total(g, S)
           y == Ended(mode, printed, extra)
           z == PrintedTime(printed)
<1>1. Clocked(threads) /\ y \in Nat
  BY ThreadsClocked DEF Exact
<1>2. \A u \in DOMAIN threads : g[u] \in Nat
  BY <1>1, TermsAt
<1>3. IsFiniteSet(S)
  BY FS_Subset DEF Exact, Finite
<1>4. x \in Nat
  <2>1. \A u \in S : g[u] \in Nat
    BY <1>2
  <2> HIDE DEF S, g
  <2> QED
    BY <1>3, <2>1, TotalBounds
<1>5. z \in Nat
  BY PrintedSums DEF Exact
<1>6. Others(t).spent = x + y + z
  BY DEF Others, OthersIn
<1> HIDE DEF x, y, z
<1>7. x + y + z \in Nat
  BY <1>1, <1>4, <1>5
<1> QED
  BY <1>6, <1>7 DEF Beside

\* When thread t has grown to r, its tuples are still no larger than what is counted.
LEMMA OwnMaxima ==
  ASSUME Exact, Maxima, NEW t \in Thread, t \in DOMAIN threads,
         NEW r, Comparable(r), Grows(t, Standing(t), r), NEW k \in DOMAIN r.tuples
  PROVE  IF k.owner = Owner(t) THEN r.tuples[k].maxCumul <= Beside(t) + ReadingOf(r)
         ELSE mode # "single" /\ k \in DOMAIN tuples /\ r.tuples[k] = tuples[k]
<1> DEFINE a == ReadingOf(Standing(t))
           b == ReadingOf(r)
           e == Beside(t)
           x == r.tuples[k].maxCumul
           y == tuples[k].maxCumul
<1>1. Comparable(Standing(t))
  BY StandingOK, ExitingComparable DEF Exact
<1>2. a \in Nat /\ b \in Nat /\ a <= b /\ x \in Nat /\ e \in Nat
  BY <1>1, BesideType DEF Comparable, Grows
<1>3. Standing(t).tuples = tuples /\ Standing(t).td = threads[t]
  BY DEF Standing
<1>4. a = Reading(threads[t].stack, Now(threads[t]))
  BY <1>3 DEF ReadingOf
<1>5. CASE k.owner = Owner(t)
  <2>1. x <= b \/ (k \in DOMAIN tuples /\ x <= y)
    BY <1>3, <1>5 DEF Grows
  <2>2. ASSUME k \in DOMAIN tuples
        PROVE  y \in Nat /\ y <= e + a
    <3>1. y \in Nat
      BY <1>1, <1>3, <2>2 DEF Comparable
    <3>2. CASE mode = "single"
      <4>1. y <= SpentSum
        BY <2>2, <3>2 DEF Maxima
      <4>2. SumAccount(t) = Account(threads[t].stack, Now(threads[t]), tuples, Others(t))
        BY AccountNow DEF Exact
      <4>3. SpentSum = e + a
        BY <1>4, <3>2, <4>2 DEF SumAccount, Account, Beside
      <4> QED
        BY <3>1, <4>1, <4>3
    <3>3. CASE mode # "single"
      <4>1. k.owner = t /\ e = 0
        BY <1>5, <3>3 DEF Owner, Beside
      <4>2. y <= a
        BY <1>4, <2>2, <3>3, <4>1 DEF Maxima
      <4> HIDE DEF a, e, y
      <4> QED
        BY <1>2, <3>1, <4>1, <4>2
    <3> QED
      BY <3>2, <3>3
  <2> HIDE DEF a, b, e, x, y
  <2>3. x <= e + b
    BY <1>2, <2>1, <2>2
  <2> QED
    BY <1>5, <2>3 DEF x, e, b
<1>6. CASE k.owner # Owner(t)
  <2>1. k \in DOMAIN tuples /\ r.tuples[k] = tuples[k]
    BY <1>3, <1>6 DEF Grows
  <2>2. mode # "single"
    BY <1>6, <2>1 DEF Maxima, Owner
  <2> QED
    BY <1>6, <2>1, <2>2
<1> QED
  BY <1>5, <1>6

\* A block whose thread grows.
LEMMA BlockMaxima ==
  ASSUME Exact, Exact', Maxima, NEW t \in Thread, NEW r, Block(t, r),
         Comparable(r), Grows(t, Standing(t), r)
  PROVE  Maxima'
<1>1. /\ t \in DOMAIN threads /\ mode' = mode /\ printed' = printed
      /\ tuples' = r.tuples /\ threads' = [threads EXCEPT ![t] = r.td]
  BY DEF Block, Alive
<1>2. SpentSum' = AccountOf(r, Others(t)).spent
  BY AccountOfBlock DEF Exact
<1>3. SpentSum' = Others(t).spent + ReadingOf(r)
  BY <1>2 DEF AccountOf, Account, ReadingOf
<1>4. \A k \in DOMAIN r.tuples :
        IF k.owner = Owner(t) THEN r.tuples[k].maxCumul <= Beside(t) + ReadingOf(r)
        ELSE mode # "single" /\ k \in DOMAIN tuples /\ r.tuples[k] = tuples[k]
  BY <1>1, OwnMaxima
<1>5. ASSUME NEW k \in DOMAIN r.tuples, mode = "single"
      PROVE  k.owner = Shared /\ r.tuples[k].maxCumul <= SpentSum'
  <2>1. k.owner = Owner(t) /\ r.tuples[k].maxCumul <= Beside(t) + ReadingOf(r)
    BY <1>4, <1>5
  <2> QED
    BY <1>3, <1>5, <2>1 DEF Owner, Beside
<1>6. ASSUME NEW k \in DOMAIN r.tuples, mode # "single"
      PROVE  /\ k.owner \in DOMAIN threads'
             /\ r.tuples[k].maxCumul <= Reading(threads'[k.owner].stack, Now(threads'[k.owner]))
  <2>1. Owner(t) = t /\ Beside(t) = 0
    BY <1>6 DEF Owner, Beside
  <2>2. CASE k.owner = t
    <3>1. threads'[t] = r.td
      BY <1>1
    <3>2. r.tuples[k].maxCumul <= 0 + ReadingOf(r)
      BY <1>4, <2>1, <2>2
    <3>3. 0 + ReadingOf(r) = ReadingOf(r)
      BY DEF Comparable
    <3> QED
      BY <1>1, <2>2, <3>1, <3>2, <3>3 DEF ReadingOf
  <2>3. CASE k.owner # t
    <3>1. k \in DOMAIN tuples /\ r.tuples[k] = tuples[k]
      BY <1>4, <2>1, <2>3
    <3>2. /\ k.owner \in DOMAIN threads
          /\ tuples[k].maxCumul <= Reading(threads[k.owner].stack, Now(threads[k.owner]))
      BY <1>6, <3>1 DEF Maxima
    <3>3. threads'[k.owner] = threads[k.owner]
      BY <1>1, <2>3, <3>2
    <3> QED
      BY <1>1, <3>1, <3>2, <3>3
  <2> QED
    BY <2>2, <2>3
<1>7. \A k \in DOMAIN tuples' :
        IF mode' = "single"
        THEN k.owner = Shared /\ tuples'[k].maxCumul <= SpentSum'
        ELSE /\ k.owner \in DOMAIN threads'
             /\ tuples'[k].maxCumul <= Reading(threads'[k.owner].stack, Now(threads'[k.owner]))
  BY <1>1, <1>5, <1>6
<1>8. \A i \in DOMAIN printed' : \A p \in printed'[i].tuples :
        p[2].maxCumul <= (printed'[i].k + printed'[i].skipped) % ULongSpan
  BY <1>1 DEF Maxima
<1> QED
  BY <1>7, <1>8 DEF Maxima

LEMMA StartMaxima ==
  ASSUME Exact, Exact', Maxima, NEW t \in Thread, Start(t), SpentSoFar' = SpentSoFar
  PROVE  Maxima'
<1>1. /\ DOMAIN threads \subseteq DOMAIN threads'
      /\ \A u \in DOMAIN threads : threads'[u] = threads[u]
      /\ mode' = mode /\ tuples' = tuples /\ printed' = printed
  BY DEF Start, Alive
<1>2. SpentSum' = SpentSum
  <2>1. SpentSoFar = SpentSum
    BY SumsNow DEF Exact
  <2>2. SpentSoFar' = SpentSum'
    BY SumsNext DEF Exact
  <2> QED
    BY <2>1, <2>2
<1>3. \A k \in DOMAIN tuples' :
        IF mode' = "single"
        THEN k.owner = Shared /\ tuples'[k].maxCumul <= SpentSum'
        ELSE /\ k.owner \in DOMAIN threads'
             /\ tuples'[k].maxCumul <= Reading(threads'[k.owner].stack, Now(threads'[k.owner]))
  BY <1>1, <1>2 DEF Maxima
<1>4. \A i \in DOMAIN printed' : \A p \in printed'[i].tuples :
        p[2].maxCumul <= (printed'[i].k + printed'[i].skipped) % ULongSpan
  BY <1>1 DEF Maxima
<1> QED
  BY <1>3, <1>4 DEF Maxima

\* What the last report holds of time is all that is counted for its tuples.
LEMMA LastTime ==
  ASSUME Exact, IInv', NEW t \in Thread, NEW r, NEW now, Exited(t, r, now, TRUE)
  PROVE  LET n == Len(printed) + 1
         IN  /\ DOMAIN printed' = 1..n /\ n \in Nat
             /\ (printed'[n].k + printed'[n].skipped) % ULongSpan = Beside(t) + now
<1> DEFINE n == Len(printed) + 1
           x == (printed'[n].k + printed'[n].skipped) % ULongSpan
           ps == printed
           qs == printed'
           e == Ended(mode, ps, extra)
           p == PrintedTime(ps)
<1>1. /\ Len(ps) \in Nat /\ DOMAIN ps = 1..Len(ps) /\ DOMAIN qs = 1..(Len(ps) + 1)
      /\ \A i \in 1..Len(ps) : qs[i] = ps[i]
      /\ mode' = mode /\ now \in Nat
      /\ mode # "single" \/ DOMAIN threads = {t}
      /\ Ended(mode, qs, extra') + PrintedTime(qs) = e + p + now
  BY DEF Exited, Printing
<1>2. \A i \in 1..Len(ps) : TimesIn(ps)[i] \in Nat
  BY ReportsType DEF Exact, IInv
<1>3. x \in Nat
  <2>1. Len(qs) = Len(ps) + 1
    <3>1. qs \in Seq(Report)
      BY DEF IInv
    <3> HIDE DEF qs
    <3> QED
      BY <1>1, <3>1
  <2>2. ReportOK(mode', qs[n])
    <3>1. n \in 1..Len(qs)
      BY <1>1, <2>1
    <3> QED
      BY <3>1 DEF IInv
  <2>3. qs[n].k \in Int /\ qs[n].skipped \in Int
    BY <2>2, BoundsAssumption DEF ReportOK, Report
  <2> DEFINE y == qs[n].k + qs[n].skipped
  <2>4. y \in Int
    BY <2>3
  <2> HIDE DEF y
  <2>5. y % ULongSpan \in Nat
    BY <2>4, Modulo, BoundsAssumption
  <2> QED
    BY <2>5 DEF y
<1>4. PrintedTime(qs) = p + x /\ p \in Nat
  <2> HIDE DEF ps, qs, x, p
  <2>1. x = (qs[Len(ps) + 1].k + qs[Len(ps) + 1].skipped) % ULongSpan
    BY DEF x, qs, ps
  <2> QED
    BY <1>1, <1>2, <1>3, <2>1, PrintedTimeMore DEF p
<1>5. Ended(mode, qs, extra') = 0
  <2>1. qs # <<>>
    BY <1>1
  <2> QED
    BY <2>1 DEF Ended
<1>6. e \in Nat
  BY ThreadsClocked DEF Exact
<1>7. x = e + now
  <2> HIDE DEF x, e, p
  <2> QED
    BY <1>1, <1>3, <1>4, <1>5, <1>6
<1>8. Beside(t) = e
  <2>1. CASE mode = "single"
    <3>1. DOMAIN threads = {t} /\ DOMAIN threads \ {t} = {}
      BY <1>1, <2>1
    <3>2. ps = <<>>
      BY <2>1, <3>1 DEF Exact, LastPrints
    <3>3. p = 0
      <4>1. DOMAIN ps = {}
        BY <3>2
      <4>2. \A f : Total(f, {}) = 0
        <5> SUFFICES ASSUME NEW f PROVE Total(f, {}) = 0
          OBVIOUS
        <5>1. IsFiniteSet({}) /\ Integral(f, {})
          BY FS_EmptySet DEF Integral
        <5> QED
          BY <5>1, TotalSteps
      <4> QED
        BY <4>1, <4>2 DEF PrintedTime
    <3>4. Total(ReadingAt(threads), {}) = 0
      <4> DEFINE f == ReadingAt(threads)
      <4>1. IsFiniteSet({}) /\ Integral(f, {})
        BY FS_EmptySet DEF Integral
      <4> HIDE DEF f
      <4>2. Total(f, {}) = 0
        BY <4>1, TotalSteps
      <4> QED
        BY <4>2 DEF f
    <3>5. Others(t).spent = 0 + e + 0
      BY <3>1, <3>3, <3>4 DEF Others, OthersIn
    <3> HIDE DEF e
    <3> QED
      BY <1>6, <2>1, <3>5 DEF Beside
  <2>2. CASE mode # "single"
    BY <2>2 DEF Beside, Ended
  <2> QED
    BY <2>1, <2>2
<1> QED
  BY <1>1, <1>7, <1>8

\* A thread that ends.
LEMMA ExitMaxima ==
  ASSUME Exact, Exact', Maxima, NEW t \in Thread, NEW r, NEW now, NEW last \in BOOLEAN,
         Exited(t, r, now, last), Comparable(r), Grows(t, Standing(t), r)
  PROVE  Maxima'
<1>1. /\ t \in DOMAIN threads /\ now = Now(r.td) /\ now \in Nat /\ r.td.stack = <<>>
      /\ DOMAIN threads' = DOMAIN threads \ {t}
      /\ \A u \in DOMAIN threads' : threads'[u] = threads[u]
      /\ mode' = mode
      /\ last => Printing(r.tuples, Owner(t), tuples', printed, printed')
      /\ ~ last => tuples' = Without(r.tuples, {}) /\ printed' = printed /\ mode = "single"
  <2>1. ~ last => mode = "single"
    BY DEF Exited
  <2> QED
    BY <2>1 DEF Exited
<1>2. ReadingOf(r) = now
  BY <1>1, EmptyStack DEF ReadingOf
<1>3. \A k \in DOMAIN r.tuples :
        IF k.owner = Owner(t) THEN r.tuples[k].maxCumul <= Beside(t) + now
        ELSE mode # "single" /\ k \in DOMAIN tuples /\ r.tuples[k] = tuples[k]
  BY <1>1, <1>2, OwnMaxima
<1>4. CASE ~ last
  <2>1. DOMAIN tuples' = DOMAIN r.tuples /\ \A k \in DOMAIN r.tuples : tuples'[k] = r.tuples[k]
    BY <1>1, <1>4 DEF Without
  <2>2. SpentSum' = Beside(t) + now
    <3>1. SpentSum' = AccountOf(r, Others(t)).spent
      BY ExitSums DEF Exact
    <3>2. AccountOf(r, Others(t)).spent = Others(t).spent + ReadingOf(r)
      BY DEF AccountOf, Account, ReadingOf
    <3> QED
      BY <1>1, <1>2, <1>4, <3>1, <3>2 DEF Beside
  <2>3. \A k \in DOMAIN tuples' : k.owner = Shared /\ tuples'[k].maxCumul <= SpentSum'
    BY <1>1, <1>3, <1>4, <2>1, <2>2 DEF Owner
  <2> QED
    BY <1>1, <1>4, <2>3 DEF Maxima
<1>5. CASE last
  <2> DEFINE n == Len(printed) + 1
             ts == r.tuples
  <2>1. /\ DOMAIN printed' = 1..n /\ n \in Nat
        /\ (printed'[n].k + printed'[n].skipped) % ULongSpan = Beside(t) + now
    <3>1. Exited(t, r, now, TRUE)
      <4>1. last = TRUE
        BY <1>5
      <4> QED
        BY <4>1
    <3>2. IInv'
      BY DEF Exact
    <3> QED
      BY <3>1, <3>2, LastTime
  <2>2. /\ tuples' = Without(ts, OwnedIn(ts, Owner(t)))
        /\ DOMAIN printed = 1..Len(printed) /\ Len(printed) \in Nat
        /\ \A i \in 1..Len(printed) : printed'[i] = printed[i]
        /\ printed'[n].tuples = OwnedBy(ts, Owner(t))
    BY <1>1, <1>5 DEF Printing
  <2>3. ASSUME NEW k \in DOMAIN tuples'
        PROVE  /\ mode # "single" /\ k.owner \in DOMAIN threads'
               /\ tuples'[k].maxCumul <= Reading(threads'[k.owner].stack, Now(threads'[k.owner]))
    <3>1. k \in DOMAIN ts /\ k.owner # Owner(t) /\ tuples'[k] = ts[k]
      BY <2>2 DEF Without, OwnedIn
    <3>2. mode # "single" /\ k \in DOMAIN tuples /\ ts[k] = tuples[k]
      BY <1>3, <3>1
    <3>3. /\ k.owner \in DOMAIN threads
          /\ tuples[k].maxCumul <= Reading(threads[k.owner].stack, Now(threads[k.owner]))
      BY <3>2 DEF Maxima
    <3>4. k.owner # t
      BY <3>1, <3>2 DEF Owner
    <3>5. k.owner \in DOMAIN threads' /\ threads'[k.owner] = threads[k.owner]
      BY <1>1, <3>3, <3>4
    <3> QED
      BY <3>1, <3>2, <3>3, <3>5
  <2>4. ASSUME NEW i \in DOMAIN printed', NEW p \in printed'[i].tuples
        PROVE  p[2].maxCumul <= (printed'[i].k + printed'[i].skipped) % ULongSpan
    <3>1. CASE i = n
      <4>1. p \in {<<k, ts[k]>> : k \in {k \in DOMAIN ts : k.owner = Owner(t)}}
        BY <2>2, <2>4, <3>1 DEF OwnedBy
      <4>2. PICK k \in DOMAIN ts : k.owner = Owner(t) /\ p = <<k, ts[k]>>
        BY <4>1
      <4>3. p[2] = ts[k]
        BY <4>2
      <4> QED
        BY <1>3, <2>1, <3>1, <4>2, <4>3
    <3>2. CASE i # n
      <4>1. i \in 1..Len(printed)
        BY <2>1, <2>2, <2>4, <3>2
      <4>2. i \in DOMAIN printed /\ printed'[i] = printed[i]
        BY <2>2, <4>1
      <4> QED
        BY <2>4, <4>2 DEF Maxima
    <3> QED
      BY <3>1, <3>2
  <2> QED
    BY <1>1, <2>3, <2>4 DEF Maxima
<1> QED
  BY <1>4, <1>5

\* What grows first to r and then to s.
LEMMA TickedGrows ==
  ASSUME Exact, NEW t \in Thread, t \in DOMAIN threads,
         NEW s, Comparable(s), Grows(t, Ticked(t), s)
  PROVE  Grows(t, Standing(t), s)
<1>1. Comparable(Standing(t)) /\ Comparable(Ticked(t))
  <2>1. Exiting(t, Standing(t)) /\ Exiting(t, Ticked(t))
    BY StandingOK, TickedOK DEF Exact
  <2> QED
    BY <2>1, ExitingComparable
<1>2. Grows(t, Standing(t), Ticked(t))
  BY TickGrows DEF Exact
<1> QED
  BY <1>1, <1>2, GrowsOn

LEMMA ContinueMaxima ==
  ASSUME Exact, Exact', Maxima, NEW t \in Thread, NEW n \in 0..MaxDepth, NEW sizes \in [1..n -> Size],
         Continue(t, n, sizes)
  PROVE  Maxima'
<1> DEFINE r == Ticked(t)
           s == ExitMany(t, r, n, sizes)
<1>1. t \in DOMAIN threads /\ n <= Len(threads[t].stack) /\ Block(t, s) /\ n \in Nat
  BY BoundsAssumption DEF Continue, Alive
<1>2. Exiting(t, r) /\ r.td.stack = threads[t].stack /\ IsFiniteSet(DOMAIN r.tuples)
  BY <1>1, TickedIs
<1> HIDE DEF r
<1>3. Exiting(t, s)
  BY <1>1, <1>2, ExitsKeep
<1>4. Grows(t, r, s)
  BY <1>1, <1>2, ExitsGrow
<1> HIDE DEF s
<1>5. Comparable(s)
  BY <1>3, ExitingComparable
<1>6. Grows(t, Standing(t), s)
  BY <1>1, <1>4, <1>5, TickedGrows DEF r
<1> QED
  BY <1>1, <1>5, <1>6, BlockMaxima

LEMMA CallMaxima ==
  ASSUME Exact, Exact', Maxima, NEW t \in Thread, NEW f \in Fn, Call(t, f)
  PROVE  Maxima'
<1> DEFINE r == Ticked(t)
           s == [r EXCEPT !.td = function_enter(@, f)]
<1>1. t \in DOMAIN threads /\ Len(threads[t].stack) < MaxDepth /\ Block(t, s)
  BY DEF Call, Alive
<1>2. Exiting(t, r) /\ r.td.stack = threads[t].stack
  BY <1>1, TickedIs
<1> HIDE DEF r
<1>3. Grows(t, r, s) /\ Comparable(s)
  <2>1. s = [r EXCEPT !.td = function_enter(@, f)] /\ Len(r.td.stack) < MaxDepth
    BY <1>1, <1>2
  <2> HIDE DEF s
  <2> QED
    BY <1>2, <2>1, CallGrows
<1> HIDE DEF s
<1>4. Grows(t, Standing(t), s)
  BY <1>1, <1>3, TickedGrows DEF r
<1> QED
  BY <1>1, <1>3, <1>4, BlockMaxima

LEMMA CallResolvedMaxima ==
  ASSUME Exact, Exact', Maxima, NEW t \in Thread, NEW f \in Fn, NEW size \in Size,
         CallResolved(t, f, size)
  PROVE  Maxima'
<1> DEFINE q == Ticked(t)
           r == ExitMany(t, q, 1, <<size>>)
           s == [r EXCEPT !.td = function_enter(@, f)]
<1>1. t \in DOMAIN threads /\ threads[t].stack # <<>> /\ Block(t, s)
  BY DEF CallResolved, Alive
<1>2. Exiting(t, q) /\ q.td.stack = threads[t].stack /\ IsFiniteSet(DOMAIN q.tuples)
  BY <1>1, TickedIs
<1>3. /\ Len(q.td.stack) \in Nat /\ 1 <= Len(q.td.stack) /\ Len(q.td.stack) <= MaxDepth
      /\ MaxDepth \in Nat
  <2>1. ThreadOK(mode, threads[t])
    BY <1>1 DEF Exact, IInv
  <2>2. Len(threads[t].stack) \in 1..MaxDepth
    BY <1>1, <2>1, TopOf
  <2> HIDE DEF q
  <2> QED
    BY <1>2, <2>2, BoundsAssumption
<1> HIDE DEF q
<1>4. Exiting(t, r) /\ Len(r.td.stack) = Len(q.td.stack) - 1 /\ Grows(t, q, r)
  <2>1. 1 \in Nat /\ 1 <= Len(q.td.stack) /\ <<size>> \in [1..1 -> Size]
    BY <1>3, OneSize
  <2>2. \A n \in Nat : \A sizes \in [1..n -> Size] : n <= Len(q.td.stack) =>
          LET v == ExitMany(t, q, n, sizes)
          IN  Exiting(t, v) /\ Len(v.td.stack) = Len(q.td.stack) - n
    BY <1>1, <1>2, ExitsKeep
  <2>3. \A n \in Nat : \A sizes \in [1..n -> Size] : n <= Len(q.td.stack) => Grows(t, q, ExitMany(t, q, n, sizes))
    BY <1>1, <1>2, ExitsGrow
  <2> QED
    BY <2>1, <2>2, <2>3
<1> HIDE DEF r
<1>5. Grows(t, r, s) /\ Comparable(s)
  <2>1. s = [r EXCEPT !.td = function_enter(@, f)] /\ Len(r.td.stack) < MaxDepth
    BY <1>3, <1>4
  <2> HIDE DEF s
  <2> QED
    BY <1>4, <2>1, CallGrows
<1> HIDE DEF s
<1>6. Grows(t, q, s)
  <2>1. Comparable(q) /\ Comparable(r)
    BY <1>2, <1>4, ExitingComparable
  <2> QED
    BY <1>4, <1>5, <2>1, GrowsOn
<1>7. Grows(t, Standing(t), s)
  BY <1>1, <1>5, <1>6, TickedGrows DEF q
<1> QED
  BY <1>1, <1>5, <1>7, BlockMaxima

LEMMA ThreadExitMaxima ==
  ASSUME Exact, Exact', Maxima, NEW t \in Thread, NEW n \in Nat,
         NEW sizes \in [1..n -> Size], ThreadExit(t, n, sizes)
  PROVE  Maxima'
<1> DEFINE q == Standing(t)
           r == ExitMany(t, q, n, sizes)
<1>1. t \in DOMAIN threads /\ n = Len(threads[t].stack)
  BY DEF ThreadExit, Alive
<1>2. Exiting(t, q) /\ q.td = threads[t] /\ q.tuples = tuples
  BY <1>1, StandingOK DEF Exact, Standing
<1>3. \E last \in BOOLEAN : Exited(t, r, Now(r.td), last)
  <2>1. r = ExitMany(t, [td |-> threads[t], tuples |-> tuples], n, sizes)
    BY DEF Standing
  <2> HIDE DEF r
  <2> QED
    BY <2>1, ExitEffects
<1>4. n <= Len(q.td.stack)
  BY <1>1, <1>2
<1>5. IsFiniteSet(DOMAIN q.tuples)
  BY <1>2 DEF Exact, Finite
<1> HIDE DEF q
<1>6. Exiting(t, r)
  BY <1>1, <1>2, <1>4, ExitsKeep
<1>7. Grows(t, q, r)
  BY <1>1, <1>2, <1>4, <1>5, ExitsGrow
<1> HIDE DEF r
<1>8. Comparable(r)
  BY <1>6, ExitingComparable
<1>9. PICK last \in BOOLEAN : Exited(t, r, Now(r.td), last)
  BY <1>3
<1> DEFINE now == Now(r.td)
<1>10. Exited(t, r, now, last)
  BY <1>9
<1> HIDE DEF now
<1> QED
  BY <1>7, <1>8, <1>10, ExitMaxima DEF q

LEMMA MaximaNext == Exact /\ Exact' /\ Maxima /\ [Next]_vars => Maxima'
<1>1. ASSUME Exact, Exact', Maxima, Next
      PROVE  Maxima'
  <2>1. PICK t \in Thread :
          \/ Start(t)
          \/ \E f \in Fn : Call(t, f) \/ \E size \in Size : CallResolved(t, f, size)
          \/ \E n \in 0..MaxDepth : \E sizes \in [1..n -> Size] :
               Continue(t, n, sizes) \/ ThreadExit(t, n, sizes)
    BY <1>1 DEF Next
  <2>2. CASE Start(t)
    <3>1. SpentSoFar' = SpentSoFar
      BY <1>1, <2>2, StartIs
    <3> QED
      BY <1>1, <2>2, <3>1, StartMaxima
  <2>3. ASSUME NEW f \in Fn, Call(t, f)
        PROVE  Maxima'
    BY <1>1, <2>3, CallMaxima
  <2>4. ASSUME NEW n \in 0..MaxDepth, NEW sizes \in [1..n -> Size], Continue(t, n, sizes)
        PROVE  Maxima'
    BY <1>1, <2>4, ContinueMaxima
  <2>5. ASSUME NEW size \in Size, NEW f \in Fn, CallResolved(t, f, size)
        PROVE  Maxima'
    BY <1>1, <2>5, CallResolvedMaxima
  <2>6. ASSUME NEW n \in 0..MaxDepth, NEW sizes \in [1..n -> Size], ThreadExit(t, n, sizes)
        PROVE  Maxima'
    <3>1. n \in Nat
      BY BoundsAssumption
    <3> QED
      BY <1>1, <2>6, <3>1, ThreadExitMaxima
  <2> QED
    BY <2>1, <2>2, <2>3, <2>4, <2>5, <2>6
<1>2. ASSUME Maxima, UNCHANGED vars
      PROVE  Maxima'
  <2>1. mode' = mode /\ threads' = threads /\ tuples' = tuples /\ extra' = extra
        /\ printed' = printed
    BY <1>2 DEF vars
  <2>2. SpentSum' = SpentSum
    BY <2>1 DEF SpentSum
  <2> QED
    BY <1>2, <2>1, <2>2 DEF Maxima
<1> QED
  BY <1>1, <1>2

\* No assertion of merge_tuple (merge.c) fails on a tuple of a report, and none is larger
\* than the maximum of the metric that generate_report prints, once the skipped cost that
\* it takes off twice is put back.
THEOREM TuplesPass == Spec => []TuplesPassMerge
<1>1. Init => Maxima
  BY DEF Init, Maxima
<1>2. Exact /\ Exact' /\ Maxima /\ [Next]_vars => Maxima'
  BY MaximaNext
<1>3. IInv /\ Maxima => TuplesPassMerge
  <2> SUFFICES ASSUME IInv, Maxima, NEW i \in DOMAIN printed, NEW p \in printed[i].tuples
               PROVE  /\ MergeAssertions(p[2])
                      /\ p[2].maxCumul <= (printed[i].k + printed[i].skipped) % ULongSpan
    BY DEF TuplesPassMerge
  <2>1. ReportOK(mode, printed[i])
    BY DEF IInv
  <2> QED
    BY <2>1 DEF ReportOK, Maxima
<1> QED
  BY CountsExact, Invariance, <1>1, <1>2, <1>3, PTL DEF Spec
=============================================================================
