---------------------------- MODULE RoutineCosts ----------------------------
(***************************************************************************)
(* Costs, input tuples, calling contexts and reports: the parts of         *)
(* function_enter and function_exit that CallStack and the profilers of    *)
(* input sizes leave out, with the counting of basic blocks, the calling   *)
(* context tree of cct.c and generate_report.  All costs are differences   *)
(* of two readings of a thread's clock, cost - skip_cost.                  *)
(*                                                                         *)
(* What a block does to the stack is CallStack's question, and the size an *)
(* activation ends with is the profilers': both are free here.             *)
(***************************************************************************)
EXTENDS Integers, Sequences, FiniteSets, SequencesExt, FiniteSetsExt, Functions

CONSTANTS Thread, Shared,   \* owners of tuples: one thread, or all of them
          Fn, Skipped, Discarded, DopeFn, Size,     \* as in RoutineTimes
          NoNode,           \* the NULL act->node
          Garbage,          \* a node that nobody has made
          StackSize,        \* STACK_SIZE, the slots that thread_start zeroes
          ULongSpan,        \* number of values of a ULong, 2^64
          MaxDepth,         \* bound on the depth of a stack
          MaxBlocks,        \* per mode: bound on the blocks started
          MaxThreads        \* per mode: bound on the threads with a report to come or printed

ASSUME FnAssumption == /\ Skipped \subseteq Fn /\ Discarded \subseteq Fn
                       /\ Skipped \cap Discarded = {}
ASSUME OwnerAssumption == Shared \notin Thread
ASSUME SizeAssumption == Size \subseteq Nat
ASSUME GarbageAssumption == Garbage \notin Fn
ASSUME BoundsAssumption == /\ ULongSpan \in Nat \ {0} /\ MaxDepth \in Nat /\ StackSize \in Nat
                           /\ \A m \in {"threads", "contexts", "single"} : MaxBlocks[m] \in Nat
\* No clock wraps, even if every block calls a doped routine that ends with the largest
\* input size.
ASSUME ClockAssumption ==
  \E worst \in Size :
    /\ \A size \in Size : size <= worst
    /\ \A m \in {"threads", "contexts", "single"} :
         MaxBlocks[m] * (1 + worst * worst) < ULongSpan

VARIABLES mode,     \* "contexts" is --collect-cct, "single" --single-log
          blocks,   \* how many blocks have started
          threads,  \* the ThreadData of the running threads
          tuples,   \* the input maps: from keys to tuples not yet printed
          extra,    \* runtime.extra_cost, and the skip_cost that is missing in it
          printed   \* the reports

vars == <<mode, blocks, threads, tuples, extra, printed>>

Measured == Fn \ (Skipped \cup Discarded)
Alive == DOMAIN threads

\* A node of the tree is the path of routines to it; the root is the empty one.
\* Its context_id is its position in the tree's sequence, as nodes are numbered
\* when they are made and stay.  What hangs from an uninitialised pointer is a path from
\* Garbage, in no tree.
Context == UNION {[1..n -> Measured \cup {Garbage}] : n \in 0..MaxDepth}
NoContext == <<>>
IsStray(context) == context # NoContext /\ context[1] = Garbage
ASSUME NoNodeAssumption == NoNode \notin Context

Key == [owner : Thread \cup {Shared}, fn : Measured, size : Size, context : Context]

\* sqr_cumulative_cost and sqr_self_cost go with the sums.
Tuple == [calls : Nat, sumCumul : Nat, minCumul : Nat, maxCumul : Nat,
          sumSelf : Nat, minSelf : Nat, maxSelf : Nat, real : Nat]

ThreadData ==
  [cost : Nat, skip : Nat, skipCost : Nat,
   stack : Seq([fn : Fn, start : Nat, children : Nat]),
   node : [1..MaxDepth -> Context \cup {NoNode}],   \* outlives the activation
   pending : [Fn -> Nat],                           \* recursion_pending
   tree : Seq(Context)]

Report == [k : 0..(ULongSpan - 1), skipped : Nat, tuples : SUBSET (Key \X Tuple),
           tree : Seq(Context)]

IsMap(m, S, T) == DOMAIN m \subseteq S /\ \A x \in DOMAIN m : m[x] \in T

TypeOK ==
  /\ mode \in {"threads", "contexts", "single"} /\ blocks \in 0..MaxBlocks[mode]
  /\ IsMap(threads, Thread, ThreadData) /\ IsMap(tuples, Key, Tuple)
  /\ \A t \in Alive : Len(threads[t].stack) <= MaxDepth
  /\ extra \in [cost : 0..(ULongSpan - 1), skipped : Nat]
  /\ \A i \in DOMAIN printed :
       /\ DOMAIN printed[i] = {"k", "skipped", "tuples", "tree"}
       /\ printed[i].k \in 0..(ULongSpan - 1)
       /\ \A p \in printed[i].tuples : p[1] \in Key /\ p[2] \in Tuple

\* What a thread finds in its slots.  The first are zeroed (thread.c:46); those that
\* resize_stack adds hold what realloc returns: zero, or anything.  Only --collect-cct
\* reads it.
FirstNodes ==
  {node \in [1..MaxDepth -> {NoNode, <<Garbage>>}] :
     \A d \in 1..MaxDepth : node[d] # NoNode => d > StackSize /\ mode = "contexts"}

NewThread(node) ==
  [cost |-> 0, skip |-> 0, skipCost |-> 0, stack |-> <<>>, node |-> node,
   pending |-> [f \in Fn |-> 0], tree |-> <<>>]

Init ==
  /\ mode \in {"threads", "contexts", "single"}
  /\ blocks = 0 /\ threads = <<>> /\ tuples = <<>> /\ printed = <<>>
  /\ extra = [cost |-> 0, skipped |-> 0]

-----------------------------------------------------------------------------
(* Tuples.                                                                 *)

Owner(t) == IF mode = "single" THEN Shared ELSE t

\* One more call is added to a tuple.
Added(tuple, cumul, self, outermost) ==
  [calls |-> tuple.calls + 1,
   sumCumul |-> tuple.sumCumul + cumul,
   minCumul |-> Min({tuple.minCumul, cumul}), maxCumul |-> Max({tuple.maxCumul, cumul}),
   sumSelf |-> tuple.sumSelf + self,
   minSelf |-> Min({tuple.minSelf, self}), maxSelf |-> Max({tuple.maxSelf, self}),
   real |-> tuple.real + IF outermost THEN cumul ELSE 0]

NewTuple == [calls |-> 0, sumCumul |-> 0, minCumul |-> ULongSpan - 1, maxCumul |-> 0,
             sumSelf |-> 0, minSelf |-> ULongSpan - 1, maxSelf |-> 0, real |-> 0]

File(ts, key, cumul, self, outermost) ==
  [k \in DOMAIN ts \cup {key} |->
     IF k # key THEN ts[k]
     ELSE Added(IF k \in DOMAIN ts THEN ts[k] ELSE NewTuple, cumul, self, outermost)]

-----------------------------------------------------------------------------
(* function_enter and function_exit.                                       *)

\* time().
Now(td) == td.cost - td.skipCost

\* parent_CCT of the activation at this depth: the nearest node below it.
\* (A plausible bug: it may be its own, left there by an earlier activation.)
OwnSlotToo(td, depth) ==
  LET nodes == {d \in 1..depth : td.node[d] # NoNode}
  IN  IF nodes = {} THEN NoContext ELSE td.node[Max(nodes)]
parent_CCT(td, depth) ==
  LET nodes == {d \in 1..(depth - 1) : td.node[d] # NoNode}
  IN  IF nodes = {} THEN NoContext ELSE td.node[Max(nodes)]

\* A plausible bug: a new node is not linked to its siblings, and they are lost.
EnterContextUnlinked(td, f) ==
  LET depth == Len(td.stack)
      node == Append(parent_CCT(td, depth), f)
  IN  IF mode # "contexts" \/ f \in Discarded THEN td
      ELSE [td EXCEPT !.node[depth] = node,
                      !.tree = IF node \in Range(@) \/ IsStray(node) THEN @
                               ELSE Append(SelectSeq(@, LAMBDA c : ~IsStrictPrefix(Front(node), c)),
                                           node)]

\* The activation on top gets its node; a discarded routine's keeps what it finds.  A child
\* of a stray node is linked to memory that print_report_CCT never visits.
EnterContext(td, f) ==
  LET depth == Len(td.stack)
      node == Append(parent_CCT(td, depth), f)
  IN  IF mode # "contexts" \/ f \in Discarded THEN td
      ELSE [td EXCEPT !.node[depth] = node,
                      !.tree = IF node \in Range(@) \/ IsStray(node) THEN @
                               ELSE Append(@, node)]

\* A plausible bug: a discarded routine has no tuples, and is not counted as pending.
EnterOfMeasured(td, f) ==
  LET pushed == [td EXCEPT !.stack =
                   Append(@, [fn |-> f, start |-> Now(td), children |-> 0])]
  IN  IF f \in Skipped THEN [pushed EXCEPT !.skip = @ + 1]
      ELSE IF td.skip > 0 \/ f \in Discarded THEN pushed
      ELSE EnterContext([pushed EXCEPT !.pending[f] = @ + 1], f)

function_enter(td, f) ==
  LET pushed == [td EXCEPT !.stack =
                   Append(@, [fn |-> f, start |-> Now(td), children |-> 0])]
  IN  IF f \in Skipped THEN [pushed EXCEPT !.skip = @ + 1]
      ELSE IF td.skip > 0 THEN pushed
      ELSE EnterContext([pushed EXCEPT !.pending[f] = @ + 1], f)

Pop(td) == [td EXCEPT !.stack = Front(@)]

\* The parent learns what its child has cost.  (A plausible bug: not from a discarded
\* child.)
PopMeasuredOnly(td, cumul) ==
  LET rest == Front(td.stack)
  IN  [td EXCEPT !.stack = IF rest = <<>> \/ Last(td.stack).fn \in Discarded THEN rest
                           ELSE [rest EXCEPT ![Len(rest)].children = @ + cumul]]
PopIntoParent(td, cumul) ==
  LET rest == Front(td.stack)
  IN  [td EXCEPT !.stack = IF rest = <<>> THEN rest
                           ELSE [rest EXCEPT ![Len(rest)].children = @ + cumul]]

\* recursion_pending--.  (A plausible bug: a discarded routine has no tuple to
\* file, and its exit is not counted.)
ExitOfMeasured(td, f) ==
  IF f \in Discarded THEN td ELSE [td EXCEPT !.pending[f] = @ - 1]
ExitOf(td, f) == [td EXCEPT !.pending[f] = @ - 1]

\* The exit of thread t's top activation with this input size; r holds what changes.
function_exit(t, r, size) ==
  LET act == Last(r.td.stack)
      doped == IF act.fn \in DopeFn THEN [r.td EXCEPT !.cost = @ + size * size] ELSE r.td
      cumul == Now(doped) - act.start
      left == ExitOf(doped, act.fn)
      context == IF mode = "contexts" THEN doped.node[Len(doped.stack)] ELSE NoContext
      key == [owner |-> Owner(t), fn |-> act.fn, size |-> size, context |-> context]
  IN  IF doped.skip > 0
      THEN [r EXCEPT !.td = Pop(IF act.fn \in Skipped
                                THEN [doped EXCEPT !.skip = @ - 1, !.skipCost = @ + cumul]
                                ELSE doped)]
      ELSE [td |-> PopIntoParent(left, cumul),
            tuples |-> IF act.fn \in Discarded THEN r.tuples
                       ELSE File(r.tuples, key, cumul, cumul - act.children,
                                 left.pending[act.fn] < 1)]

\* pop_stack and unwind_stack: n exits, each with the size of its activation.
ExitMany(t, r, n, sizes) ==
  LET exits[k \in 0..n] == IF k = 0 THEN r ELSE function_exit(t, exits[k - 1], sizes[k])
  IN  exits[n]

-----------------------------------------------------------------------------
(* The steps.                                                              *)

\* thread_start, as long as the process has not ended.
Start(t) ==
  /\ t \notin Alive /\ (Alive # {} \/ printed = <<>>)
  /\ Len(printed) + Cardinality(Alive) < MaxThreads[mode]
  /\ \E node \in FirstNodes :
       threads' = [u \in Alive \cup {t} |-> IF u = t THEN NewThread(node) ELSE threads[u]]
  /\ UNCHANGED <<mode, blocks, tuples, extra, printed>>

\* BB_start: the block is counted before anything else, so that the first block of a
\* routine is paid by its caller, and the first one after its return by itself.
Ticked(t) == [td |-> [threads[t] EXCEPT !.cost = @ + 1], tuples |-> tuples]

Block(t, r) ==
  /\ t \in Alive /\ blocks < MaxBlocks[mode]
  /\ blocks' = blocks + 1
  /\ threads' = [threads EXCEPT ![t] = r.td]
  /\ tuples' = r.tuples
  /\ UNCHANGED <<mode, extra, printed>>

\* The block continues a routine after n returns.
Continue(t, n, sizes) ==
  /\ t \in Alive /\ n <= Len(threads[t].stack)
  /\ Block(t, ExitMany(t, Ticked(t), n, sizes))

\* It enters f.
Call(t, f) ==
  /\ t \in Alive /\ Len(threads[t].stack) < MaxDepth
  /\ LET r == Ticked(t) IN Block(t, [r EXCEPT !.td = function_enter(@, f)])

\* It enters f from dl_runtime_resolve, which is left first.
CallResolved(t, f, size) ==
  /\ t \in Alive /\ threads[t].stack # <<>> /\ Last(threads[t].stack).fn \in Skipped
  /\ LET r == ExitMany(t, Ticked(t), 1, <<size>>)
     IN  Block(t, [r EXCEPT !.td = function_enter(@, f)])

\* The cost that generate_report prints: skip_cost is taken off twice, here and in time().
CostOfThread(td) == (Now(td) - td.skipCost) % ULongSpan

OwnedBy(ts, owner) == {<<key, ts[key]>> : key \in {k \in DOMAIN ts : k.owner = owner}}

Without(m, S) == [x \in DOMAIN m \ S |-> m[x]]

\* A plausible bug: each thread's own cost is printed, not the sum.
ExtraOfLast(td) == [cost |-> CostOfThread(td), skipped |-> extra.skipped + td.skipCost]
ExtraWith(td) == [cost |-> (extra.cost + CostOfThread(td)) % ULongSpan,
                  skipped |-> extra.skipped + td.skipCost]

\* thread_exit: unwind_stack, then generate_report; in a single report the last thread's
\* exit prints for all.
ThreadExit(t, n, sizes) ==
  /\ t \in Alive /\ n = Len(threads[t].stack)
  /\ LET r == ExitMany(t, [td |-> threads[t], tuples |-> tuples], n, sizes)
         total == IF mode = "single" THEN ExtraWith(r.td)
                  ELSE [cost |-> CostOfThread(r.td), skipped |-> r.td.skipCost]
         last == mode # "single" \/ Alive = {t}
         mine == {k \in DOMAIN r.tuples : last /\ k.owner = Owner(t)}
     IN  /\ threads' = Without(threads, {t})
         /\ tuples' = Without(r.tuples, mine)
         /\ extra' = IF mode = "single" THEN total ELSE extra
         /\ printed' = IF ~last THEN printed
                       ELSE Append(printed, [k |-> total.cost, skipped |-> total.skipped,
                                             tuples |-> OwnedBy(r.tuples, Owner(t)),
                                             tree |-> r.td.tree])
  /\ UNCHANGED <<mode, blocks>>

Next ==
  \E t \in Thread :
    \/ Start(t)
    \/ \E f \in Fn : Call(t, f) \/ \E size \in Size : CallResolved(t, f, size)
    \/ \E n \in 0..MaxDepth : \E sizes \in [1..n -> Size] :
         Continue(t, n, sizes) \/ ThreadExit(t, n, sizes)

Spec == Init /\ [][Next]_vars

-----------------------------------------------------------------------------
(* The meaning of what has been counted so far.                            *)

Stacks == [t \in Thread |-> IF t \in Alive THEN [i \in DOMAIN threads[t].stack |->
                                                   threads[t].stack[i].fn] ELSE <<>>]

\* The activations that are being timed: those below the first skipped one.
Timed(t) == {i \in DOMAIN Stacks[t] : \A j \in 1..i : Stacks[t][j] \notin Skipped}

\* Where thread t's clock stands: it stopped when a skipped routine was entered.
Clock(t) == LET td == threads[t] IN
            IF Cardinality(Timed(t)) < Len(td.stack)
            THEN td.stack[Cardinality(Timed(t)) + 1].start ELSE Now(td)

LiveSelf(t, i) ==
  LET st == threads[t].stack
  IN  (IF i + 1 \in DOMAIN st THEN st[i + 1].start ELSE Clock(t))
        - st[i].start - st[i].children

Outermost(t, f) == {i \in Timed(t) : /\ Stacks[t][i] = f
                                     /\ \A j \in 1..(i - 1) : Stacks[t][j] # f}

PrintedTuples == UNION {{<<i, p[1], p[2]>> : p \in printed[i].tuples} : i \in DOMAIN printed}

SumOf(f) == MapThenSumSet(LAMBDA x : f[x], DOMAIN f)

\* What the tuples of f add up to, printed or not.
Filed(f, field) ==
  SumOf([k \in {k \in DOMAIN tuples : k.fn = f} |-> tuples[k][field]])
  + SumOf([p \in {p \in PrintedTuples : p[2].fn = f} |-> p[3][field]])

\* What the activations of f on thread t's stack have cost.
SelfOnStack(t, f) == SumOf([i \in {i \in Timed(t) : Stacks[t][i] = f} |-> LiveSelf(t, i)])
RealOnStack(t, f) == SumOf([i \in Outermost(t, f) |-> Clock(t) - threads[t].stack[i].start])

SelfSoFar ==
  [f \in Measured |-> Filed(f, "sumSelf") + SumOf([t \in Alive |-> SelfOnStack(t, f)])]

RealSoFar ==
  [f \in Measured |-> Filed(f, "real") + SumOf([t \in Alive |-> RealOnStack(t, f)])]

\* The printed maxima, each with the skipped cost that it lacks.
SpentSoFar ==
  SumOf([t \in Alive |-> Clock(t)])
  + (IF mode = "single" /\ printed = <<>> THEN (extra.cost + extra.skipped) % ULongSpan ELSE 0)
  + SumOf([i \in DOMAIN printed |-> (printed[i].k + printed[i].skipped) % ULongSpan])

Times == INSTANCE RoutineTimes
           WITH stack <- Stacks, self <- SelfSoFar, real <- RealSoFar, spent <- SpentSoFar

\* Differences of clock readings, carried from child to parent, with skipped and
\* discarded routines, recursion, doping and tuples shared between threads, add up to
\* what RoutineTimes says: every unit of time is some routine's self cost once, and the
\* real cost of each routine on the stack once ("real cumulative cost", function.c:249).
\* The printed maximum lacks the skipped cost once more (report.c:260).
RefinesRoutineTimes == Times!Spec

\* The counters that function_exit relies on agree with the stack, whatever the order in
\* which threads, skipped and discarded routines are entered and left: a stray skip would
\* silence the profiler for good, a stray recursion_pending drop all real costs.
CountersMatchStack ==
  \A t \in Alive :
    /\ threads[t].skip = Cardinality({i \in DOMAIN Stacks[t] : Stacks[t][i] \in Skipped})
    /\ \A f \in Fn : threads[t].pending[f] = Cardinality({i \in Timed(t) : Stacks[t][i] = f})

\* Every activation of a measured routine is filed under the chain of its callers, as
\* long as none of them is discarded.
ContextsAreCallers ==
  mode = "contexts" =>
    \A t \in Alive : \A i \in Timed(t) :
      (\A j \in 1..i : Stacks[t][j] \notin Discarded) =>
        threads[t].node[i] = SubSeq(Stacks[t], 1, i)

\* The 'q' lines of a report name contexts of the routine of the tuple.  Its 'x' lines
\* define every one of them that does not hang from an uninitialised pointer, and no
\* other; and the parent of each context that they define is defined too, or is the root.
ReportsDefineTheirContexts ==
  mode = "contexts" =>
    \A i \in DOMAIN printed :
      /\ \A p \in printed[i].tuples :
           /\ Last(p[1].context) = p[1].fn
           /\ p[1].context \in Range(printed[i].tree) <=> ~ IsStray(p[1].context)
      /\ \A c \in Range(printed[i].tree) : Front(c) \in Range(printed[i].tree) \cup {NoContext}

\* What merge_tuple asserts of a tuple (merge.c:496-541).
MergeAssertions(v) ==
  /\ v.calls > 0
  /\ v.minCumul <= v.maxCumul /\ v.maxCumul <= v.sumCumul
  /\ v.minCumul * v.calls <= v.sumCumul
  /\ v.real <= v.sumCumul
  /\ v.minSelf <= v.minCumul /\ v.maxSelf <= v.maxCumul /\ v.sumSelf <= v.sumCumul
  /\ v.minSelf <= v.maxSelf /\ v.maxSelf <= v.sumSelf
  /\ v.minSelf * v.calls <= v.sumSelf

\* The tuples of a report pass the assertions of merge_tuple; and no activation costs more
\* than the maximum of the metric (report.c:106), once what report.c:260 takes off is put
\* back.
TuplesPassMerge ==
  \A i \in DOMAIN printed : \A p \in printed[i].tuples :
    /\ MergeAssertions(p[2])
    /\ p[2].maxCumul <= (printed[i].k + printed[i].skipped) % ULongSpan
=============================================================================
