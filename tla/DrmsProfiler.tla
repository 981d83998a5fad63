---------------------------- MODULE DrmsProfiler ----------------------------
(***************************************************************************)
(* All threads of aprof in the DRMS metric.  They share the global counter *)
(* and the global shadow memory, which holds for each cell the time of its *)
(* last write; a thread's own shadow memory holds the time of its last     *)
(* access.  Valgrind runs one thread at a time, so every helper call is    *)
(* one step; threads interleave at any of them (thread_switch).            *)
(*                                                                         *)
(* When the counter reaches MAX_COUNT_VAL, overflow_handler_drms renumbers *)
(* the pending activations of all threads and LK_compress_drms rewrites    *)
(* every timestamp against them.                                           *)
(***************************************************************************)
EXTENDS Integers, FiniteSets

CONSTANTS Thread,     \* thread ids
          NoThread,   \* VG_INVALID_THREADID
          Cell,       \* memory cells
          Segments,   \* a partition of Cell: the cells of one lookup-table chunk
          Routine,    \* the routines of the profiled program
          Skipped,    \* those with fn->skip set (_dl_runtime_resolve)
          MaxDepth,   \* MAX_STACK_SIZE
          MaxCount    \* MAX_COUNT_VAL

ASSUME SetsAssumption == /\ IsFiniteSet(Cell) /\ IsFiniteSet(Thread)
                         /\ NoThread \notin Thread
ASSUME SegmentsAssumption == /\ UNION Segments = Cell
                             /\ \A s, r \in Segments : s # r => s \cap r = {}
ASSUME RoutinesAssumption == Routine # {} /\ Skipped \subseteq Routine
ASSUME CountAssumption == /\ MaxDepth \in Nat \ {0} /\ MaxCount \in Nat
                          /\ 3 * (Cardinality(Thread) * MaxDepth + 2) < MaxCount

VARIABLES counter,    \* runtime.global_counter
          global,     \* runtime.global_shadow_memory: cell -> time of the last write
          gchunks,    \* the cells whose chunk of it is allocated
          current,    \* runtime.current_TID
          alive,      \* the threads with a ThreadData
          depth,      \* per thread: stack_depth
          stack,      \*   the slots of the activation stack, used and stale ones
          skip,       \*   how many skipped routines are open
          local,      \*   shadow_memory: cell -> time of its last access
          chunks,     \*   the cells whose chunk of it is allocated
          filed,      \* the input sizes filed by the last exit, innermost first
          corrupt     \* a renumbering met activation ids out of order

threadVars == <<depth, stack, skip, local, chunks>>
vars == <<counter, global, gchunks, current, alive, threadVars, filed, corrupt>>

Slot == 1..MaxDepth
Time == 0..(MaxCount - 1)

Activation == [fn : Routine, aid : Time, input : Int, dynamic : Nat]

\* A calloc'ed slot; its routine is read only after push_stack has set it.  (Of a slot that
\* resize_stack adds, the id may be anything; only an overflow out of order reads it.)
EmptySlot == [fn |-> CHOOSE f \in Routine : TRUE, aid |-> 0, input |-> 0, dynamic |-> 0]

EmptyStack == [d \in Slot |-> EmptySlot]

Untouched == [c \in Cell |-> 0]

TypeOK ==
  /\ counter \in 1..(MaxCount - 1)
  /\ global \in [Cell -> Time] /\ gchunks \subseteq Cell
  /\ current \in Thread \cup {NoThread}
  /\ alive \subseteq Thread
  /\ depth \in [Thread -> 0..MaxDepth]
  /\ stack \in [Thread -> [Slot -> Activation]]
  /\ skip \in [Thread -> Nat]
  /\ local \in [Thread -> [Cell -> Time]] /\ chunks \in [Thread -> SUBSET Cell]
  /\ corrupt \in BOOLEAN

Init ==
  /\ counter = 1
  /\ global = Untouched /\ gchunks = {}
  /\ current = NoThread
  /\ alive = {}
  /\ depth = [t \in Thread |-> 0]
  /\ stack = [t \in Thread |-> EmptyStack]
  /\ skip = [t \in Thread |-> 0]
  /\ local = [t \in Thread |-> Untouched] /\ chunks = [t \in Thread |-> {}]
  /\ filed = <<>>
  /\ corrupt = FALSE

\* The cells of the chunks that hold `cells`.
ChunksOf(cells) == UNION {s \in Segments : s \cap cells # {}}

-----------------------------------------------------------------------------
(* The counter and its renumbering.                                        *)

\* The slots on the stacks of all threads, and the timestamps they carry.
Pending == {p \in Thread \X Slot : p[2] <= depth[p[1]]}
IdOf(p) == stack[p[1]][p[2]].aid
ActiveTs == {IdOf(p) : p \in Pending}

\* overflow_handler_drms merges the stacks from their tops, which sorts the ids when
\* each stack is sorted and no id occurs twice.
InOrder ==
  /\ \A p \in Pending : IdOf(p) > 0
  /\ \A p, q \in Pending : p # q => IdOf(p) # IdOf(q)
  /\ \A p, q \in Pending : p[1] = q[1] /\ p[2] < q[2] => IdOf(p) < IdOf(q)

\* binary_search: the index in {0} \cup ActiveTs, sorted, of the largest member <= ts.
Index(ts) == Cardinality({a \in ActiveTs : a <= ts})

\* LK_compress_drms, for a cell of an allocated chunk: the last write at time g and the
\* last access of one thread at time l.
CompressedWrite(g) == 3 * Index(g) + 1
\* (A plausible bug: a thread's own last write is treated as somebody else's.)
CompressedAccessTied(g, l) ==
  IF Index(l) # Index(g) THEN 3 * Index(l)
  ELSE 3 * Index(g) + (IF l <= g THEN 0 ELSE 2)
CompressedAccess(g, l) ==
  IF Index(l) # Index(g) THEN 3 * Index(l)
  ELSE 3 * Index(g) + (IF l < g THEN 0 ELSE IF l = g THEN 1 ELSE 2)

\* A plausible bug: the counter restarts at the id of the newest activation.
RenumberedCountTight == 3 * Cardinality(Pending)

\* overflow_handler_drms: the state it leaves.
RenumberedCount == 3 * (Cardinality(Pending) + 2)
RenumberedStack ==
  [t \in Thread |-> [d \in Slot |->
     IF d <= depth[t] THEN [stack[t][d] EXCEPT !.aid = 3 * Index(@)] ELSE stack[t][d]]]
RenumberedGlobal ==
  [c \in Cell |-> IF c \in gchunks THEN CompressedWrite(global[c]) ELSE 0]
RenumberedLocal ==
  [t \in Thread |-> [c \in Cell |->
     IF c \in chunks[t] THEN CompressedAccess(global[c], local[t][c]) ELSE 0]]

\* Incrementing the counter (increase_global_counter and function_enter).
Wraps == counter + 1 = MaxCount
CanTick == ~ corrupt /\ (Wraps => InOrder)
\* A plausible bug: nobody tests the counter for its limit.
TickedUntested == counter + 1
Ticked       == IF Wraps THEN RenumberedCount  ELSE counter + 1
TickedStack  == IF Wraps THEN RenumberedStack  ELSE stack
TickedGlobal == IF Wraps THEN RenumberedGlobal ELSE global
TickedLocal  == IF Wraps THEN RenumberedLocal  ELSE local

\* The renumbering of ids that are not in order: binary_search then fails its assertion
\* or misplaces a timestamp, and act_max may be NULL.  What follows is not modelled.
RenumberOutOfOrder ==
  /\ ~ corrupt /\ Wraps /\ ~ InOrder
  /\ corrupt' = TRUE
  /\ UNCHANGED <<counter, global, gchunks, current, alive, threadVars, filed>>

-----------------------------------------------------------------------------
(* Threads.                                                                *)

\* thread_create -> thread_start.
Create(t) ==
  /\ ~ corrupt
  /\ t \notin alive
  /\ alive' = alive \cup {t}
  /\ UNCHANGED <<counter, global, gchunks, current, threadVars, filed, corrupt>>

\* thread_switch; a thread not seen yet is started.
Switch(t) ==
  /\ t # current
  /\ CanTick
  /\ counter' = Ticked
  /\ stack' = TickedStack /\ global' = TickedGlobal /\ local' = TickedLocal
  /\ alive' = alive \cup {t}
  /\ current' = t
  /\ UNCHANGED <<gchunks, depth, skip, chunks, filed, corrupt>>

\* A plausible bug: unwinding files the skipped activations too.
LiveDepthWithSkipped(t) == depth[t]

\* The activations that count: the bottom ones, up to the first skipped routine.
LiveDepth(t) ==
  IF skip[t] = 0 THEN depth[t]
  ELSE CHOOSE n \in 0..(depth[t] - 1) : /\ stack[t][n + 1].fn \in Skipped
                                        /\ \A d \in 1..n : stack[t][d].fn \notin Skipped

\* What unwind_stack files: each activation has received its callees' inputs by then.
UnwoundInputs(t) ==
  LET n == LiveDepth(t)
      total[d \in 1..n] == stack[t][d].input + IF d < n THEN total[d + 1] ELSE 0
  IN  [k \in 1..n |-> total[n + 1 - k]]

\* thread_exit: unwind_stack, then the ThreadData is freed.
ThreadExit(t) ==
  /\ ~ corrupt
  /\ t \in alive
  /\ filed' = UnwoundInputs(t)
  /\ alive' = alive \ {t}
  /\ depth' = [depth EXCEPT ![t] = 0]
  /\ stack' = [stack EXCEPT ![t] = EmptyStack]
  /\ skip' = [skip EXCEPT ![t] = 0]
  /\ local' = [local EXCEPT ![t] = Untouched]
  /\ chunks' = [chunks EXCEPT ![t] = {}]
  /\ current' = NoThread
  /\ UNCHANGED <<counter, global, gchunks, corrupt>>

-----------------------------------------------------------------------------
(* Memory accesses.                                                        *)

\* Of a read of `cells` by a thread with stack st of depth n, last accesses loc and last
\* writes glo: the cells another thread or the kernel has written since ...
Dynamic(loc, glo, cells) == {c \in cells : loc[c] < glo[c]}

\* (A plausible bug: a dynamic read that is also a first read counts twice.)
FreshOrDynamic(st, n, loc, glo, cells) == {c \in cells : loc[c] < st[n].aid}

\* ... those among the others that are new to the current activation ...
Fresh(st, n, loc, glo, cells) ==
  {c \in cells \ Dynamic(loc, glo, cells) : loc[c] < st[n].aid}

\* ... and, by get_activation_by_aid, the fresh ones activation d had counted until now.
TakenFrom(d, st, n, loc, glo, cells) ==
  {c \in Fresh(st, n, loc, glo, cells) :
     /\ loc[c] > 0 /\ loc[c] >= st[1].aid
     /\ st[d].aid <= loc[c]
     /\ \A e \in (d + 1)..(n - 1) : st[e].aid > loc[c]}

\* The stack after the read.
Charged(st, n, loc, glo, cells) ==
  LET dynamic == Cardinality(Dynamic(loc, glo, cells))
  IN  [d \in Slot |->
         IF d = n
         THEN [st[d] EXCEPT !.input   = @ + dynamic + Cardinality(Fresh(st, n, loc, glo, cells)),
                            !.dynamic = @ + dynamic]
         ELSE IF d < n
         THEN [st[d] EXCEPT !.input = @ - Cardinality(TakenFrom(d, st, n, loc, glo, cells))]
         ELSE st[d]]

\* The timestamps `tab` after the cells are stamped with the time `now`.
Stamped(tab, cells, now) == [c \in Cell |-> IF c \in cells THEN now ELSE tab[c]]

Running(t) == ~ corrupt /\ t # NoThread

Counts(t) == depth[t] > 0 /\ skip[t] = 0

\* trace_access_drms on the cells of one access of the current thread.
Access(type, cells) ==
  LET t == current
  IN  /\ Running(t) /\ Counts(t)
      /\ local' = [local EXCEPT ![t] = Stamped(@, cells, counter)]
      /\ chunks' = [chunks EXCEPT ![t] = @ \cup ChunksOf(cells)]
      /\ stack' = IF type = "store" THEN stack
                  ELSE [stack EXCEPT ![t] = Charged(@, depth[t], local[t], global, cells)]
      /\ IF type = "load"
         THEN UNCHANGED <<global, gchunks>>
         ELSE /\ global' = Stamped(global, cells, counter)
              /\ gchunks' = gchunks \cup ChunksOf(cells)
      /\ UNCHANGED <<counter, current, alive, depth, skip, filed, corrupt>>

\* A plausible bug: the kernel writes at the time of the thread's last accesses.
SyscallStoreUntimed(t, cells) ==
  /\ CanTick
  /\ counter' = IF t # current THEN Ticked ELSE counter
  /\ stack' = IF t # current THEN TickedStack ELSE stack
  /\ local' = IF t # current THEN TickedLocal ELSE local
  /\ LET glo == IF t # current THEN TickedGlobal ELSE global
     IN  IF Counts(t)
         THEN global' = Stamped(glo, cells, counter') /\ gchunks' = gchunks \cup ChunksOf(cells)
         ELSE global' = glo /\ UNCHANGED gchunks
  /\ alive' = alive \cup {t}
  /\ current' = t
  /\ UNCHANGED <<depth, skip, chunks, filed, corrupt>>

\* post_syscall of a call that fills `cells` (read, readv, msgrcv, mmap): a switch to the
\* thread or else an increment of the counter, then stores by the kernel.
SyscallStore(t, cells) ==
  /\ CanTick
  /\ counter' = Ticked
  /\ stack' = TickedStack /\ local' = TickedLocal
  /\ IF Counts(t)
     THEN global' = Stamped(TickedGlobal, cells, Ticked) /\ gchunks' = gchunks \cup ChunksOf(cells)
     ELSE global' = TickedGlobal /\ UNCHANGED gchunks
  /\ alive' = alive \cup {t}
  /\ current' = t
  /\ UNCHANGED <<depth, skip, chunks, filed, corrupt>>

\* post_syscall of a call that reads `cells` (write, writev, msgsnd) when Valgrind has not
\* announced the switch to its thread; otherwise it is a load.
SyscallLoad(t, cells) ==
  /\ t # current
  /\ CanTick
  /\ counter' = Ticked
  /\ global' = TickedGlobal
  /\ IF Counts(t)
     THEN /\ stack' = [TickedStack EXCEPT
                         ![t] = Charged(@, depth[t], TickedLocal[t], TickedGlobal, cells)]
          /\ local' = [TickedLocal EXCEPT ![t] = Stamped(@, cells, Ticked)]
          /\ chunks' = [chunks EXCEPT ![t] = @ \cup ChunksOf(cells)]
     ELSE stack' = TickedStack /\ local' = TickedLocal /\ UNCHANGED chunks
  /\ alive' = alive \cup {t}
  /\ current' = t
  /\ UNCHANGED <<gchunks, depth, skip, filed, corrupt>>

-----------------------------------------------------------------------------
(* Calls and returns of the current thread.                                *)

\* push_stack and function_enter of a skipped routine, or inside one: the slot keeps the
\* id of the activation it held before.
EnterSkipped(f) ==
  LET t == current
  IN  /\ Running(t) /\ depth[t] < MaxDepth
      /\ f \in Skipped \/ skip[t] > 0
      /\ depth' = [depth EXCEPT ![t] = @ + 1]
      /\ stack' = [stack EXCEPT ![t][depth[t] + 1].fn = f]
      /\ skip' = IF f \in Skipped THEN [skip EXCEPT ![t] = @ + 1] ELSE skip
      /\ UNCHANGED <<counter, global, gchunks, current, alive, local, chunks, filed, corrupt>>

\* A plausible bug: after an overflow the new activation keeps the old count as its id.
EnterOldCount(f) ==
  LET t == current
  IN  /\ Running(t) /\ depth[t] < MaxDepth
      /\ f \notin Skipped /\ skip[t] = 0
      /\ CanTick
      /\ counter' = Ticked
      /\ stack' = [TickedStack EXCEPT ![t][depth[t] + 1] =
                     [fn |-> f, aid |-> counter + 1, input |-> 0, dynamic |-> 0]]
      /\ global' = TickedGlobal /\ local' = TickedLocal
      /\ depth' = [depth EXCEPT ![t] = @ + 1]
      /\ UNCHANGED <<gchunks, current, alive, skip, chunks, filed, corrupt>>

\* push_stack and function_enter otherwise.  The handler runs with the depth lowered, so
\* the new activation is not renumbered: it takes the restarted counter as its id.
Enter(f) ==
  LET t == current
  IN  /\ Running(t) /\ depth[t] < MaxDepth
      /\ f \notin Skipped /\ skip[t] = 0
      /\ CanTick
      /\ counter' = Ticked
      /\ stack' = [TickedStack EXCEPT ![t][depth[t] + 1] =
                     [fn |-> f, aid |-> Ticked, input |-> 0, dynamic |-> 0]]
      /\ global' = TickedGlobal /\ local' = TickedLocal
      /\ depth' = [depth EXCEPT ![t] = @ + 1]
      /\ UNCHANGED <<gchunks, current, alive, skip, chunks, filed, corrupt>>

\* A plausible bug: every exit under a skipped routine ends the skipping.
ExitSkippedAny ==
  LET t == current
  IN  /\ Running(t) /\ depth[t] > 0 /\ skip[t] > 0
      /\ skip' = [skip EXCEPT ![t] = @ - 1]
      /\ depth' = [depth EXCEPT ![t] = @ - 1]
      /\ UNCHANGED <<counter, global, gchunks, current, alive, stack, local, chunks, filed, corrupt>>

\* function_exit and pop_stack inside a skipped routine, or of it.
ExitSkipped ==
  LET t == current
  IN  /\ Running(t) /\ depth[t] > 0 /\ skip[t] > 0
      /\ skip' = IF stack[t][depth[t]].fn \in Skipped THEN [skip EXCEPT ![t] = @ - 1] ELSE skip
      /\ depth' = [depth EXCEPT ![t] = @ - 1]
      /\ UNCHANGED <<counter, global, gchunks, current, alive, stack, local, chunks, filed, corrupt>>

\* A plausible bug: the parent receives the dynamic reads of its callee, not its input.
ExitInputLost ==
  LET t == current
      n == depth[t]
      top == stack[t][n]
  IN  /\ Running(t) /\ n > 0 /\ skip[t] = 0
      /\ filed' = <<top.input>>
      /\ stack' = IF n > 1 THEN [stack EXCEPT ![t][n - 1].dynamic = @ + top.dynamic] ELSE stack
      /\ depth' = [depth EXCEPT ![t] = n - 1]
      /\ UNCHANGED <<counter, global, gchunks, current, alive, skip, local, chunks, corrupt>>

\* function_exit and pop_stack otherwise.
Exit ==
  LET t == current
      n == depth[t]
      top == stack[t][n]
  IN  /\ Running(t) /\ n > 0 /\ skip[t] = 0
      /\ filed' = <<top.input>>
      /\ stack' = IF n > 1
                  THEN [stack EXCEPT ![t][n - 1].input = @ + top.input,
                                     ![t][n - 1].dynamic = @ + top.dynamic]
                  ELSE stack
      /\ depth' = [depth EXCEPT ![t] = n - 1]
      /\ UNCHANGED <<counter, global, gchunks, current, alive, skip, local, chunks, corrupt>>

-----------------------------------------------------------------------------
AccessType == {"load", "store", "modify"}

Next ==
  \/ \E t \in Thread : Create(t)
  \/ \E t \in Thread : Switch(t)
  \/ \E t \in Thread : ThreadExit(t)
  \/ \E type \in AccessType, cells \in SUBSET Cell \ {{}} : Access(type, cells)
  \/ \E t \in Thread, cells \in SUBSET Cell : SyscallStore(t, cells)
  \/ \E t \in Thread, cells \in SUBSET Cell : SyscallLoad(t, cells)
  \/ \E f \in Routine : EnterSkipped(f)
  \/ \E f \in Routine : Enter(f)
  \/ ExitSkipped
  \/ Exit
  \/ RenumberOutOfOrder

Spec == Init /\ [][Next]_vars

=============================================================================
