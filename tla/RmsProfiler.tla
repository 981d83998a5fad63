---------------------------- MODULE RmsProfiler ----------------------------
(***************************************************************************)
(* One thread of aprof in the RMS metric: its activation stack, its shadow *)
(* memory and its activation-id counter (struct ThreadData), driven by     *)
(* push_stack / pop_stack (callstack.c) and by trace_access_rms            *)
(* (memory.c).  In this metric threads share nothing that influences the   *)
(* computed sizes, so the instance is one thread.                          *)
(*                                                                         *)
(* A shadow cell holds the id of the activation that last accessed it.     *)
(* The input_size field is partial while an activation is pending: what a  *)
(* descendant reads first is taken back from the ancestor that had counted *)
(* it, and handed on when the descendant exits.                            *)
(***************************************************************************)
EXTENDS Integers, FiniteSets

CONSTANTS Cell,      \* memory cells
          Routine,   \* the routines of the profiled program
          Skipped,   \* those with fn->skip set (_dl_runtime_resolve)
          MaxDepth,  \* MAX_STACK_SIZE
          IdSpan     \* number of values of next_activation_id, 2^32

ASSUME CellAssumption  == IsFiniteSet(Cell)
ASSUME BoundAssumption == /\ MaxDepth \in Nat \ {0}
                          /\ IdSpan \in Nat
                          /\ MaxDepth + 1 < IdSpan
ASSUME RoutineAssumption == Skipped \subseteq Routine

VARIABLES depth,     \* stack_depth
          stack,     \* the slots of the activation stack, used and stale ones
          skip,      \* how many skipped routines are open
          nextId,    \* next_activation_id
          shadow,    \* shadow_memory: cell -> activation id, 0 at first
          exited     \* input_size under which function_exit filed its last activation

vars == <<depth, stack, skip, nextId, shadow, exited>>

Slot == 1..MaxDepth

Activation == [fn : Routine, aid : 0..(IdSpan - 1), input : Int]

TypeOK ==
  /\ depth \in 0..MaxDepth
  /\ stack \in [Slot -> Activation]
  /\ skip \in Nat
  /\ nextId \in 1..(IdSpan - 1)
  /\ shadow \in [Cell -> 0..(IdSpan - 1)]
  /\ exited \in Int

\* thread_start: calloc'ed slots, ids from 1.
Init ==
  /\ depth = 0
  /\ stack \in {[d \in Slot |-> [fn |-> f, aid |-> 0, input |-> 0]] : f \in Routine}
  /\ skip = 0
  /\ nextId = 1
  /\ shadow = [c \in Cell |-> 0]
  /\ exited = 0

-----------------------------------------------------------------------------
\* get_activation_by_aid: the topmost activation below the current one whose id
\* is at most `aid`.
ActivationByAid(aid) ==
  CHOOSE d \in 1..(depth - 1) :
    /\ stack[d].aid <= aid
    /\ \A e \in (d + 1)..(depth - 1) : stack[e].aid > aid

\* A plausible bug: a cell the current activation accessed last counts again.
FreshOrOwn(cells) == {c \in cells : shadow[c] <= stack[depth].aid}

\* The cells that are new to the current activation ...
Fresh(cells) == {c \in cells : shadow[c] < stack[depth].aid}

\* ... and those among them that activation d had counted until now.
TakenFrom(d, cells) ==
  {c \in Fresh(cells) : shadow[c] >= stack[1].aid /\ ActivationByAid(shadow[c]) = d}

\* trace_access_rms on the cells of one access; a modify is a read here.
Access(type, cells) ==
  /\ depth > 0 /\ skip = 0
  /\ shadow' = [c \in Cell |-> IF c \in cells THEN stack[depth].aid ELSE shadow[c]]
  /\ stack' = IF type = "store" THEN stack
              ELSE [d \in Slot |->
                      IF d = depth
                      THEN [stack[d] EXCEPT !.input = @ + Cardinality(Fresh(cells))]
                      ELSE IF d < depth
                      THEN [stack[d] EXCEPT !.input = @ - Cardinality(TakenFrom(d, cells))]
                      ELSE stack[d]]
  /\ UNCHANGED <<depth, skip, nextId, exited>>

-----------------------------------------------------------------------------
\* A plausible bug: the search keeps the index counted from 0.
CompressedTsFromZero(ids, ts) ==
  IF ts = 0 \/ \A k \in DOMAIN ids : ids[k] > ts THEN 0
  ELSE (CHOOSE k \in DOMAIN ids : ids[k] <= ts /\ \A j \in DOMAIN ids : j > k => ids[j] > ts) - 1

\* LK_compress_rms: a timestamp becomes the depth of the topmost activation whose
\* id it reaches; one older than every pending activation becomes 0.
CompressedTs(ids, ts) ==
  IF ts = 0 \/ \A k \in DOMAIN ids : ids[k] > ts THEN 0
  ELSE CHOOSE k \in DOMAIN ids : ids[k] <= ts /\ \A j \in DOMAIN ids : j > k => ids[j] > ts

\* push_stack and function_enter of a skipped routine, or inside one: the slot keeps
\* the id and the input of the activation it held before.
EnterSkipped(f) ==
  /\ depth < MaxDepth
  /\ f \in Skipped \/ skip > 0
  /\ depth' = depth + 1
  /\ stack' = [stack EXCEPT ![depth + 1].fn = f]
  /\ skip' = IF f \in Skipped THEN skip + 1 ELSE skip
  /\ UNCHANGED <<nextId, shadow, exited>>

\* A plausible bug: the reused slot keeps the input of its former activation.
EnterStaleInput(f) ==
  /\ depth < MaxDepth
  /\ f \notin Skipped /\ skip = 0
  /\ nextId + 1 < IdSpan
  /\ depth' = depth + 1
  /\ stack' = [stack EXCEPT ![depth + 1].fn = f, ![depth + 1].aid = nextId]
  /\ nextId' = nextId + 1
  /\ UNCHANGED <<skip, shadow, exited>>

\* A plausible bug: nobody tests the id counter for its wrap.
EnterUnchecked(f) ==
  /\ depth < MaxDepth
  /\ f \notin Skipped /\ skip = 0
  /\ depth' = depth + 1
  /\ stack' = [stack EXCEPT ![depth + 1] = [fn |-> f, aid |-> nextId, input |-> 0]]
  /\ nextId' = nextId + 1
  /\ UNCHANGED <<skip, shadow, exited>>

\* push_stack and function_enter otherwise; the id counter does not wrap.
Enter(f) ==
  /\ depth < MaxDepth
  /\ f \notin Skipped /\ skip = 0
  /\ nextId + 1 < IdSpan
  /\ depth' = depth + 1
  /\ stack' = [stack EXCEPT ![depth + 1] = [fn |-> f, aid |-> nextId, input |-> 0]]
  /\ nextId' = nextId + 1
  /\ UNCHANGED <<skip, shadow, exited>>

\* A plausible bug: the renumbering hands out the id of the new activation again.
EnterAtWrapSameId(f) ==
  /\ depth < MaxDepth
  /\ f \notin Skipped /\ skip = 0
  /\ (nextId + 1) % IdSpan = 0
  /\ depth' = depth + 1
  /\ LET ids == [d \in 1..(depth + 1) |-> IF d = depth + 1 THEN nextId ELSE stack[d].aid]
     IN  shadow' = [c \in Cell |-> CompressedTs(ids, shadow[c])]
  /\ stack' = [d \in Slot |->
                 IF d = depth + 1 THEN [fn |-> f, aid |-> depth + 1, input |-> 0]
                 ELSE IF d <= depth THEN [stack[d] EXCEPT !.aid = d]
                 ELSE stack[d]]
  /\ nextId' = depth + 1
  /\ UNCHANGED <<skip, exited>>

\* The same when the incremented counter is 0 modulo 2^32: overflow_handler_rms
\* renumbers the pending activations, the new one included, by their depth and
\* compresses the shadow memory against their old ids.
EnterAtWrap(f) ==
  /\ depth < MaxDepth
  /\ f \notin Skipped /\ skip = 0
  /\ (nextId + 1) % IdSpan = 0
  /\ depth' = depth + 1
  /\ LET ids == [d \in 1..(depth + 1) |-> IF d = depth + 1 THEN nextId ELSE stack[d].aid]
     IN  shadow' = [c \in Cell |-> CompressedTs(ids, shadow[c])]
  /\ stack' = [d \in Slot |->
                 IF d = depth + 1 THEN [fn |-> f, aid |-> depth + 1, input |-> 0]
                 ELSE IF d <= depth THEN [stack[d] EXCEPT !.aid = d]
                 ELSE stack[d]]
  /\ nextId' = depth + 2
  /\ UNCHANGED <<skip, exited>>

\* A plausible bug: every exit under a skipped routine ends the skipping.
ExitSkippedAny ==
  /\ depth > 0 /\ skip > 0
  /\ skip' = skip - 1
  /\ depth' = depth - 1
  /\ UNCHANGED <<stack, nextId, shadow, exited>>

\* function_exit and pop_stack inside a skipped routine, or of it.
ExitSkipped ==
  /\ depth > 0 /\ skip > 0
  /\ skip' = IF stack[depth].fn \in Skipped THEN skip - 1 ELSE skip
  /\ depth' = depth - 1
  /\ UNCHANGED <<stack, nextId, shadow, exited>>

\* A plausible bug: the parent is not told what its callee read.
ExitWithoutParent ==
  /\ depth > 0 /\ skip = 0
  /\ exited' = stack[depth].input
  /\ depth' = depth - 1
  /\ UNCHANGED <<stack, skip, nextId, shadow>>

\* function_exit and pop_stack otherwise: file the activation under its input size
\* and add it to the parent's.
Exit ==
  /\ depth > 0 /\ skip = 0
  /\ exited' = stack[depth].input
  /\ stack' = IF depth > 1
              THEN [stack EXCEPT ![depth - 1].input = @ + stack[depth].input]
              ELSE stack
  /\ depth' = depth - 1
  /\ UNCHANGED <<skip, nextId, shadow>>

AccessType == {"load", "store", "modify"}

Next ==
  \/ \E type \in AccessType, cells \in SUBSET Cell : Access(type, cells)
  \/ \E f \in Routine : EnterSkipped(f)
  \/ \E f \in Routine : Enter(f)
  \/ \E f \in Routine : EnterAtWrap(f)
  \/ ExitSkipped
  \/ Exit

Spec == Init /\ [][Next]_vars

=============================================================================
