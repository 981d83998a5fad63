--------------------------- MODULE DrmsRefinement ---------------------------
(***************************************************************************)
(* DrmsProfiler computes DynamicReadMemorySize.  The history variable      *)
(* `frames` carries the abstract activations of every thread next to the   *)
(* profiler's state; it is updated by every step and constrains none.      *)
(***************************************************************************)
EXTENDS DrmsProfiler, Sequences

VARIABLE frames

hvars == <<vars, frames>>

Abstract == INSTANCE DynamicReadMemorySize

HInit == Init /\ frames = [t \in Thread |-> <<>>]

\* What thread t counts of an access to `cells`.
Counted(t, cells) == IF Counts(t) THEN cells ELSE {}

HCreate(t)     == Create(t) /\ UNCHANGED frames
HSwitch(t)     == Switch(t) /\ UNCHANGED frames
HThreadExit(t) == ThreadExit(t) /\ frames' = Abstract!Ended(frames, t)
HAccess(type, cells) ==
  /\ Access(type, cells)
  /\ frames' = Abstract!Touched(frames, current, cells, type # "store", type # "load")
HSyscallStore(t, cells) ==
  SyscallStore(t, cells) /\ frames' = Abstract!Injected(frames, Counted(t, cells))
HSyscallLoad(t, cells) ==
  SyscallLoad(t, cells) /\ frames' = Abstract!Touched(frames, t, Counted(t, cells), TRUE, FALSE)
HEnterSkipped(f) == EnterSkipped(f) /\ UNCHANGED frames
HEnter(f)        == Enter(f) /\ frames' = Abstract!Called(frames, current)
HExitSkipped     == ExitSkipped /\ UNCHANGED frames
HExit            == Exit /\ frames' = Abstract!Returned(frames, current)
HRenumberOutOfOrder == RenumberOutOfOrder /\ UNCHANGED frames

HNext ==
  \/ \E t \in Thread : HCreate(t)
  \/ \E t \in Thread : HSwitch(t)
  \/ \E t \in Thread : HThreadExit(t)
  \/ \E type \in AccessType, cells \in SUBSET Cell \ {{}} : HAccess(type, cells)
  \/ \E t \in Thread, cells \in SUBSET Cell : HSyscallStore(t, cells)
  \/ \E t \in Thread, cells \in SUBSET Cell : HSyscallLoad(t, cells)
  \/ \E f \in Routine : HEnterSkipped(f)
  \/ \E f \in Routine : HEnter(f)
  \/ HExitSkipped
  \/ HExit
  \/ HRenumberOutOfOrder

HSpec == HInit /\ [][HNext]_hvars

-----------------------------------------------------------------------------
Live(t) == 1..Len(frames[t])

\* What the two shadow memories say activation d of t, or a descendant, knows: it has
\* accessed the cell, and nobody else has written it since.
KnownBy(t, d) == {c \in Cell : local[t][c] >= stack[t][d].aid /\ local[t][c] >= global[c]}

\* The live activations of a thread carry growing ids and no two activations of the
\* program share one.  No time lies ahead of the counter, and while a thread runs the
\* accesses of the others lie strictly behind it: what it writes now is newer.
TimesOrdered ==
  /\ \A t \in Thread : \A d, e \in Live(t) : d < e => stack[t][d].aid < stack[t][e].aid
  /\ \A t, u \in Thread : t # u =>
       \A d \in Live(t), e \in Live(u) : stack[t][d].aid # stack[u][e].aid
  /\ \A t \in Thread : \A d \in Live(t) : stack[t][d].aid \in 1..counter
  /\ \A c \in Cell : global[c] <= counter
  /\ \A t \in Thread, c \in Cell :
       IF current \in {t, NoThread} THEN local[t][c] <= counter ELSE local[t][c] < counter

\* tdata->skip is the number of skipped routines on the thread's stack, and the live
\* activations are those below the first of them.
SkipCountsSkippedRoutines ==
  \A t \in Thread :
    /\ skip[t] = Cardinality({d \in 1..depth[t] : stack[t][d].fn \in Skipped})
    /\ Len(frames[t]) = LiveDepth(t)

\* The two shadow memories and the ids name exactly what each live activation knows.
ShadowsMatchHistory ==
  \A t \in Thread : \A d \in Live(t) : KnownBy(t, d) = frames[t][d].known

\* The partial input_size is the activation's own size less that of the one it called.
InputIsTelescoped ==
  \A t \in Thread : \A d \in Live(t) :
    stack[t][d].input =
      frames[t][d].size - IF d < Len(frames[t]) THEN frames[t][d + 1].size ELSE 0

\* The reads counted as thread or kernel input never exceed the input size of the
\* activation on top, although descendants have lowered it (the debug assertions of
\* trace_access_drms and function_exit).
DynamicWithinInput ==
  \A t \in Thread : Counts(t) => stack[t][depth[t]].dynamic <= stack[t][depth[t]].input

HTypeOK == TypeOK /\ frames \in [Thread -> Seq(Abstract!Frame)] /\ filed \in Seq(Int)

\* The profiler implements the definition of the metric.
RefinesDynamicReadMemorySize == Abstract!ASpec

\* Renumbering and compressing, whenever it may happen, changes nothing of what any
\* live activation knows.
RenumberingKeepsKnown ==
  InOrder =>
    LET newLocal  == RenumberedLocal
        newGlobal == RenumberedGlobal
        newStack  == RenumberedStack
    IN  \A t \in Thread : \A d \in Live(t) :
          {c \in Cell : /\ newLocal[t][c] >= newStack[t][d].aid
                        /\ newLocal[t][c] >= newGlobal[c]} = KnownBy(t, d)

\* The goal stated for LK_compress_drms: "preserve the relantionship between gts, lts
\* and all active-ts", here whether a cell was written after a thread's last access.
CompressionKeepsOrder ==
  Wraps /\ InOrder => \A t \in Thread, c \in Cell :
    (RenumberedLocal[t][c] < RenumberedGlobal[c]) = (local[t][c] < global[c])

\* "Collect the (sorted) set of used timestamps by all activations": no renumbering
\* meets activation ids out of order.
NeverOutOfOrder == ~ corrupt
=============================================================================
