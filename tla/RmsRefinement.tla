--------------------------- MODULE RmsRefinement ---------------------------
(***************************************************************************)
(* RmsProfiler computes ReadMemorySize.  The history variable `frames`     *)
(* carries the abstract activations next to the profiler's state; it is    *)
(* updated by every step and constrains none.  The abstract `exited` is    *)
(* the profiler's own, so the refinement says that function_exit files     *)
(* every activation under its true read memory size.                       *)
(***************************************************************************)
EXTENDS RmsProfiler, Sequences

VARIABLE frames

hvars == <<vars, frames>>

Abstract == INSTANCE ReadMemorySize

HInit == Init /\ frames = <<>>

HAccess(type, cells) ==
  Access(type, cells) /\ frames' = Abstract!Touched(frames, cells, type # "store")
HEnterSkipped(f) == EnterSkipped(f) /\ UNCHANGED frames
HEnter(f)        == Enter(f)        /\ frames' = Abstract!Called(frames)
HEnterAtWrap(f)  == EnterAtWrap(f)  /\ frames' = Abstract!Called(frames)
HExitSkipped     == ExitSkipped     /\ UNCHANGED frames
HExit            == Exit            /\ frames' = Abstract!Returned(frames)

HNext ==
  \/ \E type \in AccessType, cells \in SUBSET Cell : HAccess(type, cells)
  \/ \E f \in Routine : HEnterSkipped(f)
  \/ \E f \in Routine : HEnter(f)
  \/ \E f \in Routine : HEnterAtWrap(f)
  \/ HExitSkipped
  \/ HExit

HSpec == HInit /\ [][HNext]_hvars

-----------------------------------------------------------------------------
\* The activations that count are the bottom ones, up to the first skipped routine.
Live == 1..Len(frames)

\* What the shadow memory says activation d, or a descendant, has accessed.
SeenBy(d) == {c \in Cell : shadow[c] >= stack[d].aid}

\* The ids of the live activations grow from the bottom of the stack to its top, and
\* those of the counter are fresh: the order on which every comparison of
\* trace_access_rms, and the search of get_activation_by_aid, rely.
IdsOrdered ==
  /\ \A d \in Live : stack[d].aid > 0 /\ stack[d].aid < nextId
  /\ \A d, e \in Live : d < e => stack[d].aid < stack[e].aid
  /\ \A c \in Cell : shadow[c] < nextId

\* An activation counts exactly when no routine at or below it is skipped, and
\* tdata->skip is the number of skipped routines on the stack: it returns to 0 when
\* the outermost one exits, neither earlier nor later.
SkipCountsSkippedRoutines ==
  /\ skip = Cardinality({d \in 1..depth : stack[d].fn \in Skipped})
  /\ Len(frames) <= depth
  /\ \A d \in Live : stack[d].fn \notin Skipped
  /\ Len(frames) < depth => stack[Len(frames) + 1].fn \in Skipped

\* Shadow timestamps name exactly the cells each live activation has accessed.
ShadowMatchesHistory == \A d \in Live : SeenBy(d) = frames[d].accessed

\* The partial input_size of an activation is its own size less that of the
\* activation it called: negative when the callee read more, and exact on top.
InputIsTelescoped ==
  \A d \in Live :
    stack[d].input = frames[d].rms - IF d < Len(frames) THEN frames[d + 1].rms ELSE 0

\* The types of the profiler's state and of the history.
HTypeOK == TypeOK /\ frames \in Seq(Abstract!Frame)

\* The inductive invariant behind the refinement.
IInv == /\ HTypeOK
        /\ IdsOrdered
        /\ SkipCountsSkippedRoutines
        /\ ShadowMatchesHistory
        /\ InputIsTelescoped

\* The profiler implements the definition of the metric.
RefinesReadMemorySize == Abstract!ASpec
=============================================================================
