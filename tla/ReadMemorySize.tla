--------------------------- MODULE ReadMemorySize ---------------------------
(***************************************************************************)
(* What aprof promises in its RMS metric, said without timestamps: the     *)
(* read memory size of an activation is the number of distinct memory      *)
(* cells whose first access, since the activation was entered, by it or by *)
(* one of its descendants, is a read.                                      *)
(*                                                                         *)
(* Every pending activation carries the set of cells accessed since it was *)
(* entered and its size so far.  The profiler keeps neither: it has one    *)
(* timestamp per cell and one partial counter per activation.              *)
(***************************************************************************)
EXTENDS Naturals, Sequences, FiniteSets

CONSTANT Cell          \* the memory cells, at the profiler's resolution

VARIABLES frames,      \* pending activations, oldest first
          exited       \* the size reported for the last activation closed

avars == <<frames, exited>>

Frame == [accessed : SUBSET Cell, rms : Nat]

NewFrame == [accessed |-> {}, rms |-> 0]

\* One access to the cells `cells`: every pending activation has accessed them,
\* and counts those it had not accessed before if the access reads them.
Touched(fr, cells, reads) ==
  [d \in DOMAIN fr |->
     [accessed |-> fr[d].accessed \cup cells,
      rms      |-> fr[d].rms + IF reads THEN Cardinality(cells \ fr[d].accessed) ELSE 0]]

Called(fr) == Append(fr, NewFrame)

Returned(fr) == SubSeq(fr, 1, Len(fr) - 1)

AInit == frames = <<>> /\ exited = 0

AAccess == \E cells \in SUBSET Cell, reads \in BOOLEAN :
             frames' = Touched(frames, cells, reads) /\ UNCHANGED exited

ACall == frames' = Called(frames) /\ UNCHANGED exited

AReturn == /\ frames # <<>>
           /\ exited' = frames[Len(frames)].rms
           /\ frames' = Returned(frames)

ANext == AAccess \/ ACall \/ AReturn

ASpec == AInit /\ [][ANext]_avars
=============================================================================
