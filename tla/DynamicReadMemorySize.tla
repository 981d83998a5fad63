----------------------- MODULE DynamicReadMemorySize -----------------------
(***************************************************************************)
(* What aprof promises in its DRMS metric, said without timestamps: the    *)
(* dynamic read memory size of an activation counts the reads, by it or by *)
(* one of its descendants, of values it does not know: the first read of a *)
(* cell it has not accessed since it was entered, and the first read after *)
(* each write of the cell by another thread or by the kernel.              *)
(*                                                                         *)
(* Every pending activation carries the cells whose current value it knows *)
(* and its size so far.                                                    *)
(***************************************************************************)
EXTENDS Naturals, Sequences, FiniteSets

CONSTANTS Cell, Thread

VARIABLES frames,      \* per thread, its pending activations, oldest first
          filed        \* the sizes reported by the last exit, innermost first

avars == <<frames, filed>>

Frame == [known : SUBSET Cell, size : Nat]

NewFrame == [known |-> {}, size |-> 0]

\* Thread t accesses `cells`: its activations now know them, and pay for those they
\* read without knowing.
Accessed(fr, t, cells, reads) ==
  [fr EXCEPT ![t] =
     [d \in DOMAIN fr[t] |->
        [known |-> fr[t][d].known \cup cells,
         size  |-> fr[t][d].size + IF reads THEN Cardinality(cells \ fr[t][d].known) ELSE 0]]]

\* What the activations of the threads ts know is no longer current for `cells`.
Overwritten(fr, ts, cells) ==
  [t \in Thread |->
     IF t \in ts THEN [d \in DOMAIN fr[t] |-> [fr[t][d] EXCEPT !.known = @ \ cells]] ELSE fr[t]]

\* One access of thread t: a load, a store or a modify.
Touched(fr, t, cells, reads, writes) ==
  LET after == Accessed(fr, t, cells, reads)
  IN  IF writes THEN Overwritten(after, Thread \ {t}, cells) ELSE after

\* The kernel writes `cells`.
Injected(fr, cells) == Overwritten(fr, Thread, cells)

Called(fr, t) == [fr EXCEPT ![t] = Append(@, NewFrame)]

Returned(fr, t) == [fr EXCEPT ![t] = SubSeq(@, 1, Len(@) - 1)]

Ended(fr, t) == [fr EXCEPT ![t] = <<>>]

\* The sizes of all the activations of t, innermost first.
Sizes(fr, t) == [k \in 1..Len(fr[t]) |-> fr[t][Len(fr[t]) + 1 - k].size]

AInit == frames = [t \in Thread |-> <<>>] /\ filed = <<>>

AAccess == \E t \in Thread, cells \in SUBSET Cell, reads, writes \in BOOLEAN :
             frames' = Touched(frames, t, cells, reads, writes) /\ UNCHANGED filed

AInject == \E cells \in SUBSET Cell :
             frames' = Injected(frames, cells) /\ UNCHANGED filed

ACall == \E t \in Thread : frames' = Called(frames, t) /\ UNCHANGED filed

AReturn == \E t \in Thread : /\ frames[t] # <<>>
                             /\ filed' = <<frames[t][Len(frames[t])].size>>
                             /\ frames' = Returned(frames, t)

AEnd == \E t \in Thread : filed' = Sizes(frames, t) /\ frames' = Ended(frames, t)

ANext == AAccess \/ AInject \/ ACall \/ AReturn \/ AEnd

ASpec == AInit /\ [][ANext]_avars
=============================================================================
