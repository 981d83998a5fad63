----------------------------- MODULE RmsProofs -----------------------------
(***************************************************************************)
(* Proofs about the RMS profiler, for every set of cells, every stack      *)
(* bound and every width of the activation-id counter.                     *)
(***************************************************************************)
EXTENDS RmsRefinement, NaturalLemmas, TLAPS, FiniteSetTheorems, SequenceTheorems

AFrame == Abstract!Frame

-----------------------------------------------------------------------------
(* The operators on abstract frames.                                       *)

\* The instance of ReadMemorySize counts sets as this module does.
LEMMA SameCardinality == \A S : Abstract!Cardinality(S) = Cardinality(S)
  BY Zenon DEF Abstract!Cardinality, Cardinality

\* What an access adds to the size of an activation that had accessed `accessed`.
Gain(cells, reads, accessed) == IF reads THEN Cardinality(cells \ accessed) ELSE 0

\* An access never lowers the size of an activation.
LEMMA GainType ==
  ASSUME NEW cells \in SUBSET Cell, NEW reads \in BOOLEAN, NEW accessed
  PROVE  Gain(cells, reads, accessed) \in Nat
<1>1. IsFiniteSet(cells \ accessed)
  BY CellAssumption, FS_Subset
<1>2. Cardinality(cells \ accessed) \in Nat
  BY <1>1, FS_CardinalityType
<1> QED
  BY <1>2 DEF Gain

\* Touching, calling and returning keep the frames a sequence of frames; what each of
\* them is afterwards.
LEMMA TouchedFrames ==
  ASSUME NEW fr \in Seq(AFrame), NEW cells \in SUBSET Cell, NEW reads \in BOOLEAN
  PROVE  /\ Abstract!Touched(fr, cells, reads) \in Seq(AFrame)
         /\ Len(Abstract!Touched(fr, cells, reads)) = Len(fr)
         /\ \A d \in 1..Len(fr) :
              /\ Abstract!Touched(fr, cells, reads)[d].accessed = fr[d].accessed \cup cells
              /\ Abstract!Touched(fr, cells, reads)[d].rms
                   = fr[d].rms + Gain(cells, reads, fr[d].accessed)
<1> DEFINE new(d) == [accessed |-> fr[d].accessed \cup cells,
                      rms |-> fr[d].rms + Gain(cells, reads, fr[d].accessed)]
           t == [d \in 1..Len(fr) |-> new(d)]
<1>1. Len(fr) \in Nat /\ DOMAIN fr = 1..Len(fr) /\ fr \in [1..Len(fr) -> AFrame]
  BY LenProperties
<1>2. Abstract!Touched(fr, cells, reads) = t
  <2>1. Abstract!Touched(fr, cells, reads) = [d \in DOMAIN fr |-> new(d)]
    BY SameCardinality, Zenon DEF Abstract!Touched, Gain
  <2> QED
    BY <1>1, <2>1, Zenon
<1>3. ASSUME NEW d \in 1..Len(fr) PROVE new(d) \in AFrame
  BY <1>1, GainType DEF AFrame, Abstract!Frame
<1>4. t \in [1..Len(fr) -> AFrame]
  BY <1>3, Zenon
<1>5. ASSUME NEW d \in 1..Len(fr)
      PROVE  /\ t[d].accessed = fr[d].accessed \cup cells
             /\ t[d].rms = fr[d].rms + Gain(cells, reads, fr[d].accessed)
  OBVIOUS
<1> HIDE DEF t
<1>6. t \in Seq(AFrame)
  BY <1>1, <1>4, SeqDef
<1>7. Len(t) = Len(fr)
  <2>1. DOMAIN t = 1..Len(fr) /\ DOMAIN t = 1..Len(t) /\ Len(t) \in Nat
    BY <1>4, <1>6, LenProperties
  <2> QED
    BY <1>1, <2>1
<1> QED
  BY <1>2, <1>5, <1>6, <1>7

\* A call adds one new frame on top and keeps the others.
LEMMA CalledFrames ==
  ASSUME NEW fr \in Seq(AFrame)
  PROVE  /\ Abstract!Called(fr) \in Seq(AFrame)
         /\ Len(Abstract!Called(fr)) = Len(fr) + 1
         /\ \A d \in 1..Len(fr) : Abstract!Called(fr)[d] = fr[d]
         /\ Abstract!Called(fr)[Len(fr) + 1] = [accessed |-> {}, rms |-> 0]
<1>1. [accessed |-> {}, rms |-> 0] \in AFrame
  BY DEF AFrame, Abstract!Frame
<1> QED
  BY <1>1 DEF Abstract!Called, Abstract!NewFrame

\* A return drops the top frame and keeps the others.
LEMMA ReturnedFrames ==
  ASSUME NEW fr \in Seq(AFrame), Len(fr) > 0
  PROVE  /\ Abstract!Returned(fr) \in Seq(AFrame)
         /\ Len(Abstract!Returned(fr)) = Len(fr) - 1
         /\ \A d \in 1..(Len(fr) - 1) : Abstract!Returned(fr)[d] = fr[d]
<1> DEFINE n == Len(fr) - 1
<1>1. n \in Nat /\ \A d \in 1..n : fr[d] \in AFrame
  BY LenProperties
<1>2. /\ SubSeq(fr, 1, n) \in Seq(AFrame)
      /\ Len(SubSeq(fr, 1, n)) = IF 1 <= n THEN n - 1 + 1 ELSE 0
      /\ \A i \in 1..(n - 1 + 1) : SubSeq(fr, 1, n)[i] = fr[1 + i - 1]
  <2> HIDE DEF n
  <2> QED
    BY <1>1, SubSeqProperties
<1>3. \A d \in 1..n : SubSeq(fr, 1, n)[d] = fr[d]
  BY <1>1, <1>2
<1>4. Len(SubSeq(fr, 1, n)) = n
  <2> DEFINE len == Len(SubSeq(fr, 1, n))
  <2>1. n \in Nat /\ len = IF 1 <= n THEN n - 1 + 1 ELSE 0
    BY <1>1, <1>2
  <2> HIDE DEF n, len
  <2>2. len = n
    BY <2>1
  <2> QED
    BY <2>2 DEF len
<1>5. Abstract!Returned(fr) = SubSeq(fr, 1, n)
  BY DEF Abstract!Returned
<1> HIDE DEF n
<1>6. /\ Abstract!Returned(fr) \in Seq(AFrame)
      /\ Len(Abstract!Returned(fr)) = n
      /\ \A d \in 1..n : Abstract!Returned(fr)[d] = fr[d]
  BY <1>2, <1>3, <1>4, <1>5
<1> QED
  BY <1>6 DEF n

-----------------------------------------------------------------------------
(* Downward searches of the activation stack.                              *)

\* If some id at depth 1..n is at most ts there is a topmost one: what the loops of
\* get_activation_by_aid and LK_compress_rms, which go down the stack, stop at.
LEMMA SearchStops ==
  ASSUME NEW n \in Nat, NEW ids \in [1..n -> Int],
         NEW ts \in Int, \E k \in 1..n : ids[k] <= ts
  PROVE  \E d \in 1..n : ids[d] <= ts /\ \A e \in (d + 1)..n : ids[e] > ts
<1> DEFINE T == {j \in 0..n : \E k \in 1..n : k + j = n /\ ids[k] <= ts}
<1>1. PICK k \in 1..n : ids[k] <= ts
  OBVIOUS
<1>2. n - k \in 0..n /\ k + (n - k) = n
  OBVIOUS
<1>3. n - k \in T
  BY <1>1, <1>2
<1>4. PICK x \in T : \A y \in T : x <= y
  <2>1. T \in SUBSET Nat
    OBVIOUS
  <2> HIDE DEF T
  <2>2. T # {}
    BY <1>3
  <2> QED
    BY <2>1, <2>2, LeastNatural
<1>5. PICK d \in 1..n : d + x = n /\ ids[d] <= ts
  OBVIOUS
<1>6. ASSUME NEW e \in (d + 1)..n PROVE ids[e] > ts
  <2>1. n - e \in 0..n /\ e + (n - e) = n /\ n - e < x /\ e \in 1..n
    BY <1>5
  <2>2. n - e \notin T
    <3>1. \A y \in T : y \in Int
      OBVIOUS
    <3>2. x \in Int
      OBVIOUS
    <3> HIDE DEF T
    <3> QED
      BY <2>1, <1>4, <3>1, <3>2
  <2>3. ~ (ids[e] <= ts)
    BY <2>1, <2>2
  <2> QED
    BY <2>1, <2>3
<1> QED
  BY <1>5, <1>6

-----------------------------------------------------------------------------
(* The invariant.                                                          *)

\* A thread starts with an empty stack and an untouched shadow memory.
LEMMA Initially == HInit => IInv
<1> SUFFICES ASSUME HInit PROVE IInv
  OBVIOUS
<1> USE DEF HInit, Init
<1>1. frames \in Seq(AFrame) /\ Len(frames) = 0
  OBVIOUS
<1>2. TypeOK
  BY BoundAssumption DEF TypeOK, Activation, Slot
<1>3. Live = {}
  BY <1>1 DEF Live
<1>4. IdsOrdered
  BY <1>3 DEF IdsOrdered
<1>5. SkipCountsSkippedRoutines
  <2>1. {d \in 1..depth : stack[d].fn \in Skipped} = {}
    OBVIOUS
  <2>2. Cardinality({d \in 1..depth : stack[d].fn \in Skipped}) = 0
    BY <2>1, FS_EmptySet, Zenon
  <2> QED
    BY <1>1, <1>3, <2>2 DEF SkipCountsSkippedRoutines
<1>6. ShadowMatchesHistory /\ InputIsTelescoped
  BY <1>3 DEF ShadowMatchesHistory, InputIsTelescoped
<1> QED
  BY <1>1, <1>2, <1>4, <1>5, <1>6 DEF IInv, HTypeOK, AFrame

\* Every field of the state as a number.
LEMMA Types ==
  ASSUME IInv
  PROVE  /\ depth \in Nat /\ depth <= MaxDepth
         /\ \A d \in 1..MaxDepth : /\ stack[d] \in Activation
                                   /\ stack[d].fn \in Routine
                                   /\ stack[d].aid \in Nat
                                   /\ stack[d].input \in Int
         /\ \A d \in 1..depth : /\ d \in 1..MaxDepth
                                /\ stack[d].aid \in Nat
                                /\ stack[d].input \in Int
         /\ \A c \in Cell : shadow[c] \in Nat
         /\ nextId \in Nat /\ nextId > 0 /\ nextId < IdSpan
         /\ IdSpan \in Nat /\ MaxDepth \in Nat
         /\ Len(frames) \in Nat
         /\ \A d \in 1..Len(frames) : /\ frames[d] \in AFrame
                                      /\ frames[d].accessed \in SUBSET Cell
                                      /\ frames[d].rms \in Nat
<1> USE BoundAssumption DEF IInv, HTypeOK, TypeOK
<1>1. depth \in Nat /\ depth <= MaxDepth /\ IdSpan \in Nat /\ MaxDepth \in Nat
      /\ nextId \in Nat /\ nextId > 0 /\ nextId < IdSpan
  OBVIOUS
<1>2. \A d \in 1..MaxDepth : stack[d] \in Activation
  BY DEF Slot
<1>3. \A d \in 1..MaxDepth :
        stack[d].fn \in Routine /\ stack[d].aid \in Nat /\ stack[d].input \in Int
  BY <1>1, <1>2 DEF Activation
<1>4. \A d \in 1..depth : d \in 1..MaxDepth
  BY <1>1
<1>5. \A c \in Cell : shadow[c] \in Nat
  BY <1>1
<1>6. frames \in Seq(AFrame)
  BY DEF AFrame
<1>7. Len(frames) \in Nat /\ \A d \in 1..Len(frames) : frames[d] \in AFrame
  BY <1>6, LenProperties
<1>8. \A d \in 1..Len(frames) : frames[d].accessed \in SUBSET Cell /\ frames[d].rms \in Nat
  BY <1>7 DEF AFrame, Abstract!Frame
<1> QED
  BY <1>1, <1>2, <1>3, <1>4, <1>5, <1>7, <1>8

\* The skipped routines on a stack of depth n.
SkippedOn(st, n) == {d \in 1..n : st[d].fn \in Skipped}

\* There are finitely many of them, so that they can be counted.
LEMMA SkippedOnFinite ==
  ASSUME NEW st, NEW n \in Nat
  PROVE  IsFiniteSet(SkippedOn(st, n)) /\ Cardinality(SkippedOn(st, n)) \in Nat
<1>1. IsFiniteSet(1..n)
  BY FS_Interval
<1>2. SkippedOn(st, n) \in SUBSET (1..n)
  BY DEF SkippedOn
<1>3. IsFiniteSet(SkippedOn(st, n))
  BY <1>1, <1>2, FS_Subset
<1> QED
  BY <1>3, FS_CardinalityType

\* While nothing is skipped every activation of the stack is live.
LEMMA AllLive ==
  ASSUME IInv, skip = 0
  PROVE  Len(frames) = depth /\ Live = 1..depth /\ depth \in Nat
<1> USE DEF IInv, HTypeOK, SkipCountsSkippedRoutines
<1>1. Len(frames) \in Nat /\ depth \in Nat /\ Len(frames) <= depth
  BY LenProperties DEF TypeOK
<1>2. SkippedOn(stack, depth) = {}
  <2>1. IsFiniteSet(SkippedOn(stack, depth)) /\ Cardinality(SkippedOn(stack, depth)) = 0
    BY <1>1, SkippedOnFinite DEF SkippedOn
  <2> QED
    BY <2>1, FS_EmptySet
<1>3. ~ (Len(frames) < depth)
  <2> SUFFICES ASSUME Len(frames) < depth PROVE FALSE
    OBVIOUS
  <2>1. Len(frames) + 1 \in 1..depth /\ stack[Len(frames) + 1].fn \in Skipped
    BY <1>1
  <2> QED
    BY <1>2, <2>1 DEF SkippedOn
<1> QED
  BY <1>1, <1>3 DEF Live

-----------------------------------------------------------------------------
(* trace_access_rms.                                                       *)

\* The cells fresh to the top activation are those it has not accessed, and an ancestor
\* is charged for exactly the cells it had accessed and its callee had not.
LEMMA FreshAndTaken ==
  ASSUME IInv, skip = 0, depth > 0, NEW cells \in SUBSET Cell
  PROVE  /\ Fresh(cells) = cells \ frames[depth].accessed
         /\ \A d \in 1..(depth - 1) :
              TakenFrom(d, cells) = (cells \ frames[d + 1].accessed) \cap frames[d].accessed
<1> USE DEF IInv
<1>1. depth \in Nat /\ Live = 1..depth /\ depth \in 1..depth
  BY AllLive
<1>2. \A d \in 1..depth : frames[d].accessed = {c \in Cell : shadow[c] >= stack[d].aid}
  BY <1>1 DEF ShadowMatchesHistory, SeenBy
<1>3. \A d \in 1..depth : stack[d].aid \in Int
  BY Types
<1>4. \A c \in Cell : shadow[c] \in Int
  BY Types
<1>5. \A d, e \in 1..depth : d < e => stack[d].aid < stack[e].aid
  BY <1>1 DEF IdsOrdered
<1>6. Fresh(cells) = cells \ frames[depth].accessed
  BY <1>1, <1>2, <1>3, <1>4 DEF Fresh
<1>7. ASSUME NEW d \in 1..(depth - 1), NEW c \in cells
      PROVE  c \in TakenFrom(d, cells)
               <=> stack[d].aid <= shadow[c] /\ shadow[c] < stack[d + 1].aid
  <2> DEFINE ts == shadow[c]
             Stops(x) == stack[x].aid <= ts /\ \A e \in (x + 1)..(depth - 1) : stack[e].aid > ts
  <2>0. ts \in Int /\ d \in 1..depth /\ d + 1 \in 1..depth /\ 1 \in 1..depth
        /\ \A x \in 1..(depth - 1) : x \in 1..depth
    BY <1>1, <1>4
  <2>1. c \in TakenFrom(d, cells)
          <=> ts < stack[depth].aid /\ ts >= stack[1].aid /\ ActivationByAid(ts) = d
    BY DEF TakenFrom, Fresh
  <2>2. ActivationByAid(ts) = CHOOSE x \in 1..(depth - 1) : Stops(x)
    BY DEF ActivationByAid
  <2>3. \A x \in 1..(depth - 1) : x > d => stack[x].aid >= stack[d + 1].aid
    BY <2>0, <1>1, <1>3, <1>5
  <2>4. stack[d + 1].aid <= stack[depth].aid /\ stack[1].aid <= stack[d].aid
    BY <2>0, <1>1, <1>3, <1>5
  <2>5. ASSUME stack[d].aid <= ts, ts < stack[d + 1].aid
        PROVE  c \in TakenFrom(d, cells)
    <3>1. Stops(d)
      BY <2>0, <2>3, <2>5, <1>3
    <3>2. \A x \in 1..(depth - 1) : Stops(x) => x = d
      <4> TAKE x \in 1..(depth - 1)
      <4> HAVE Stops(x)
      <4>1. ~ (x < d)
        BY <2>0, <2>5, <1>3
      <4>2. ~ (d < x)
        BY <2>0, <2>3, <2>5, <1>3
      <4> QED
        BY <4>1, <4>2, <2>0
    <3>3. ActivationByAid(ts) = d
      <4> HIDE DEF Stops
      <4> QED
        BY <2>2, <3>1, <3>2
    <3> QED
      BY <2>0, <2>1, <2>4, <2>5, <3>3, <1>3, <1>1
  <2>6. ASSUME c \in TakenFrom(d, cells)
        PROVE  stack[d].aid <= ts /\ ts < stack[d + 1].aid
    <3> DEFINE m == depth - 1
               ids == [k \in 1..m |-> stack[k].aid]
    <3>1. m \in Nat /\ ids \in [1..m -> Int] /\ 1 \in 1..m
      BY <2>0, <1>1, <1>3
    <3>2. \E k \in 1..m : ids[k] <= ts
      BY <3>1, <2>1, <2>6
    <3>3. PICK x \in 1..m : ids[x] <= ts /\ \A e \in (x + 1)..m : ids[e] > ts
      <4> HIDE DEF m, ids, ts
      <4> QED
        BY <2>0, <3>1, <3>2, SearchStops
    <3>4. Stops(x)
      <4>1. \A y \in 1..m : ids[y] = stack[y].aid
        OBVIOUS
      <4>2. \A e \in (x + 1)..m : e \in 1..m
        BY <3>1
      <4> QED
        BY <3>3, <4>1, <4>2
    <3>5. Stops(d)
      <4>1. ActivationByAid(ts) = d
        BY <2>1, <2>6
      <4> HIDE DEF Stops
      <4> QED
        BY <2>2, <3>4, <4>1
    <3>6. CASE d + 1 <= depth - 1
      BY <3>5, <3>6, <2>0, <1>1
    <3>7. CASE d + 1 = depth
      BY <3>5, <3>7, <2>1, <2>6
    <3> QED
      BY <3>6, <3>7, <2>0, <1>1
  <2> QED
    BY <2>5, <2>6
<1>8. ASSUME NEW d \in 1..(depth - 1)
      PROVE  TakenFrom(d, cells) = (cells \ frames[d + 1].accessed) \cap frames[d].accessed
  <2>1. d \in 1..depth /\ d + 1 \in 1..depth
    BY <1>1
  <2>2. TakenFrom(d, cells) \subseteq cells
    BY DEF TakenFrom, Fresh
  <2>3. ASSUME NEW c \in cells
        PROVE  c \in TakenFrom(d, cells)
                 <=> c \in (cells \ frames[d + 1].accessed) \cap frames[d].accessed
    BY <2>1, <1>2, <1>3, <1>4, <1>7
  <2> QED
    BY <2>2, <2>3
<1> QED
  BY <1>6, <1>8

\* trace_access_rms keeps the invariant.
LEMMA AccessStep ==
  ASSUME IInv, NEW type \in AccessType, NEW cells \in SUBSET Cell, HAccess(type, cells)
  PROVE  IInv'
<1> DEFINE n == depth
           reads == type # "store"
<1>1. /\ depth > 0 /\ skip = 0 /\ Access(type, cells)
      /\ frames' = Abstract!Touched(frames, cells, reads)
      /\ UNCHANGED <<depth, skip, nextId, exited>>
  BY DEF HAccess, Access
<1>2. n \in Nat /\ n >= 1 /\ Len(frames) = n /\ Live = 1..n
  BY <1>1, AllLive
<1>3. /\ frames' \in Seq(AFrame) /\ Len(frames') = n
      /\ \A d \in 1..n : /\ frames'[d].accessed = frames[d].accessed \cup cells
                         /\ frames'[d].rms = frames[d].rms + Gain(cells, reads, frames[d].accessed)
  <2>1. frames \in Seq(AFrame) /\ reads \in BOOLEAN
    BY DEF IInv, HTypeOK, AFrame
  <2> DEFINE new == Abstract!Touched(frames, cells, reads)
  <2> HIDE DEF reads
  <2>2. new \in Seq(AFrame) /\ Len(new) = Len(frames)
    BY <2>1, TouchedFrames
  <2>3. ASSUME NEW d \in 1..Len(frames)
        PROVE  /\ new[d].accessed = frames[d].accessed \cup cells
               /\ new[d].rms = frames[d].rms + Gain(cells, reads, frames[d].accessed)
    BY <2>1, TouchedFrames
  <2>4. frames' = new
    BY <1>1
  <2> HIDE DEF new
  <2> QED
    BY <1>2, <2>2, <2>3, <2>4
<1>4. Live' = 1..n
  BY <1>3 DEF Live
<1>5. shadow' = [c \in Cell |-> IF c \in cells THEN stack[n].aid ELSE shadow[c]]
  BY <1>1 DEF Access
<1>6. \A d \in 1..MaxDepth : Cardinality(TakenFrom(d, cells)) \in Nat /\ Cardinality(Fresh(cells)) \in Nat
  <2>1. IsFiniteSet(cells)
    BY CellAssumption, FS_Subset
  <2>2. Fresh(cells) \in SUBSET cells /\ \A d \in 1..MaxDepth : TakenFrom(d, cells) \in SUBSET cells
    BY DEF Fresh, TakenFrom
  <2> QED
    BY <2>1, <2>2, FS_Subset, FS_CardinalityType
<1>7. /\ stack' \in [Slot -> Activation]
      /\ \A d \in 1..MaxDepth : stack'[d].fn = stack[d].fn /\ stack'[d].aid = stack[d].aid
      /\ ~ reads => stack' = stack
      /\ reads => /\ stack'[n].input = stack[n].input + Cardinality(Fresh(cells))
                  /\ \A d \in 1..(n - 1) :
                       stack'[d].input = stack[d].input - Cardinality(TakenFrom(d, cells))
  <2>1. CASE ~ reads
    BY <2>1, <1>1, Types DEF Access, IInv, HTypeOK, TypeOK
  <2>2. CASE reads
    <3> DEFINE new(d) ==
          IF d = n THEN [stack[d] EXCEPT !.input = @ + Cardinality(Fresh(cells))]
          ELSE IF d < n THEN [stack[d] EXCEPT !.input = @ - Cardinality(TakenFrom(d, cells))]
          ELSE stack[d]
    <3>1. stack' = [d \in 1..MaxDepth |-> new(d)]
      BY <2>2, <1>1 DEF Access, Slot
    <3>2. ASSUME NEW d \in 1..MaxDepth
          PROVE  /\ new(d) \in Activation /\ new(d).fn = stack[d].fn /\ new(d).aid = stack[d].aid
                 /\ d = n => new(d).input = stack[d].input + Cardinality(Fresh(cells))
                 /\ d < n => new(d).input = stack[d].input - Cardinality(TakenFrom(d, cells))
      <4>1. stack[d] \in Activation /\ stack[d].input \in Int
        BY Types
      <4> QED
        BY <4>1, <1>6, <1>2, SMTT(30) DEF Activation
    <3>3. n \in 1..MaxDepth /\ \A d \in 1..(n - 1) : d \in 1..MaxDepth /\ d < n
      BY <1>2, Types
    <3>4. \A d \in 1..MaxDepth : stack'[d] = new(d)
      BY <3>1
    <3>5. stack' \in [Slot -> Activation]
      BY <3>1, <3>2 DEF Slot
    <3> HIDE DEF new
    <3> QED
      BY <2>2, <3>2, <3>3, <3>4, <3>5
  <2> QED
    BY <2>1, <2>2
<1>8. HTypeOK'
  <2>1. shadow' \in [Cell -> 0..(IdSpan - 1)]
    <3>1. stack[n].aid \in 0..(IdSpan - 1)
      BY <1>2, Types DEF Activation
    <3> QED
      BY <3>1, <1>5 DEF IInv, HTypeOK, TypeOK
  <2> QED
    BY <1>1, <1>3, <1>7, <2>1 DEF IInv, HTypeOK, TypeOK, AFrame
<1>9. IdsOrdered'
  <2>1. \A d \in 1..n : stack[d].aid > 0 /\ stack[d].aid < nextId
    BY <1>2 DEF IInv, IdsOrdered
  <2>2. \A d, e \in 1..n : d < e => stack[d].aid < stack[e].aid
    BY <1>2 DEF IInv, IdsOrdered
  <2>3. \A d \in 1..n : d \in 1..MaxDepth
    BY Types
  <2>4. \A c \in Cell : shadow'[c] < nextId
    BY <1>2, <1>5, <2>1 DEF IInv, IdsOrdered
  <2> QED
    BY <1>1, <1>4, <1>7, <2>1, <2>2, <2>3, <2>4 DEF IdsOrdered
<1>10. SkipCountsSkippedRoutines'
  <2>1. \A d \in 1..n : d \in 1..MaxDepth /\ stack'[d].fn = stack[d].fn
    BY <1>7, Types
  <2>2. {d \in 1..depth' : stack'[d].fn \in Skipped} = {d \in 1..depth : stack[d].fn \in Skipped}
    BY <1>1, <2>1
  <2>3. skip' = Cardinality({d \in 1..depth' : stack'[d].fn \in Skipped})
    BY <1>1, <2>2, Zenon DEF IInv, SkipCountsSkippedRoutines
  <2>4. \A d \in Live' : stack'[d].fn \notin Skipped
    BY <1>2, <1>4, <2>1 DEF IInv, SkipCountsSkippedRoutines
  <2>5. Len(frames') = depth'
    BY <1>1, <1>2, <1>3
  <2> QED
    BY <1>1, <1>2, <2>3, <2>4, <2>5 DEF SkipCountsSkippedRoutines
<1>11. ShadowMatchesHistory'
  <2> SUFFICES ASSUME NEW d \in 1..n
               PROVE  {c \in Cell : shadow'[c] >= stack'[d].aid} = frames'[d].accessed
    BY <1>4 DEF ShadowMatchesHistory, SeenBy
  <2>1. frames[d].accessed = {c \in Cell : shadow[c] >= stack[d].aid}
    BY <1>2 DEF IInv, ShadowMatchesHistory, SeenBy
  <2>2. stack'[d].aid = stack[d].aid /\ n \in 1..n
    BY <1>7, <1>2, Types
  <2>3. stack[n].aid >= stack[d].aid
    <3>1. stack[n].aid \in Int /\ stack[d].aid \in Int
      BY <2>2, Types
    <3>2. d < n => stack[d].aid < stack[n].aid
      BY <2>2, <1>2 DEF IInv, IdsOrdered
    <3> QED
      BY <1>2, <3>1, <3>2
  <2> QED
    BY <1>3, <1>5, <2>1, <2>2, <2>3
<1>12. InputIsTelescoped'
  <2> SUFFICES ASSUME NEW d \in 1..n
               PROVE  stack'[d].input = frames'[d].rms - IF d < n THEN frames'[d + 1].rms ELSE 0
    BY <1>3, <1>4 DEF InputIsTelescoped
  <2>1. stack[d].input = frames[d].rms - IF d < n THEN frames[d + 1].rms ELSE 0
    BY <1>2 DEF IInv, InputIsTelescoped
  <2>2. /\ frames[d].rms \in Int /\ stack[d].input \in Int
        /\ d < n => d + 1 \in 1..n /\ frames[d + 1].rms \in Int
    BY <1>2, Types
  <2>3. CASE ~ reads
    <3>1. stack'[d].input = stack[d].input
      BY <2>3, <1>7
    <3>2. \A e \in 1..n : frames'[e].rms = frames[e].rms + 0
      BY <2>3, <1>3 DEF Gain
    <3> HIDE DEF reads
    <3> QED
      BY <2>1, <2>2, <3>1, <3>2, <1>2
  <2>4. CASE reads /\ d = n
    <3>1. Cardinality(Fresh(cells)) = Cardinality(cells \ frames[n].accessed)
      BY <1>1, FreshAndTaken
    <3>2. Cardinality(Fresh(cells)) \in Int
      BY <1>6, <1>2, Types
    <3>3. /\ stack'[n].input = stack[n].input + Cardinality(Fresh(cells))
          /\ frames'[n].rms = frames[n].rms + Cardinality(Fresh(cells))
      BY <2>4, <3>1, <1>2, <1>3, <1>7 DEF Gain
    <3>4. stack[n].input = frames[n].rms /\ frames[n].rms \in Int
      BY <2>1, <2>2, <2>4
    <3> QED
      BY <2>4, <3>2, <3>3, <3>4
  <2>5. CASE reads /\ d < n
    <3> DEFINE now == Cardinality(cells \ frames[d].accessed)
               then == Cardinality(cells \ frames[d + 1].accessed)
               taken == Cardinality(TakenFrom(d, cells))
    <3>1. d \in 1..(n - 1) /\ d + 1 \in 1..n
      BY <2>5, <1>2
    <3>2. TakenFrom(d, cells) = (cells \ frames[d + 1].accessed) \cap frames[d].accessed
      BY <1>1, <3>1, FreshAndTaken
    <3>3. frames[d + 1].accessed \subseteq frames[d].accessed
      <4>1. /\ frames[d].accessed = {c \in Cell : shadow[c] >= stack[d].aid}
            /\ frames[d + 1].accessed = {c \in Cell : shadow[c] >= stack[d + 1].aid}
        BY <3>1, <1>2 DEF IInv, ShadowMatchesHistory, SeenBy
      <4>2. stack[d].aid < stack[d + 1].aid
        BY <3>1, <1>2 DEF IInv, IdsOrdered
      <4>3. stack[d].aid \in Int /\ stack[d + 1].aid \in Int /\ \A c \in Cell : shadow[c] \in Int
        BY <3>1, <1>2, Types
      <4> QED
        BY <4>1, <4>2, <4>3
    <3>4. (cells \ frames[d + 1].accessed) \ frames[d].accessed = cells \ frames[d].accessed
      BY <3>3
    <3>5. IsFiniteSet(cells \ frames[d + 1].accessed)
      BY CellAssumption, FS_Subset
    <3>6. then = taken + now /\ taken \in Nat /\ now \in Nat
      BY <3>2, <3>4, <3>5, CardinalitySplit, ZenonT(30)
    <3>7. /\ stack'[d].input = stack[d].input - taken
          /\ frames'[d].rms = frames[d].rms + now
          /\ frames'[d + 1].rms = frames[d + 1].rms + then
      BY <2>5, <3>1, <1>3, <1>7 DEF Gain
    <3>8. stack[d].input = frames[d].rms - frames[d + 1].rms
      BY <2>1, <2>5
    <3>9. frames[d].rms \in Int /\ frames[d + 1].rms \in Int
      BY <2>2, <2>5
    <3> HIDE DEF now, then, taken
    <3>10. stack'[d].input = frames'[d].rms - frames'[d + 1].rms
      BY <3>6, <3>7, <3>8, <3>9
    <3> QED
      BY <2>5, <3>10
  <2> QED
    BY <2>3, <2>4, <2>5, <1>2
<1> QED
  BY <1>8, <1>9, <1>10, <1>11, <1>12 DEF IInv

-----------------------------------------------------------------------------
(* Entering and leaving skipped routines.                                  *)

\* Changing nothing below the live activations keeps what is said of them.
LEMMA LiveUnchanged ==
  ASSUME IInv, UNCHANGED <<frames, nextId, shadow>>,
         \A d \in Live : stack'[d].aid = stack[d].aid /\ stack'[d].input = stack[d].input
  PROVE  IdsOrdered' /\ ShadowMatchesHistory' /\ InputIsTelescoped'
<1>1. Live' = Live
  BY DEF Live
<1>2. IdsOrdered'
  BY <1>1 DEF IInv, IdsOrdered
<1>3. ASSUME NEW d \in Live PROVE SeenBy(d)' = SeenBy(d)
  BY DEF SeenBy
<1>4. ShadowMatchesHistory'
  BY <1>1, <1>3 DEF IInv, ShadowMatchesHistory
<1>5. InputIsTelescoped'
  BY <1>1 DEF IInv, InputIsTelescoped
<1> QED
  BY <1>2, <1>4, <1>5

\* function_enter of, or inside, a skipped routine keeps the invariant and what the
\* live activations have seen.
LEMMA EnterSkippedStep ==
  ASSUME IInv, NEW f \in Routine, HEnterSkipped(f)
  PROVE  IInv' /\ \A d \in Live : SeenBy(d)' = SeenBy(d)
<1> DEFINE n == depth + 1
<1>1. /\ depth < MaxDepth /\ (f \in Skipped \/ skip > 0)
      /\ depth' = n
      /\ stack' = [stack EXCEPT ![n].fn = f]
      /\ skip' = IF f \in Skipped THEN skip + 1 ELSE skip
      /\ UNCHANGED <<nextId, shadow, exited, frames>>
  BY DEF HEnterSkipped, EnterSkipped
<1>2. n \in 1..MaxDepth /\ depth \in Nat /\ MaxDepth \in Nat /\ stack \in [1..MaxDepth -> Activation] /\ Len(frames) \in Nat
      /\ Len(frames) <= depth /\ skip \in Nat
  BY <1>1, Types DEF IInv, HTypeOK, TypeOK, Slot, SkipCountsSkippedRoutines
<1>3. /\ \A d \in 1..MaxDepth : stack'[d].aid = stack[d].aid /\ stack'[d].input = stack[d].input
      /\ \A d \in 1..MaxDepth : d # n => stack'[d].fn = stack[d].fn
      /\ stack'[n].fn = f
      /\ stack' \in [1..MaxDepth -> Activation]
  BY <1>1, <1>2 DEF Activation
<1>4. HTypeOK'
  BY <1>1, <1>2, <1>3 DEF IInv, HTypeOK, TypeOK, Slot
<1>5. \A d \in Live : d \in 1..MaxDepth /\ d # n
  BY <1>1, <1>2 DEF Live
<1>6. IdsOrdered' /\ ShadowMatchesHistory' /\ InputIsTelescoped'
  BY <1>1, <1>3, <1>5, LiveUnchanged
<1>7. SkipCountsSkippedRoutines'
  <2>1. \A d \in 1..depth : d \in 1..MaxDepth /\ d # n
    BY <1>1, <1>2
  <2>2. SkippedOn(stack', n) = IF f \in Skipped THEN SkippedOn(stack, depth) \cup {n} ELSE SkippedOn(stack, depth)
    BY <1>2, <1>3, <2>1 DEF SkippedOn
  <2>3. n \notin SkippedOn(stack, depth) /\ IsFiniteSet(SkippedOn(stack, depth))
    BY <1>2, SkippedOnFinite DEF SkippedOn
  <2>4. skip = Cardinality(SkippedOn(stack, depth))
    BY DEF IInv, SkipCountsSkippedRoutines, SkippedOn
  <2>5. Cardinality(SkippedOn(stack, depth) \cup {n}) = Cardinality(SkippedOn(stack, depth)) + 1
    BY <2>3, FS_AddElement
  <2>6. skip' = Cardinality(SkippedOn(stack', n))
    BY <1>1, <2>2, <2>4, <2>5
  <2>7. Len(frames') <= depth' /\ Live' = Live
    BY <1>1, <1>2 DEF Live
  <2>8. \A d \in Live' : stack'[d].fn \notin Skipped
    BY <1>3, <1>5, <2>7 DEF IInv, SkipCountsSkippedRoutines
  <2>9. stack'[Len(frames') + 1].fn \in Skipped
    <3>1. CASE Len(frames) < depth
      BY <1>1, <1>2, <1>3, <2>1, <3>1 DEF IInv, SkipCountsSkippedRoutines
    <3>2. CASE Len(frames) = depth
      <4>1. skip = 0
        <5>1. SkippedOn(stack, depth) = {}
          BY <3>2 DEF IInv, SkipCountsSkippedRoutines, SkippedOn, Live
        <5> QED
          BY <5>1, <2>4, FS_EmptySet
      <4> QED
        BY <1>1, <1>3, <3>2, <4>1
    <3> QED
      BY <1>2, <3>1, <3>2
  <2>10. skip' = Cardinality({d \in 1..depth' : stack'[d].fn \in Skipped})
    BY <1>1, <2>6 DEF SkippedOn
  <2> QED
    BY <2>7, <2>8, <2>9, <2>10 DEF SkipCountsSkippedRoutines
<1>8. \A d \in Live : SeenBy(d)' = SeenBy(d)
  BY <1>1, <1>3, <1>5 DEF SeenBy
<1> QED
  BY <1>4, <1>6, <1>7, <1>8 DEF IInv

\* function_exit of, or inside, a skipped routine keeps the invariant.
LEMMA ExitSkippedStep ==
  ASSUME IInv, HExitSkipped
  PROVE  IInv'
<1> DEFINE n == depth - 1
<1>1. /\ depth > 0 /\ skip > 0
      /\ depth' = n
      /\ skip' = IF stack[depth].fn \in Skipped THEN skip - 1 ELSE skip
      /\ UNCHANGED <<stack, nextId, shadow, exited, frames>>
  BY DEF HExitSkipped, ExitSkipped
<1>2. depth \in Nat /\ n \in Nat /\ depth = n + 1 /\ depth \in 1..MaxDepth /\ MaxDepth \in Nat /\ skip \in Nat
      /\ Len(frames) \in Nat /\ Len(frames) <= depth
  BY <1>1, Types DEF IInv, HTypeOK, TypeOK, SkipCountsSkippedRoutines
<1>3. HTypeOK'
  BY <1>1, <1>2 DEF IInv, HTypeOK, TypeOK
<1>4. IdsOrdered' /\ ShadowMatchesHistory' /\ InputIsTelescoped'
  BY <1>1, LiveUnchanged
<1>5. SkipCountsSkippedRoutines'
  <2>1. skip = Cardinality(SkippedOn(stack, depth)) /\ IsFiniteSet(SkippedOn(stack, depth))
    BY <1>2, SkippedOnFinite DEF IInv, SkipCountsSkippedRoutines, SkippedOn
  <2>2. SkippedOn(stack', n) = SkippedOn(stack, depth) \ {depth}
    BY <1>1, <1>2 DEF SkippedOn
  <2>3. stack[depth].fn \in Skipped <=> depth \in SkippedOn(stack, depth)
    BY <1>2 DEF SkippedOn
  <2>4. Cardinality(SkippedOn(stack, depth) \ {depth})
          = IF depth \in SkippedOn(stack, depth) THEN Cardinality(SkippedOn(stack, depth)) - 1
                                          ELSE Cardinality(SkippedOn(stack, depth))
    BY <2>1, FS_RemoveElement
  <2>5. skip' = Cardinality(SkippedOn(stack', n))
    BY <1>1, <2>1, <2>2, <2>3, <2>4
  <2>6. Len(frames) < depth
    <3> SUFFICES ASSUME Len(frames) = depth PROVE FALSE
      BY <1>2
    <3>1. SkippedOn(stack, depth) = {}
      BY DEF IInv, SkipCountsSkippedRoutines, SkippedOn, Live
    <3> QED
      BY <1>1, <2>1, <3>1, FS_EmptySet
  <2>7. Live' = Live /\ Len(frames') = Len(frames)
    BY <1>1 DEF Live
  <2>8. skip' = Cardinality({d \in 1..depth' : stack'[d].fn \in Skipped})
    BY <1>1, <2>5 DEF SkippedOn
  <2> QED
    BY <1>1, <1>2, <2>6, <2>7, <2>8 DEF IInv, SkipCountsSkippedRoutines
<1> QED
  BY <1>3, <1>4, <1>5 DEF IInv

-----------------------------------------------------------------------------
(* Entering and leaving routines that count.                               *)

\* With no skipped routine on the stack before, and a top that is not skipped, the
\* skip counter still agrees with the stack.
LEMMA NoneSkipped ==
  ASSUME skip' = 0, Len(frames') = depth',
         \A d \in 1..depth' : stack'[d].fn \notin Skipped, depth' \in Nat
  PROVE  SkipCountsSkippedRoutines'
<1>1. {d \in 1..depth' : stack'[d].fn \in Skipped} = {}
  OBVIOUS
<1>2. Cardinality({d \in 1..depth' : stack'[d].fn \in Skipped}) = 0
  BY <1>1, FS_EmptySet, Zenon
<1> QED
  BY <1>2 DEF SkipCountsSkippedRoutines, Live

\* function_enter keeps the invariant and what the live activations have seen.
LEMMA EnterStep ==
  ASSUME IInv, NEW f \in Routine, HEnter(f)
  PROVE  IInv' /\ \A d \in Live : SeenBy(d)' = SeenBy(d)
<1> DEFINE n == depth + 1
<1>1. /\ depth < MaxDepth /\ f \notin Skipped /\ skip = 0 /\ skip' = 0
      /\ nextId + 1 < IdSpan
      /\ depth' = depth + 1
      /\ stack' = [stack EXCEPT ![depth + 1] = [fn |-> f, aid |-> nextId, input |-> 0]]
      /\ nextId' = nextId + 1
      /\ UNCHANGED <<shadow, exited>>
      /\ frames' = Abstract!Called(frames)
  BY DEF HEnter, Enter
<1>2. /\ n \in 1..MaxDepth /\ MaxDepth \in Nat /\ depth \in Nat /\ nextId \in Nat /\ nextId > 0
      /\ stack \in [1..MaxDepth -> Activation]
      /\ frames \in Seq(AFrame) /\ Len(frames) = depth /\ Live = 1..depth
  BY <1>1, AllLive, Types DEF IInv, HTypeOK, TypeOK, Slot, AFrame
<1>3. /\ frames' \in Seq(AFrame) /\ Len(frames') = n
      /\ \A d \in 1..depth : frames'[d] = frames[d]
      /\ frames'[n].accessed = {} /\ frames'[n].rms = 0
  BY <1>1, <1>2, CalledFrames
<1>4. [fn |-> f, aid |-> nextId, input |-> 0] \in Activation
  BY <1>1, <1>2, Types DEF Activation
<1>5. /\ stack' \in [1..MaxDepth -> Activation]
      /\ \A d \in 1..depth : stack'[d] = stack[d]
      /\ stack'[n].fn = f /\ stack'[n].aid = nextId /\ stack'[n].input = 0
  BY <1>1, <1>2, <1>4
<1>6. Live' = 1..n /\ \A d \in 1..n : d \in 1..depth \/ d = n
  BY <1>2, <1>3 DEF Live
<1>7. HTypeOK'
  BY <1>1, <1>2, <1>3, <1>5, Types DEF IInv, HTypeOK, TypeOK, Slot, AFrame
<1>8. IdsOrdered'
  <2>1. \A d \in 1..depth : stack[d].aid > 0 /\ stack[d].aid < nextId /\ stack[d].aid \in Int
    BY <1>2, Types DEF IInv, IdsOrdered
  <2>2. \A d, e \in 1..depth : d < e => stack[d].aid < stack[e].aid
    BY <1>2 DEF IInv, IdsOrdered
  <2>3. \A c \in Cell : shadow[c] < nextId /\ shadow[c] \in Int
    BY Types DEF IInv, IdsOrdered
  <2>4. \A d \in 1..n : stack'[d].aid > 0 /\ stack'[d].aid < nextId'
    BY <1>1, <1>2, <1>5, <1>6, <2>1
  <2>5. \A d, e \in 1..n : d < e => stack'[d].aid < stack'[e].aid
    <3> SUFFICES ASSUME NEW d \in 1..n, NEW e \in 1..n, d < e
                 PROVE  stack'[d].aid < stack'[e].aid
      OBVIOUS
    <3>1. d \in 1..depth
      BY <1>2
    <3>2. CASE e = n
      BY <3>1, <3>2, <1>5, <2>1
    <3>3. CASE e \in 1..depth
      BY <3>1, <3>3, <1>5, <2>2
    <3> QED
      BY <3>2, <3>3, <1>6
  <2>6. \A c \in Cell : shadow'[c] < nextId'
    BY <1>1, <1>2, <2>3
  <2> QED
    BY <1>6, <2>4, <2>5, <2>6 DEF IdsOrdered
<1>9. SkipCountsSkippedRoutines'
  <2>1. \A d \in 1..n : stack'[d].fn \notin Skipped
    BY <1>1, <1>2, <1>5, <1>6 DEF IInv, SkipCountsSkippedRoutines
  <2> QED
    BY <1>1, <1>2, <1>3, <2>1, NoneSkipped
<1>10. ShadowMatchesHistory'
  <2> SUFFICES ASSUME NEW d \in 1..n
               PROVE  {c \in Cell : shadow'[c] >= stack'[d].aid} = frames'[d].accessed
    BY <1>6 DEF ShadowMatchesHistory, SeenBy
  <2>1. CASE d = n
    <3>1. \A c \in Cell : shadow[c] < nextId /\ shadow[c] \in Int
      BY Types DEF IInv, IdsOrdered
    <3> QED
      BY <2>1, <3>1, <1>1, <1>2, <1>3, <1>5
  <2>2. CASE d \in 1..depth
    BY <2>2, <1>1, <1>2, <1>3, <1>5 DEF IInv, ShadowMatchesHistory, SeenBy
  <2> QED
    BY <2>1, <2>2, <1>6
<1>11. InputIsTelescoped'
  <2> SUFFICES ASSUME NEW d \in 1..n
               PROVE  stack'[d].input = frames'[d].rms - IF d < n THEN frames'[d + 1].rms ELSE 0
    BY <1>3, <1>6 DEF InputIsTelescoped
  <2>1. CASE d = n
    BY <2>1, <1>2, <1>3, <1>5
  <2>2. CASE d \in 1..depth
    <3>1. stack[d].input = frames[d].rms - IF d < depth THEN frames[d + 1].rms ELSE 0
      BY <2>2, <1>2 DEF IInv, InputIsTelescoped
    <3>2. d < depth => d + 1 \in 1..depth
      BY <2>2, <1>2
    <3>3. d < n /\ (d + 1 = n \/ d < depth) /\ ~ (d + 1 = n /\ d < depth)
      BY <2>2, <1>2
    <3>4. CASE d < depth
      BY <2>2, <3>1, <3>2, <3>3, <3>4, <1>3, <1>5
    <3>5. CASE d + 1 = n
      BY <2>2, <3>1, <3>3, <3>5, <1>3, <1>5
    <3> QED
      BY <3>3, <3>4, <3>5
  <2> QED
    BY <2>1, <2>2, <1>6
<1>12. \A d \in Live : SeenBy(d)' = SeenBy(d)
  BY <1>1, <1>2, <1>5 DEF SeenBy
<1> QED
  BY <1>7, <1>8, <1>9, <1>10, <1>11, <1>12 DEF IInv

\* function_exit keeps the invariant, and files the activation under its true size.
LEMMA ExitStep ==
  ASSUME IInv, HExit
  PROVE  IInv' /\ exited' = frames[Len(frames)].rms
<1> DEFINE n == depth - 1
<1>1. /\ depth > 0 /\ skip = 0 /\ skip' = 0
      /\ depth' = depth - 1
      /\ exited' = stack[depth].input
      /\ stack' = IF depth > 1 THEN [stack EXCEPT ![depth - 1].input = @ + stack[depth].input]
                               ELSE stack
      /\ UNCHANGED <<nextId, shadow>>
      /\ frames' = Abstract!Returned(frames)
  BY DEF HExit, Exit
<1>2. /\ depth \in Nat /\ n \in Nat /\ depth = n + 1 /\ depth \in 1..depth /\ depth <= MaxDepth
      /\ MaxDepth \in Nat
      /\ frames \in Seq(AFrame) /\ Len(frames) = depth /\ Live = 1..depth
      /\ stack \in [1..MaxDepth -> Activation]
  BY <1>1, AllLive, Types DEF IInv, HTypeOK, TypeOK, Slot, AFrame
<1>3. /\ frames' \in Seq(AFrame) /\ Len(frames') = n
      /\ \A d \in 1..n : frames'[d] = frames[d]
  BY <1>1, <1>2, ReturnedFrames
<1>4. \A d \in 1..n : d \in 1..depth /\ d \in 1..MaxDepth /\ d + 1 \in 1..depth
  BY <1>2
<1>5. /\ stack' \in [1..MaxDepth -> Activation]
      /\ \A d \in 1..MaxDepth : stack'[d].fn = stack[d].fn /\ stack'[d].aid = stack[d].aid
      /\ \A d \in 1..n : stack'[d].input = IF d = n THEN stack[d].input + stack[depth].input
                                                    ELSE stack[d].input
  <2>1. CASE depth > 1
    <3>1. n \in 1..MaxDepth /\ stack[n] \in Activation /\ stack[n].input \in Int
          /\ stack[depth].input \in Int
      BY <2>1, <1>2, Types
    <3>2. stack' = [stack EXCEPT ![n].input = stack[n].input + stack[depth].input]
      BY <2>1, <1>1
    <3>3. [stack[n] EXCEPT !.input = stack[n].input + stack[depth].input] \in Activation
      BY <3>1 DEF Activation
    <3>4. \A d \in 1..MaxDepth :
            stack'[d] = IF d = n THEN [stack[d] EXCEPT !.input = stack[n].input + stack[depth].input]
                                 ELSE stack[d]
      BY <3>1, <3>2, <1>2
    <3>5. stack' \in [1..MaxDepth -> Activation]
      BY <3>1, <3>2, <3>3, <1>2
    <3>6. \A d \in 1..MaxDepth : stack[d] \in Activation
      BY <1>2
    <3> HIDE DEF n
    <3>7. \A d \in 1..MaxDepth : stack'[d].fn = stack[d].fn /\ stack'[d].aid = stack[d].aid
      BY <3>4, <3>6 DEF Activation
    <3>8. \A d \in 1..n : stack'[d].input = IF d = n THEN stack[d].input + stack[depth].input
                                                      ELSE stack[d].input
      BY <3>4, <3>6, <1>4 DEF Activation
    <3> QED
      BY <3>5, <3>7, <3>8
  <2>2. CASE ~ (depth > 1)
    <3>1. stack' = stack /\ n = 0
      BY <2>2, <1>1, <1>2
    <3> QED
      BY <3>1, <1>2
  <2> QED
    BY <2>1, <2>2
<1>6. Live' = 1..n
  BY <1>3 DEF Live
<1>7. stack[depth].input = frames[depth].rms
  <2>1. stack[depth].input = frames[depth].rms - 0
    BY <1>2 DEF IInv, InputIsTelescoped
  <2>2. frames[depth].rms \in Int
    BY <1>2, Types
  <2> QED
    BY <2>1, <2>2
<1>8. exited' \in Int /\ exited' = frames[Len(frames)].rms
  BY <1>1, <1>2, <1>7, Types
<1>9. HTypeOK'
  BY <1>1, <1>2, <1>3, <1>5, <1>8 DEF IInv, HTypeOK, TypeOK, Slot, AFrame
<1>10. IdsOrdered'
  BY <1>1, <1>2, <1>4, <1>5, <1>6 DEF IInv, IdsOrdered
<1>11. SkipCountsSkippedRoutines'
  <2>1. \A d \in 1..n : stack'[d].fn \notin Skipped
    BY <1>2, <1>4, <1>5 DEF IInv, SkipCountsSkippedRoutines
  <2> QED
    BY <1>1, <1>2, <1>3, <2>1, NoneSkipped
<1>12. ShadowMatchesHistory'
  <2> SUFFICES ASSUME NEW d \in 1..n
               PROVE  {c \in Cell : shadow'[c] >= stack'[d].aid} = frames'[d].accessed
    BY <1>6 DEF ShadowMatchesHistory, SeenBy
  <2> QED
    BY <1>1, <1>2, <1>3, <1>4, <1>5 DEF IInv, ShadowMatchesHistory, SeenBy
<1>13. InputIsTelescoped'
  <2> SUFFICES ASSUME NEW d \in 1..n
               PROVE  stack'[d].input = frames'[d].rms - IF d < n THEN frames'[d + 1].rms ELSE 0
    BY <1>3, <1>6 DEF InputIsTelescoped
  <2>1. stack[d].input = frames[d].rms - frames[d + 1].rms
    BY <1>2, <1>4 DEF IInv, InputIsTelescoped
  <2>2. frames[d].rms \in Int /\ frames[d + 1].rms \in Int /\ frames'[d] = frames[d]
    BY <1>2, <1>3, <1>4, Types
  <2>3. CASE d = n
    BY <2>1, <2>2, <2>3, <1>2, <1>5, <1>7
  <2>4. CASE d < n
    <3>1. d + 1 \in 1..n
      BY <2>4, <1>2
    <3> QED
      BY <2>1, <2>2, <2>4, <3>1, <1>3, <1>5
  <2> QED
    BY <2>3, <2>4, <1>2
<1> QED
  BY <1>8, <1>9, <1>10, <1>11, <1>12, <1>13 DEF IInv

-----------------------------------------------------------------------------
(* The wrap of the activation-id counter.                                  *)

\* LK_compress_rms keeps the order between a timestamp and the ids of the stack, which
\* overflow_handler_rms replaces by 1, 2, ... from the bottom.
LEMMA CompressionKeepsOrder ==
  ASSUME NEW n \in Nat, NEW ids \in [1..n -> Nat], NEW ts \in Nat,
         \A d \in 1..n : ids[d] > 0,
         \A d, e \in 1..n : d < e => ids[d] < ids[e]
  PROVE  /\ CompressedTs(ids, ts) \in 0..n
         /\ \A d \in 1..n : CompressedTs(ids, ts) >= d <=> ts >= ids[d]
<1> DEFINE Stops(k) == ids[k] <= ts /\ \A j \in DOMAIN ids : j > k => ids[j] > ts
<1>1. DOMAIN ids = 1..n /\ \A d \in 1..n : ids[d] \in Nat
  OBVIOUS
<1>2. CASE ts = 0 \/ \A k \in 1..n : ids[k] > ts
  <2>1. CompressedTs(ids, ts) = 0
    BY <1>1, <1>2 DEF CompressedTs
  <2>2. \A d \in 1..n : ~ (ts >= ids[d])
    BY <1>1, <1>2
  <2> QED
    BY <2>1, <2>2
<1>3. CASE ~ (ts = 0 \/ \A k \in 1..n : ids[k] > ts)
  <2>1. \E k \in 1..n : ids[k] <= ts
    BY <1>1, <1>3
  <2>2. ids \in [1..n -> Int] /\ ts \in Int
    OBVIOUS
  <2>3. PICK d \in 1..n : ids[d] <= ts /\ \A e \in (d + 1)..n : ids[e] > ts
    BY <2>1, <2>2, SearchStops
  <2>4. Stops(d)
    <3>1. \A j \in 1..n : j > d => j \in (d + 1)..n
      OBVIOUS
    <3> QED
      BY <1>1, <2>3, <3>1
  <2>5. CompressedTs(ids, ts) = CHOOSE k \in DOMAIN ids : Stops(k)
    BY <1>1, <1>3 DEF CompressedTs
  <2> DEFINE k == CompressedTs(ids, ts)
  <2>6. k \in 1..n /\ Stops(k)
    <3> HIDE DEF Stops
    <3> QED
      BY <1>1, <2>4, <2>5
  <2> HIDE DEF k
  <2>7. ASSUME NEW e \in 1..n PROVE k >= e <=> ts >= ids[e]
    <3>1. CASE e < k
      BY <3>1, <2>6, <1>1
    <3>2. CASE e = k
      BY <3>2, <2>6, <1>1
    <3>3. CASE e > k
      BY <3>3, <2>6, <1>1
    <3> QED
      BY <3>1, <3>2, <3>3, <2>6
  <2> QED
    BY <2>6, <2>7 DEF k
<1> QED
  BY <1>2, <1>3

\* function_enter that wraps the id counter keeps the invariant, and what the live
\* activations have seen, although it rewrites every id and every timestamp.
LEMMA EnterAtWrapStep ==
  ASSUME IInv, NEW f \in Routine, HEnterAtWrap(f)
  PROVE  IInv' /\ \A d \in Live : SeenBy(d)' = SeenBy(d)
<1> DEFINE n == depth + 1
           ids == [d \in 1..n |-> IF d = n THEN nextId ELSE stack[d].aid]
<1>1. /\ depth < MaxDepth /\ f \notin Skipped /\ skip = 0 /\ skip' = 0
      /\ depth' = depth + 1
      /\ nextId' = depth + 2
      /\ shadow' = [c \in Cell |-> CompressedTs(ids, shadow[c])]
      /\ stack' = [d \in Slot |->
                     IF d = depth + 1 THEN [fn |-> f, aid |-> depth + 1, input |-> 0]
                     ELSE IF d <= depth THEN [stack[d] EXCEPT !.aid = d]
                     ELSE stack[d]]
      /\ UNCHANGED exited
      /\ frames' = Abstract!Called(frames)
  BY DEF HEnterAtWrap, EnterAtWrap
<1>2. /\ n \in Nat /\ n \in 1..MaxDepth /\ MaxDepth \in Nat /\ depth \in Nat /\ nextId \in Nat
      /\ nextId > 0 /\ n + 1 < IdSpan /\ IdSpan \in Nat
      /\ stack \in [1..MaxDepth -> Activation]
      /\ frames \in Seq(AFrame) /\ Len(frames) = depth /\ Live = 1..depth
  <2>1. n + 1 < IdSpan
    BY <1>1, Types, BoundAssumption
  <2> QED
    BY <2>1, <1>1, AllLive, Types DEF IInv, HTypeOK, TypeOK, Slot, AFrame
<1>3. /\ frames' \in Seq(AFrame) /\ Len(frames') = n
      /\ \A d \in 1..depth : frames'[d] = frames[d]
      /\ frames'[n].accessed = {} /\ frames'[n].rms = 0
  BY <1>1, <1>2, CalledFrames
<1>4. Live' = 1..n /\ \A d \in 1..n : (d \in 1..depth \/ d = n) /\ d \in 1..MaxDepth
  BY <1>2, <1>3 DEF Live
<1>5. /\ stack' \in [1..MaxDepth -> Activation]
      /\ \A d \in 1..n : stack'[d].aid = d
      /\ \A d \in 1..depth : stack'[d].fn = stack[d].fn /\ stack'[d].input = stack[d].input
      /\ stack'[n].fn = f /\ stack'[n].input = 0
  <2> DEFINE new(d) == IF d = depth + 1 THEN [fn |-> f, aid |-> depth + 1, input |-> 0]
                       ELSE IF d <= depth THEN [stack[d] EXCEPT !.aid = d]
                       ELSE stack[d]
  <2>1. stack' = [d \in 1..MaxDepth |-> new(d)]
    BY <1>1 DEF Slot
  <2>2. ASSUME NEW d \in 1..MaxDepth
        PROVE  /\ new(d) \in Activation
               /\ d <= n => new(d).aid = d
               /\ d <= depth => new(d).fn = stack[d].fn /\ new(d).input = stack[d].input
               /\ d = n => new(d).fn = f /\ new(d).input = 0
    <3>1. stack[d] \in Activation /\ stack[d].fn \in Routine /\ stack[d].input \in Int
      BY <1>2 DEF Activation
    <3>2. CASE d = depth + 1
      <4>1. new(d) = [fn |-> f, aid |-> d, input |-> 0]
        BY <3>2
      <4>2. d \in 0..(IdSpan - 1) /\ ~ (d <= depth) /\ d = n
        BY <3>2, <1>2
      <4> HIDE DEF new
      <4> QED
        BY <4>1, <4>2 DEF Activation
    <3>3. CASE d <= depth
      <4>1. new(d) = [stack[d] EXCEPT !.aid = d]
        BY <3>3, <1>2
      <4>2. d \in 0..(IdSpan - 1) /\ d # n
        BY <3>3, <1>2
      <4> HIDE DEF new
      <4> QED
        BY <3>1, <4>1, <4>2 DEF Activation
    <3>4. CASE d > depth + 1
      <4>1. new(d) = stack[d] /\ ~ (d <= n) /\ ~ (d <= depth) /\ d # n
        BY <3>4, <1>2
      <4> HIDE DEF new
      <4> QED
        BY <3>1, <4>1
    <3> QED
      BY <3>2, <3>3, <3>4, <1>2
  <2>3. \A d \in 1..MaxDepth : stack'[d] = new(d)
    BY <2>1
  <2>4. stack' \in [1..MaxDepth -> Activation]
    BY <2>1, <2>2
  <2>5. \A d \in 1..n : d \in 1..MaxDepth /\ d <= n /\ (d \in 1..depth => d <= depth)
    BY <1>2
  <2>6. \A d \in 1..depth : d \in 1..n /\ n \in 1..n
    BY <1>2
  <2> HIDE DEF new
  <2> QED
    BY <1>2, <2>2, <2>3, <2>4, <2>5, <2>6
<1>6. /\ ids \in [1..n -> Nat]
      /\ \A d \in 1..n : ids[d] > 0
      /\ \A d, e \in 1..n : d < e => ids[d] < ids[e]
      /\ ids[n] = nextId /\ \A d \in 1..depth : ids[d] = stack[d].aid
  <2>1. \A d \in 1..depth : stack[d].aid > 0 /\ stack[d].aid < nextId /\ stack[d].aid \in Nat
    BY <1>2, Types DEF IInv, IdsOrdered
  <2>2. \A d, e \in 1..depth : d < e => stack[d].aid < stack[e].aid
    BY <1>2 DEF IInv, IdsOrdered
  <2>3. \A d \in 1..n : d # n => d \in 1..depth
    BY <1>4
  <2>4. \A d \in 1..depth : d # n /\ d \in 1..n
    BY <1>2
  <2>5. \A d, e \in 1..n : d < e => d # n
    BY <1>2
  <2> QED
    BY <1>2, <2>1, <2>2, <2>3, <2>4, <2>5
<1>7. ASSUME NEW c \in Cell
      PROVE  /\ shadow'[c] \in 0..n
             /\ \A d \in 1..n : shadow'[c] >= d <=> shadow[c] >= ids[d]
  <2>1. shadow[c] \in Nat /\ shadow'[c] = CompressedTs(ids, shadow[c])
    BY <1>1, Types
  <2> HIDE DEF ids, n
  <2> QED
    BY <2>1, <1>2, <1>6, CompressionKeepsOrder
<1>8. HTypeOK'
  <2>1. shadow' \in [Cell -> 0..(IdSpan - 1)]
    <3>1. \A c \in Cell : shadow'[c] \in 0..(IdSpan - 1)
      BY <1>2, <1>7
    <3> QED
      BY <1>1, <3>1
  <2>2. nextId' \in 1..(IdSpan - 1) /\ depth' \in 0..MaxDepth
    BY <1>1, <1>2
  <2> QED
    BY <1>1, <1>3, <1>5, <2>1, <2>2 DEF IInv, HTypeOK, TypeOK, Slot, AFrame
<1>9. IdsOrdered'
  <2>1. \A d \in 1..n : stack'[d].aid > 0 /\ stack'[d].aid < nextId'
    BY <1>1, <1>2, <1>5
  <2>2. \A d, e \in 1..n : d < e => stack'[d].aid < stack'[e].aid
    BY <1>5
  <2>3. \A c \in Cell : shadow'[c] < nextId'
    BY <1>1, <1>2, <1>7
  <2> QED
    BY <1>4, <2>1, <2>2, <2>3 DEF IdsOrdered
<1>10. SkipCountsSkippedRoutines'
  <2>1. \A d \in 1..n : stack'[d].fn \notin Skipped
    BY <1>1, <1>2, <1>4, <1>5 DEF IInv, SkipCountsSkippedRoutines
  <2> QED
    BY <1>1, <1>2, <1>3, <2>1, NoneSkipped
<1>11. \A d \in 1..depth : SeenBy(d)' = SeenBy(d)
  <2> SUFFICES ASSUME NEW d \in 1..depth
               PROVE  {c \in Cell : shadow'[c] >= stack'[d].aid}
                        = {c \in Cell : shadow[c] >= stack[d].aid}
    BY DEF SeenBy
  <2>1. d \in 1..n /\ ids[d] = stack[d].aid /\ stack'[d].aid = d
    BY <1>2, <1>5, <1>6
  <2> HIDE DEF ids
  <2> QED
    BY <2>1, <1>7
<1>12. ShadowMatchesHistory'
  <2> SUFFICES ASSUME NEW d \in 1..n
               PROVE  {c \in Cell : shadow'[c] >= stack'[d].aid} = frames'[d].accessed
    BY <1>4 DEF ShadowMatchesHistory, SeenBy
  <2>1. CASE d = n
    <3>1. \A c \in Cell : shadow[c] < ids[n] /\ shadow[c] \in Nat /\ ids[n] \in Nat
      BY <1>2, <1>6, Types DEF IInv, IdsOrdered
    <3>2. \A c \in Cell : ~ (shadow'[c] >= n)
      <4> HIDE DEF ids
      <4> QED
        BY <3>1, <2>1, <1>7
    <3>3. stack'[n].aid = n
      BY <2>1, <1>5
    <3> QED
      BY <2>1, <3>2, <3>3, <1>3
  <2>2. CASE d \in 1..depth
    BY <2>2, <1>2, <1>3, <1>11 DEF IInv, ShadowMatchesHistory, SeenBy
  <2> QED
    BY <2>1, <2>2, <1>4
<1>13. InputIsTelescoped'
  <2> SUFFICES ASSUME NEW d \in 1..n
               PROVE  stack'[d].input = frames'[d].rms - IF d < n THEN frames'[d + 1].rms ELSE 0
    BY <1>3, <1>4 DEF InputIsTelescoped
  <2>1. CASE d = n
    BY <2>1, <1>2, <1>3, <1>5
  <2>2. CASE d \in 1..depth
    <3>1. stack[d].input = frames[d].rms - IF d < depth THEN frames[d + 1].rms ELSE 0
      BY <2>2, <1>2 DEF IInv, InputIsTelescoped
    <3>2. d < depth => d + 1 \in 1..depth
      BY <2>2, <1>2
    <3>3. d < n /\ (d + 1 = n \/ d < depth) /\ ~ (d + 1 = n /\ d < depth)
      BY <2>2, <1>2
    <3>4. CASE d < depth
      BY <2>2, <3>1, <3>2, <3>3, <3>4, <1>3, <1>5
    <3>5. CASE d + 1 = n
      BY <2>2, <3>1, <3>3, <3>5, <1>3, <1>5
    <3> QED
      BY <3>3, <3>4, <3>5
  <2> QED
    BY <2>1, <2>2, <1>4
<1> QED
  BY <1>2, <1>8, <1>9, <1>10, <1>11, <1>12, <1>13 DEF IInv

-----------------------------------------------------------------------------
(* The theorems.                                                           *)

\* Every step of a profiled thread keeps the invariant.
LEMMA NextStep == IInv /\ [HNext]_hvars => IInv'
<1> SUFFICES ASSUME IInv, [HNext]_hvars PROVE IInv'
  OBVIOUS
<1>1. CASE \E type \in AccessType, cells \in SUBSET Cell : HAccess(type, cells)
  BY <1>1, AccessStep
<1>2. CASE \E f \in Routine : HEnterSkipped(f)
  BY <1>2, EnterSkippedStep
<1>3. CASE \E f \in Routine : HEnter(f)
  BY <1>3, EnterStep
<1>4. CASE \E f \in Routine : HEnterAtWrap(f)
  BY <1>4, EnterAtWrapStep
<1>5. CASE HExitSkipped
  BY <1>5, ExitSkippedStep
<1>6. CASE HExit
  BY <1>6, ExitStep
<1>7. CASE UNCHANGED hvars
  <2> USE <1>7 DEF hvars, vars
  <2>1. UNCHANGED <<depth, stack, skip, nextId, shadow, exited, frames>>
    OBVIOUS
  <2>2. Live' = Live /\ \A d \in Live : SeenBy(d)' = SeenBy(d)
    BY <2>1 DEF Live, SeenBy
  <2>3. HTypeOK' /\ IdsOrdered'
    BY <2>1, <2>2 DEF IInv, HTypeOK, TypeOK, IdsOrdered
  <2>4. SkipCountsSkippedRoutines' /\ ShadowMatchesHistory' /\ InputIsTelescoped'
    BY <2>1, <2>2
       DEF IInv, SkipCountsSkippedRoutines, ShadowMatchesHistory, InputIsTelescoped
  <2> QED
    BY <2>3, <2>4 DEF IInv
<1> QED
  BY <1>1, <1>2, <1>3, <1>4, <1>5, <1>6, <1>7 DEF HNext

\* The inductive invariant holds in every state a profiled thread can reach.
THEOREM Invariance == HSpec => []IInv
<1>1. HInit => IInv
  BY Initially
<1>2. IInv /\ [HNext]_hvars => IInv'
  BY NextStep
<1> QED
  BY <1>1, <1>2, PTL DEF HSpec

\* The fields of struct ThreadData stay within their types: neither the depth, nor the
\* id counter, nor a compressed timestamp leaves its range.
THEOREM TypeCorrect == HSpec => []HTypeOK
<1>1. IInv => HTypeOK
  BY DEF IInv
<1> QED
  BY <1>1, Invariance, PTL

\* The ids of the activations grow up the stack, so the binary search of
\* LK_compress_rms and the downward search of get_activation_by_aid are sound.
THEOREM Ordered == HSpec => []IdsOrdered
<1>1. IInv => IdsOrdered
  BY DEF IInv
<1> QED
  BY <1>1, Invariance, PTL

\* tdata->skip is the number of skipped routines on the stack.
THEOREM SkipExact == HSpec => []SkipCountsSkippedRoutines
<1>1. IInv => SkipCountsSkippedRoutines
  BY DEF IInv
<1> QED
  BY <1>1, Invariance, PTL

\* The shadow memory answers "has this activation accessed that cell" exactly.
THEOREM ShadowExact == HSpec => []ShadowMatchesHistory
<1>1. IInv => ShadowMatchesHistory
  BY DEF IInv
<1> QED
  BY <1>1, Invariance, PTL

\* The partial counters add up, from the top of the stack down, to the true sizes.
THEOREM Telescoped == HSpec => []InputIsTelescoped
<1>1. IInv => InputIsTelescoped
  BY DEF IInv
<1> QED
  BY <1>1, Invariance, PTL

\* Each step of the profiler is a step of the definition of the metric, or invisible in it.
LEMMA StepRefines ==
  ASSUME IInv, [HNext]_hvars
  PROVE  [Abstract!ANext]_(Abstract!avars)
<1> USE DEF Abstract!avars
<1>1. ASSUME NEW type \in AccessType, NEW cells \in SUBSET Cell, HAccess(type, cells)
      PROVE  Abstract!ANext
  <2>1. (type # "store") \in BOOLEAN
    OBVIOUS
  <2>2. frames' = Abstract!Touched(frames, cells, type # "store") /\ UNCHANGED exited
    BY <1>1 DEF HAccess, Access
  <2> QED
    BY <2>1, <2>2 DEF Abstract!ANext, Abstract!AAccess
<1>2. ASSUME NEW f \in Routine, HEnterSkipped(f)
      PROVE  UNCHANGED Abstract!avars
  BY <1>2 DEF HEnterSkipped, EnterSkipped
<1>3. ASSUME NEW f \in Routine, HEnter(f)
      PROVE  Abstract!ANext
  BY <1>3 DEF HEnter, Enter, Abstract!ANext, Abstract!ACall
<1>4. ASSUME NEW f \in Routine, HEnterAtWrap(f)
      PROVE  Abstract!ANext
  BY <1>4 DEF HEnterAtWrap, EnterAtWrap, Abstract!ANext, Abstract!ACall
<1>5. ASSUME HExitSkipped
      PROVE  UNCHANGED Abstract!avars
  BY <1>5 DEF HExitSkipped, ExitSkipped
<1>6. ASSUME HExit
      PROVE  Abstract!ANext
  <2>1. exited' = frames[Len(frames)].rms /\ frames' = Abstract!Returned(frames)
    BY <1>6, ExitStep DEF HExit
  <2>2. frames # <<>>
    <3>1. skip = 0 /\ depth > 0
      BY <1>6 DEF HExit, Exit
    <3>2. Len(frames) > 0
      BY <3>1, AllLive
    <3> QED
      BY <3>2
  <2> QED
    BY <2>1, <2>2 DEF Abstract!ANext, Abstract!AReturn
<1>7. ASSUME UNCHANGED hvars
      PROVE  UNCHANGED Abstract!avars
  BY <1>7 DEF hvars, vars
<1> QED
  BY <1>1, <1>2, <1>3, <1>4, <1>5, <1>6, <1>7 DEF HNext

\* The profiler implements the definition of the metric: function_exit files every
\* activation under the number of cells it, or a descendant, read before writing.
THEOREM Implements == HSpec => RefinesReadMemorySize
<1>1. HInit => Abstract!AInit
  BY DEF HInit, Init, Abstract!AInit
<1>2. IInv /\ [HNext]_hvars => [Abstract!ANext]_(Abstract!avars)
  BY StepRefines
<1> QED
  BY <1>1, <1>2, Invariance, PTL DEF HSpec, RefinesReadMemorySize, Abstract!ASpec
=============================================================================
