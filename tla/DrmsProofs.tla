----------------------------- MODULE DrmsProofs -----------------------------
(***************************************************************************)
(* Proofs about the DRMS profiler, for every number of threads and cells,  *)
(* every stack bound, every partition of the cells into chunks and every   *)
(* width of the counter that can hold the activations of all threads.      *)
(*                                                                         *)
(* What the invariant says of one thread is stated of a stack, two shadow  *)
(* memories and a history given as arguments: a handler that renumbers     *)
(* first and counts afterwards passes through a state of its own.          *)
(***************************************************************************)
EXTENDS DrmsRefinement, NaturalLemmas, FiniteSetTheorems, SequenceTheorems, TLAPS

AFrame == Abstract!Frame

\* What a stack and two shadow memories say activation d knows.
Knows(st, loc, glo, d) == {c \in Cell : loc[c] >= st[d].aid /\ loc[c] >= glo[c]}

\* The dynamic reads an activation has counted, with those that the callees still open
\* have not handed to it yet.
DynamicSums(st, fr) ==
  \E sum \in [1..Len(fr) -> Nat] : \A d \in 1..Len(fr) :
     /\ st[d].dynamic = sum[d] - IF d < Len(fr) THEN sum[d + 1] ELSE 0
     /\ sum[d] <= fr[d].size

\* The types of one thread's stack, of its and the global memory, and of its history.
ThreadTypes(st, loc, glo, fr, now) ==
  /\ st \in [Slot -> Activation]
  /\ loc \in [Cell -> Nat] /\ glo \in [Cell -> Nat]
  /\ fr \in Seq(AFrame) /\ Len(fr) <= MaxDepth
  /\ now \in Nat

\* What the profiler knows of one thread at time `now`.
ThreadInv(st, loc, glo, fr, now) ==
  /\ ThreadTypes(st, loc, glo, fr, now)
  /\ \A d \in 1..Len(fr) : st[d].aid > 0 /\ st[d].aid <= now
  /\ \A d, e \in 1..Len(fr) : d < e => st[d].aid < st[e].aid
  /\ \A d \in 1..Len(fr) : Knows(st, loc, glo, d) = fr[d].known
  /\ \A d \in 1..Len(fr) :
       st[d].input = fr[d].size - IF d < Len(fr) THEN fr[d + 1].size ELSE 0
  /\ DynamicSums(st, fr)

\* The skipped routines on a stack of depth n.
SkippedOn(st, n) == {d \in 1..n : st[d].fn \in Skipped}

\* The skip counter sk agrees with a stack of depth n with len live activations.
SkipInv(st, n, sk, len) ==
  /\ sk = Cardinality(SkippedOn(st, n))
  /\ len <= n
  /\ \A d \in 1..len : st[d].fn \notin Skipped
  /\ len < n => st[len + 1].fn \in Skipped

\* No two activations of the program share an id.
IdsDistinct ==
  \A t, u \in Thread : t # u =>
    \A d \in Live(t), e \in Live(u) : stack[t][d].aid # stack[u][e].aid

\* No time lies ahead of the counter; the accesses of the threads that do not run lie
\* strictly behind it.
TimesBounded ==
  /\ \A c \in Cell : global[c] <= counter
  /\ \A t \in Thread, c \in Cell :
       IF current \in {t, NoThread} THEN local[t][c] <= counter ELSE local[t][c] < counter

\* A cell of a chunk that is not allocated carries no time.
UnallocatedUntouched ==
  /\ \A c \in Cell : c \notin gchunks => global[c] = 0
  /\ \A t \in Thread, c \in Cell : c \notin chunks[t] => local[t][c] = 0

\* The inductive invariant.
IInv ==
  /\ HTypeOK
  /\ \A t \in Thread : ThreadInv(stack[t], local[t], global, frames[t], counter)
  /\ \A t \in Thread : SkipInv(stack[t], depth[t], skip[t], Len(frames[t]))
  /\ IdsDistinct
  /\ TimesBounded
  /\ UnallocatedUntouched

-----------------------------------------------------------------------------
(* Counting.                                                               *)

\* The instance of DynamicReadMemorySize counts sets as this module does.
LEMMA SameCardinality == \A S : Abstract!Cardinality(S) = Cardinality(S)
  BY Zenon DEF Abstract!Cardinality, Cardinality

\* The cells of an access can be counted.
LEMMA CellsFinite ==
  ASSUME NEW S \in SUBSET Cell
  PROVE  IsFiniteSet(S) /\ Cardinality(S) \in Nat
<1>1. IsFiniteSet(S)
  BY SetsAssumption, FS_Subset
<1> QED
  BY <1>1, FS_CardinalityType

-----------------------------------------------------------------------------
(* One thread.                                                             *)

\* Every field as a number.
LEMMA ThreadFacts ==
  ASSUME NEW st, NEW loc, NEW glo, NEW fr, NEW now, ThreadTypes(st, loc, glo, fr, now)
  PROVE  /\ MaxDepth \in Nat /\ Len(fr) \in Nat /\ Len(fr) <= MaxDepth /\ now \in Nat
         /\ \A d \in Slot : /\ d \in Int /\ st[d] \in Activation /\ st[d].fn \in Routine
                            /\ st[d].aid \in Time /\ st[d].aid \in Nat
                            /\ st[d].input \in Int /\ st[d].dynamic \in Nat
         /\ \A d \in 1..Len(fr) : /\ d \in Slot
                                  /\ st[d].aid \in Nat
                                  /\ st[d].input \in Int /\ st[d].dynamic \in Nat
                                  /\ fr[d] \in AFrame
                                  /\ fr[d].known \in SUBSET Cell /\ fr[d].size \in Nat
         /\ \A c \in Cell : loc[c] \in Nat /\ glo[c] \in Nat
<1> USE CountAssumption DEF ThreadTypes
<1>1. MaxDepth \in Nat /\ Len(fr) \in Nat /\ Len(fr) <= MaxDepth /\ now \in Nat
  BY LenProperties
<1>2. \A d \in Slot : /\ d \in Int /\ st[d] \in Activation /\ st[d].fn \in Routine
                      /\ st[d].aid \in Time /\ st[d].aid \in Nat
                      /\ st[d].input \in Int /\ st[d].dynamic \in Nat
  <2>1. \A d \in Slot : d \in Int /\ st[d] \in Activation
    BY DEF Slot
  <2>2. \A a \in Activation : a.fn \in Routine /\ a.aid \in Time /\ a.aid \in Nat
                               /\ a.input \in Int /\ a.dynamic \in Nat
    BY DEF Activation, Time
  <2> QED
    BY <2>1, <2>2
<1>3. \A d \in 1..Len(fr) : d \in Slot
  BY <1>1 DEF Slot
<1>4. \A d \in 1..Len(fr) : fr[d] \in AFrame
  BY LenProperties
<1>5. \A d \in 1..Len(fr) : fr[d].known \in SUBSET Cell /\ fr[d].size \in Nat
  BY <1>4 DEF AFrame, Abstract!Frame
<1>6. \A c \in Cell : loc[c] \in Nat /\ glo[c] \in Nat
  OBVIOUS
<1> QED
  BY <1>1, <1>2, <1>3, <1>4, <1>5, <1>6

\* The invariant of a thread depends on the live slots of its stack only, and not on the
\* routines they hold; time may pass.
LEMMA ThreadUnchanged ==
  ASSUME NEW st, NEW loc, NEW glo, NEW fr, NEW now, ThreadInv(st, loc, glo, fr, now),
         NEW stn \in [Slot -> Activation], NEW later \in Nat, now <= later,
         \A d \in 1..Len(fr) : /\ stn[d].aid = st[d].aid /\ stn[d].input = st[d].input
                               /\ stn[d].dynamic = st[d].dynamic
  PROVE  ThreadInv(stn, loc, glo, fr, later)
<1> USE DEF ThreadInv
<1>1. ThreadTypes(stn, loc, glo, fr, later)
  BY DEF ThreadTypes
<1>2. \A d \in 1..Len(fr) : stn[d].aid > 0 /\ stn[d].aid <= later
  BY ThreadFacts
<1>3. \A d, e \in 1..Len(fr) : d < e => stn[d].aid < stn[e].aid
  OBVIOUS
<1>4. \A d \in 1..Len(fr) : Knows(stn, loc, glo, d) = fr[d].known
  BY DEF Knows
<1>5. \A d \in 1..Len(fr) :
        stn[d].input = fr[d].size - IF d < Len(fr) THEN fr[d + 1].size ELSE 0
  OBVIOUS
<1>6. DynamicSums(stn, fr)
  BY DEF DynamicSums
<1> QED
  BY <1>1, <1>2, <1>3, <1>4, <1>5, <1>6

\* An activation knows no cell its caller does not know.
LEMMA CallersKnow ==
  ASSUME NEW st, NEW loc, NEW glo, NEW fr, NEW now, ThreadInv(st, loc, glo, fr, now),
         NEW d \in 1..Len(fr), NEW e \in 1..Len(fr), d < e
  PROVE  fr[e].known \subseteq fr[d].known
<1>1. fr[e].known = Knows(st, loc, glo, e) /\ fr[d].known = Knows(st, loc, glo, d)
      /\ st[d].aid < st[e].aid
  BY DEF ThreadInv
<1>2. st[d].aid \in Nat /\ st[e].aid \in Nat /\ \A c \in Cell : loc[c] \in Nat
  BY ThreadFacts DEF ThreadInv
<1> QED
  BY <1>1, <1>2 DEF Knows

\* A read finds new to the activation on top exactly the cells that one does not know:
\* the dynamic ones and, without counting any twice, the fresh ones.  Among the latter,
\* an open caller had counted those it knows and its callee does not.
LEMMA ReadCells ==
  ASSUME NEW st, NEW loc, NEW glo, NEW fr, NEW now, ThreadInv(st, loc, glo, fr, now),
         Len(fr) > 0, NEW cells \in SUBSET Cell
  PROVE  LET n == Len(fr) IN
         /\ Dynamic(loc, glo, cells) \cup Fresh(st, n, loc, glo, cells) = cells \ fr[n].known
         /\ Dynamic(loc, glo, cells) \cap Fresh(st, n, loc, glo, cells) = {}
         /\ \A d \in 1..n : Dynamic(loc, glo, cells) \subseteq cells \ fr[d].known
         /\ \A d \in 1..(n - 1) : TakenFrom(d, st, n, loc, glo, cells)
                                    = (cells \ fr[d + 1].known) \cap fr[d].known
<1> DEFINE n == Len(fr)
<1>1. n \in Nat /\ n \in 1..n /\ 1 \in 1..n
  BY ThreadFacts DEF ThreadInv
<1>2. \A d \in 1..n : fr[d].known = {c \in Cell : loc[c] >= st[d].aid /\ loc[c] >= glo[c]}
  BY DEF ThreadInv, Knows
<1>3. \A c \in Cell : loc[c] \in Nat /\ glo[c] \in Nat
  BY ThreadFacts DEF ThreadInv
<1>4. \A d \in 1..n : st[d].aid \in Nat /\ st[d].aid > 0
  BY ThreadFacts DEF ThreadInv
<1>5. \A d, e \in 1..n : d < e => st[d].aid < st[e].aid
  BY DEF ThreadInv
<1> HIDE DEF n
<1>6. Dynamic(loc, glo, cells) \cup Fresh(st, n, loc, glo, cells) = cells \ fr[n].known
  BY <1>1, <1>2, <1>3, <1>4 DEF Dynamic, Fresh
<1>7. Dynamic(loc, glo, cells) \cap Fresh(st, n, loc, glo, cells) = {}
  BY DEF Dynamic, Fresh
<1>8. \A d \in 1..n : Dynamic(loc, glo, cells) \subseteq cells \ fr[d].known
  BY <1>2, <1>3 DEF Dynamic
<1>9. ASSUME NEW d \in 1..(n - 1)
      PROVE  TakenFrom(d, st, n, loc, glo, cells) = (cells \ fr[d + 1].known) \cap fr[d].known
  <2>1. d \in 1..n /\ d + 1 \in 1..n /\ d \in Int /\ n \in Int
    BY <1>1
  <2>2. st[1].aid <= st[d].aid
    BY <2>1, <1>1, <1>4, <1>5
  <2>3. st[d + 1].aid <= st[n].aid
    BY <2>1, <1>1, <1>4, <1>5
  <2>4. \A e \in (d + 1)..(n - 1) : e \in 1..n /\ st[d + 1].aid <= st[e].aid
    BY <2>1, <1>1, <1>4, <1>5
  <2>5. d + 1 = n \/ d + 1 \in (d + 1)..(n - 1)
    BY <2>1
  <2>6. ASSUME NEW c \in cells, loc[c] >= glo[c]
        PROVE  /\ loc[c] < st[n].aid
               /\ loc[c] > 0 /\ loc[c] >= st[1].aid
               /\ st[d].aid <= loc[c]
               /\ \A e \in (d + 1)..(n - 1) : st[e].aid > loc[c]
               <=> st[d].aid <= loc[c] /\ loc[c] < st[d + 1].aid
    <3>1. loc[c] \in Nat /\ st[d].aid \in Nat /\ st[d].aid > 0 /\ st[d + 1].aid \in Nat
          /\ st[n].aid \in Nat /\ st[1].aid \in Nat
      BY <2>1, <1>1, <1>3, <1>4
    <3>2. \A e \in (d + 1)..(n - 1) : st[e].aid \in Nat
      BY <2>4, <1>4
    <3> QED
      BY <3>1, <3>2, <2>2, <2>3, <2>4, <2>5, SMTT(30)
  <2>7. \A c \in cells : loc[c] \in Nat /\ glo[c] \in Nat /\ c \in Cell
    BY <1>3
  <2>8. st[d].aid \in Nat /\ st[d + 1].aid \in Nat
    BY <2>1, <1>4
  <2>9. /\ fr[d].known = {c \in Cell : loc[c] >= st[d].aid /\ loc[c] >= glo[c]}
        /\ fr[d + 1].known = {c \in Cell : loc[c] >= st[d + 1].aid /\ loc[c] >= glo[c]}
    BY <2>1, <1>2
  <2>10. ASSUME NEW c \in cells
         PROVE  c \in TakenFrom(d, st, n, loc, glo, cells)
                  <=> loc[c] >= glo[c] /\ st[d].aid <= loc[c] /\ loc[c] < st[d + 1].aid
    <3>1. c \in TakenFrom(d, st, n, loc, glo, cells)
            <=> loc[c] >= glo[c] /\ /\ loc[c] < st[n].aid
                                    /\ loc[c] > 0 /\ loc[c] >= st[1].aid
                                    /\ st[d].aid <= loc[c]
                                    /\ \A e \in (d + 1)..(n - 1) : st[e].aid > loc[c]
      BY <2>7 DEF TakenFrom, Fresh, Dynamic
    <3> QED
      BY <3>1, <2>6
  <2>11. TakenFrom(d, st, n, loc, glo, cells) \subseteq cells
    BY DEF TakenFrom, Fresh
  <2>12. ASSUME NEW c \in cells
         PROVE  c \in (cells \ fr[d + 1].known) \cap fr[d].known
                  <=> loc[c] >= glo[c] /\ st[d].aid <= loc[c] /\ loc[c] < st[d + 1].aid
    BY <2>7, <2>8, <2>9
  <2> QED
    BY <2>10, <2>11, <2>12
<1> QED
  BY <1>6, <1>7, <1>8, <1>9 DEF n

-----------------------------------------------------------------------------
(* The history of one thread.                                              *)

\* What an access adds to the size of an activation that knew `known`.
Gain(cells, reads, known) == IF reads THEN Cardinality(cells \ known) ELSE 0

\* The activations of one thread after an access, and after another writes `cells`.
AccessedFrames(fr, cells, reads) ==
  [d \in DOMAIN fr |-> [known |-> fr[d].known \cup cells,
                        size  |-> fr[d].size + Gain(cells, reads, fr[d].known)]]
ForgetfulFrames(fr, cells) == [d \in DOMAIN fr |-> [fr[d] EXCEPT !.known = @ \ cells]]

\* A function on 1..n into frames is a sequence of n frames.
LEMMA FrameSequence ==
  ASSUME NEW n \in Nat, NEW f \in [1..n -> AFrame]
  PROVE  f \in Seq(AFrame) /\ Len(f) = n
<1>1. f \in Seq(AFrame)
  BY SeqDef
<1>2. DOMAIN f = 1..n /\ DOMAIN f = 1..Len(f) /\ Len(f) \in Nat
  BY <1>1, LenProperties
<1> QED
  BY <1>1, <1>2

\* An access leaves a sequence of frames; each has learnt the cells and paid for them.
LEMMA AccessedFramesAre ==
  ASSUME NEW fr \in Seq(AFrame), NEW cells \in SUBSET Cell, NEW reads \in BOOLEAN
  PROVE  /\ AccessedFrames(fr, cells, reads) \in Seq(AFrame)
         /\ Len(AccessedFrames(fr, cells, reads)) = Len(fr)
         /\ \A d \in 1..Len(fr) :
              /\ AccessedFrames(fr, cells, reads)[d].known = fr[d].known \cup cells
              /\ AccessedFrames(fr, cells, reads)[d].size
                   = fr[d].size + Gain(cells, reads, fr[d].known)
<1> DEFINE new(d) == [known |-> fr[d].known \cup cells,
                      size |-> fr[d].size + Gain(cells, reads, fr[d].known)]
           f == [d \in 1..Len(fr) |-> new(d)]
<1>1. Len(fr) \in Nat /\ DOMAIN fr = 1..Len(fr) /\ \A d \in 1..Len(fr) : fr[d] \in AFrame
  BY LenProperties
<1>2. AccessedFrames(fr, cells, reads) = f
  BY <1>1, Zenon DEF AccessedFrames
<1>3. ASSUME NEW d \in 1..Len(fr) PROVE new(d) \in AFrame
  <2>1. fr[d].known \in SUBSET Cell /\ fr[d].size \in Nat
    BY <1>1 DEF AFrame, Abstract!Frame
  <2>2. Gain(cells, reads, fr[d].known) \in Nat
    BY CellsFinite DEF Gain
  <2> QED
    BY <2>1, <2>2 DEF AFrame, Abstract!Frame
<1>4. f \in [1..Len(fr) -> AFrame]
  BY <1>3, Zenon
<1>5. ASSUME NEW d \in 1..Len(fr)
      PROVE  /\ f[d].known = fr[d].known \cup cells
             /\ f[d].size = fr[d].size + Gain(cells, reads, fr[d].known)
  OBVIOUS
<1> HIDE DEF f
<1>6. f \in Seq(AFrame) /\ Len(f) = Len(fr)
  BY <1>1, <1>4, FrameSequence
<1> QED
  BY <1>2, <1>5, <1>6

\* A write of another thread, or of the kernel, takes the cells from what they know.
LEMMA ForgetfulFramesAre ==
  ASSUME NEW fr \in Seq(AFrame), NEW cells
  PROVE  /\ ForgetfulFrames(fr, cells) \in Seq(AFrame)
         /\ Len(ForgetfulFrames(fr, cells)) = Len(fr)
         /\ \A d \in 1..Len(fr) :
              /\ ForgetfulFrames(fr, cells)[d].known = fr[d].known \ cells
              /\ ForgetfulFrames(fr, cells)[d].size = fr[d].size
<1> DEFINE new(d) == [fr[d] EXCEPT !.known = @ \ cells]
           f == [d \in 1..Len(fr) |-> new(d)]
<1>1. Len(fr) \in Nat /\ DOMAIN fr = 1..Len(fr) /\ \A d \in 1..Len(fr) : fr[d] \in AFrame
  BY LenProperties
<1>2. ForgetfulFrames(fr, cells) = f
  BY <1>1, Zenon DEF ForgetfulFrames
<1>3. ASSUME NEW d \in 1..Len(fr)
      PROVE  /\ new(d) \in AFrame
             /\ new(d).known = fr[d].known \ cells /\ new(d).size = fr[d].size
  BY <1>1 DEF AFrame, Abstract!Frame
<1>4. f \in [1..Len(fr) -> AFrame] /\ \A d \in 1..Len(fr) : f[d] = new(d)
  BY <1>3
<1> HIDE DEF f
<1>6. f \in Seq(AFrame) /\ Len(f) = Len(fr)
  BY <1>1, <1>4, FrameSequence
<1> QED
  BY <1>2, <1>3, <1>4, <1>6

\* The stack after a read.
LEMMA ChargedStack ==
  ASSUME NEW st \in [Slot -> Activation], NEW n \in Slot, NEW loc, NEW glo,
         NEW cells \in SUBSET Cell
  PROVE  LET new   == Charged(st, n, loc, glo, cells)
             dyn   == Cardinality(Dynamic(loc, glo, cells))
             fresh == Cardinality(Fresh(st, n, loc, glo, cells))
         IN  /\ new \in [Slot -> Activation]
             /\ dyn \in Nat /\ fresh \in Nat
             /\ \A d \in Slot : new[d].fn = st[d].fn /\ new[d].aid = st[d].aid
             /\ new[n].input = st[n].input + dyn + fresh
             /\ new[n].dynamic = st[n].dynamic + dyn
             /\ \A d \in 1..(n - 1) :
                  /\ new[d].input = st[d].input
                                      - Cardinality(TakenFrom(d, st, n, loc, glo, cells))
                  /\ new[d].dynamic = st[d].dynamic
<1> DEFINE dyn   == Cardinality(Dynamic(loc, glo, cells))
           fresh == Cardinality(Fresh(st, n, loc, glo, cells))
           taken(d) == Cardinality(TakenFrom(d, st, n, loc, glo, cells))
           new(d) == IF d = n THEN [st[d] EXCEPT !.input = @ + dyn + fresh, !.dynamic = @ + dyn]
                     ELSE IF d < n THEN [st[d] EXCEPT !.input = @ - taken(d)]
                     ELSE st[d]
           st2 == Charged(st, n, loc, glo, cells)
<1>1. dyn \in Nat /\ fresh \in Nat /\ \A d \in Slot : taken(d) \in Nat
  <2>1. /\ Dynamic(loc, glo, cells) \in SUBSET Cell
        /\ Fresh(st, n, loc, glo, cells) \in SUBSET Cell
        /\ \A d \in Slot : TakenFrom(d, st, n, loc, glo, cells) \in SUBSET Cell
    BY DEF Dynamic, Fresh, TakenFrom
  <2> QED
    BY <2>1, CellsFinite
<1>2. st2 = [d \in Slot |-> new(d)]
  BY Zenon DEF Charged
<1> HIDE DEF dyn, fresh, taken, st2
<1>3. ASSUME NEW d \in Slot
      PROVE  /\ new(d) \in Activation /\ new(d).fn = st[d].fn /\ new(d).aid = st[d].aid
             /\ d = n => new(d).input = st[d].input + dyn + fresh
                         /\ new(d).dynamic = st[d].dynamic + dyn
             /\ d < n => new(d).input = st[d].input - taken(d)
                         /\ new(d).dynamic = st[d].dynamic
  <2>1. st[d] \in Activation /\ taken(d) \in Nat /\ st[d].input \in Int /\ st[d].dynamic \in Nat
    BY <1>1 DEF Activation
  <2>2. n \in Int /\ d \in Int
    BY CountAssumption DEF Slot
  <2>3. CASE d = n
    <3>1. new(d) = [st[d] EXCEPT !.input = st[d].input + dyn + fresh,
                                 !.dynamic = st[d].dynamic + dyn]
      BY <2>3
    <3>2. st[d].input + dyn + fresh \in Int /\ st[d].dynamic + dyn \in Nat
      BY <2>1, <1>1
    <3> DEFINE i == st[d].input + dyn + fresh
               m == st[d].dynamic + dyn
               r == st[d]
               s == new(d)
    <3>3. s = [r EXCEPT !.input = i, !.dynamic = m] /\ i \in Int /\ m \in Nat /\ r \in Activation
      BY <2>1, <3>1, <3>2
    <3> HIDE DEF new, i, m, r, s
    <3>4. s \in Activation /\ s.fn = r.fn /\ s.aid = r.aid /\ s.input = i /\ s.dynamic = m
      BY <3>3 DEF Activation
    <3>5. /\ new(d) \in Activation /\ new(d).fn = st[d].fn /\ new(d).aid = st[d].aid
          /\ new(d).input = st[d].input + dyn + fresh
          /\ new(d).dynamic = st[d].dynamic + dyn
      BY <3>4 DEF i, m, r, s
    <3> QED
      BY <2>2, <2>3, <3>5
  <2>4. CASE d < n
    <3>1. new(d) = [st[d] EXCEPT !.input = st[d].input - taken(d)]
      BY <2>2, <2>4
    <3>2. st[d].input - taken(d) \in Int
      BY <2>1
    <3> HIDE DEF new
    <3> QED
      BY <2>1, <2>2, <2>4, <3>1, <3>2 DEF Activation
  <2>5. CASE d > n
    BY <2>1, <2>2, <2>5
  <2> QED
    BY <2>2, <2>3, <2>4, <2>5
<1>4. \A d \in Slot : st2[d] = new(d)
  BY <1>2
<1>5. st2 \in [Slot -> Activation]
  BY <1>2, <1>3
<1>6. \A d \in 1..(n - 1) : d \in Slot /\ d < n
  BY CountAssumption DEF Slot
<1> HIDE DEF new
<1>7. \A d \in Slot : st2[d].fn = st[d].fn /\ st2[d].aid = st[d].aid
  BY <1>3, <1>4
<1>8. st2[n].input = st[n].input + dyn + fresh /\ st2[n].dynamic = st[n].dynamic + dyn
  BY <1>3, <1>4
<1>9. \A d \in 1..(n - 1) :
        st2[d].input = st[d].input - taken(d) /\ st2[d].dynamic = st[d].dynamic
  BY <1>3, <1>4, <1>6
<1> QED
  BY <1>1, <1>5, <1>7, <1>8, <1>9 DEF st2, dyn, fresh, taken

-----------------------------------------------------------------------------
(* Accesses, as one thread sees them.                                      *)

\* Stamping a table of times keeps its type.
LEMMA StampedType ==
  ASSUME NEW tab \in [Cell -> Nat], NEW cells, NEW now \in Nat
  PROVE  /\ Stamped(tab, cells, now) \in [Cell -> Nat]
         /\ \A c \in Cell : Stamped(tab, cells, now)[c] = IF c \in cells THEN now ELSE tab[c]
  BY DEF Stamped

\* A thread that stamps cells with the current time knows them.
LEMMA StampedKnown ==
  ASSUME NEW st, NEW loc, NEW glo, NEW fr, NEW now, ThreadInv(st, loc, glo, fr, now),
         \A c \in Cell : glo[c] <= now,
         NEW cells \in SUBSET Cell, NEW d \in 1..Len(fr)
  PROVE  Knows(st, Stamped(loc, cells, now), glo, d) = fr[d].known \cup cells
<1>1. \A c \in Cell : Stamped(loc, cells, now)[c] = IF c \in cells THEN now ELSE loc[c]
  BY DEF Stamped
<1>2. fr[d].known = {c \in Cell : loc[c] >= st[d].aid /\ loc[c] >= glo[c]}
  BY DEF ThreadInv, Knows
<1>3. st[d].aid <= now /\ st[d].aid \in Nat /\ now \in Nat
      /\ \A c \in Cell : loc[c] \in Nat /\ glo[c] \in Nat
  BY ThreadFacts DEF ThreadInv
<1> QED
  BY <1>1, <1>2, <1>3 DEF Knows

\* A store of the thread: it knows the cells from now on, and pays nothing.
LEMMA ThreadStores ==
  ASSUME NEW st, NEW loc, NEW glo, NEW fr, NEW now, ThreadInv(st, loc, glo, fr, now),
         \A c \in Cell : glo[c] <= now,
         NEW cells \in SUBSET Cell
  PROVE  ThreadInv(st, Stamped(loc, cells, now), glo, AccessedFrames(fr, cells, FALSE), now)
<1> DEFINE new == AccessedFrames(fr, cells, FALSE)
<1>1. ThreadTypes(st, loc, glo, fr, now)
  BY DEF ThreadInv
<1>2. /\ new \in Seq(AFrame) /\ Len(new) = Len(fr)
      /\ \A d \in 1..Len(fr) : new[d].known = fr[d].known \cup cells /\ new[d].size = fr[d].size
  <2>1. fr \in Seq(AFrame) /\ \A d \in 1..Len(fr) : fr[d].size \in Nat
    BY <1>1, ThreadFacts DEF ThreadTypes
  <2>2. /\ new \in Seq(AFrame) /\ Len(new) = Len(fr)
        /\ \A d \in 1..Len(fr) : /\ new[d].known = fr[d].known \cup cells
                                 /\ new[d].size = fr[d].size + Gain(cells, FALSE, fr[d].known)
    BY <2>1, AccessedFramesAre
  <2>3. \A d \in 1..Len(fr) : fr[d].size + Gain(cells, FALSE, fr[d].known) = fr[d].size
    BY <2>1 DEF Gain
  <2> HIDE DEF new
  <2> QED
    BY <2>2, <2>3
<1> HIDE DEF new
<1>3. ThreadTypes(st, Stamped(loc, cells, now), glo, new, now)
  BY <1>1, <1>2, StampedType DEF ThreadTypes
<1>4. ASSUME NEW d \in 1..Len(fr)
      PROVE  Knows(st, Stamped(loc, cells, now), glo, d) = new[d].known
  <2>1. Knows(st, Stamped(loc, cells, now), glo, d) = fr[d].known \cup cells
    BY StampedKnown
  <2> QED
    BY <1>2, <2>1
<1>5. \A d \in 1..Len(new) :
        st[d].input = new[d].size - IF d < Len(new) THEN new[d + 1].size ELSE 0
  <2>1. \A d \in 1..Len(fr) : d < Len(fr) => d + 1 \in 1..Len(fr)
    BY <1>1, ThreadFacts
  <2> QED
    BY <1>2, <2>1 DEF ThreadInv
<1>6. DynamicSums(st, new)
  BY <1>2 DEF ThreadInv, DynamicSums
<1> QED
  BY <1>2, <1>3, <1>4, <1>5, <1>6 DEF ThreadInv, new

\* A load of the thread: it also pays for the cells it did not know.
LEMMA ThreadLoads ==
  ASSUME NEW st, NEW loc, NEW glo, NEW fr, NEW now, ThreadInv(st, loc, glo, fr, now),
         Len(fr) > 0, \A c \in Cell : glo[c] <= now,
         NEW cells \in SUBSET Cell
  PROVE  ThreadInv(Charged(st, Len(fr), loc, glo, cells), Stamped(loc, cells, now), glo,
                   AccessedFrames(fr, cells, TRUE), now)
<1> DEFINE n     == Len(fr)
           new   == AccessedFrames(fr, cells, TRUE)
           stn   == Charged(st, n, loc, glo, cells)
           dyn   == Cardinality(Dynamic(loc, glo, cells))
           fresh == Cardinality(Fresh(st, n, loc, glo, cells))
           taken(d) == Cardinality(TakenFrom(d, st, n, loc, glo, cells))
           gain(d)  == Cardinality(cells \ fr[d].known)
<1>1. /\ ThreadTypes(st, loc, glo, fr, now) /\ n \in Nat /\ n \in 1..n /\ n \in Slot
      /\ st \in [Slot -> Activation]
  <2>1. ThreadTypes(st, loc, glo, fr, now)
    BY DEF ThreadInv
  <2>2. n \in Nat /\ \A d \in 1..n : d \in Slot
    BY <2>1, ThreadFacts
  <2> HIDE DEF n
  <2>3. n \in 1..n
    BY <2>2 DEF n
  <2> QED
    BY <2>1, <2>2, <2>3 DEF ThreadTypes
<1>2. \A d \in 1..n : /\ d \in Slot /\ d \in Int
                      /\ fr[d].size \in Nat /\ st[d].input \in Int /\ st[d].dynamic \in Nat
  BY <1>1, ThreadFacts
<1>3. /\ stn \in [Slot -> Activation]
      /\ dyn \in Nat /\ fresh \in Nat
      /\ \A d \in Slot : stn[d].aid = st[d].aid
      /\ stn[n].input = st[n].input + dyn + fresh /\ stn[n].dynamic = st[n].dynamic + dyn
      /\ \A d \in 1..(n - 1) : stn[d].input = st[d].input - taken(d)
                               /\ stn[d].dynamic = st[d].dynamic
  <2> HIDE DEF n
  <2> QED
    BY <1>1, ChargedStack
<1>4. /\ new \in Seq(AFrame) /\ Len(new) = n
      /\ \A d \in 1..n : new[d].known = fr[d].known \cup cells
                         /\ new[d].size = fr[d].size + gain(d)
  <2>1. fr \in Seq(AFrame) /\ TRUE \in BOOLEAN
    BY <1>1 DEF ThreadTypes
  <2>2. /\ new \in Seq(AFrame) /\ Len(new) = n
        /\ \A d \in 1..n : /\ new[d].known = fr[d].known \cup cells
                           /\ new[d].size = fr[d].size + Gain(cells, TRUE, fr[d].known)
    BY <2>1, AccessedFramesAre
  <2> QED
    BY <2>2 DEF Gain
<1>5. \A d \in 1..n : gain(d) \in Nat /\ dyn <= gain(d)
  <2> SUFFICES ASSUME NEW d \in 1..n PROVE gain(d) \in Nat /\ dyn <= gain(d)
    OBVIOUS
  <2>1. IsFiniteSet(cells \ fr[d].known) /\ gain(d) \in Nat
    BY CellsFinite
  <2>2. Dynamic(loc, glo, cells) \in SUBSET (cells \ fr[d].known)
    BY <1>1, ReadCells
  <2> QED
    BY <2>1, <2>2, FS_Subset
<1>6. gain(n) = dyn + fresh
  <2>1. IsFiniteSet(cells \ fr[n].known)
    BY CellsFinite
  <2>2. /\ Dynamic(loc, glo, cells) = (cells \ fr[n].known) \cap Dynamic(loc, glo, cells)
        /\ Fresh(st, n, loc, glo, cells) = (cells \ fr[n].known) \ Dynamic(loc, glo, cells)
    BY <1>1, ReadCells
  <2> DEFINE S == cells \ fr[n].known
             T == Dynamic(loc, glo, cells)
  <2> HIDE DEF S, T
  <2>3. Cardinality(S) = Cardinality(S \cap T) + Cardinality(S \ T)
    BY <2>1, CardinalitySplit DEF S
  <2> QED
    BY <2>2, <2>3 DEF S, T
<1>7. \A d \in 1..(n - 1) : /\ d \in 1..n /\ d + 1 \in 1..n
                            /\ gain(d + 1) = taken(d) + gain(d) /\ taken(d) \in Nat
  <2> SUFFICES ASSUME NEW d \in 1..(n - 1)
               PROVE  d \in 1..n /\ d + 1 \in 1..n
                      /\ gain(d + 1) = taken(d) + gain(d) /\ taken(d) \in Nat
    OBVIOUS
  <2>1. d \in 1..n /\ d + 1 \in 1..n /\ d < d + 1
    BY <1>1
  <2>2. IsFiniteSet(cells \ fr[d + 1].known)
    BY CellsFinite
  <2>3. TakenFrom(d, st, n, loc, glo, cells) = (cells \ fr[d + 1].known) \cap fr[d].known
    <3>1. \A e \in 1..(Len(fr) - 1) : TakenFrom(e, st, Len(fr), loc, glo, cells)
                                         = (cells \ fr[e + 1].known) \cap fr[e].known
      BY ReadCells
    <3> QED
      BY <3>1
  <2>4. fr[d + 1].known \subseteq fr[d].known
    BY <2>1, CallersKnow
  <2>5. (cells \ fr[d + 1].known) \ fr[d].known = cells \ fr[d].known
    BY <2>4
  <2> DEFINE S == cells \ fr[d + 1].known
             T == fr[d].known
  <2> HIDE DEF S, T
  <2>6. /\ Cardinality(S) = Cardinality(S \cap T) + Cardinality(S \ T)
        /\ Cardinality(S \cap T) \in Nat
    BY <2>2, CardinalitySplit DEF S
  <2> QED
    BY <2>1, <2>3, <2>5, <2>6 DEF S, T
<1> HIDE DEF new, stn, dyn, fresh, taken, gain
<1>8. ThreadTypes(stn, Stamped(loc, cells, now), glo, new, now)
  BY <1>1, <1>3, <1>4, StampedType DEF ThreadTypes
<1>9. /\ \A d \in 1..n : stn[d].aid > 0 /\ stn[d].aid <= now
      /\ \A d, e \in 1..n : d < e => stn[d].aid < stn[e].aid
  BY <1>2, <1>3 DEF ThreadInv
<1>10. \A d \in 1..n : Knows(stn, Stamped(loc, cells, now), glo, d) = new[d].known
  <2> SUFFICES ASSUME NEW d \in 1..n
               PROVE  Knows(stn, Stamped(loc, cells, now), glo, d) = new[d].known
    OBVIOUS
  <2>1. Knows(st, Stamped(loc, cells, now), glo, d) = fr[d].known \cup cells
    BY StampedKnown DEF n
  <2>2. stn[d].aid = st[d].aid
    BY <1>2, <1>3
  <2> QED
    BY <1>4, <2>1, <2>2 DEF Knows
<1>11. ASSUME NEW d \in 1..n
       PROVE  stn[d].input = new[d].size - IF d < n THEN new[d + 1].size ELSE 0
  <2>1. st[d].input = fr[d].size - IF d < n THEN fr[d + 1].size ELSE 0
    BY DEF ThreadInv
  <2>2. CASE d = n
    <3>1. st[n].input = fr[n].size
      BY <2>1, <2>2, <1>1, <1>2
    <3>2. new[n].size = fr[n].size + (dyn + fresh)
      BY <1>1, <1>4, <1>6
    <3> QED
      BY <2>2, <3>1, <3>2, <1>1, <1>2, <1>3
  <2>3. CASE d < n
    <3>1. d \in 1..(n - 1) /\ d + 1 \in 1..n
      BY <2>3, <1>1
    <3>2. st[d].input = fr[d].size - fr[d + 1].size
      BY <2>1, <2>3
    <3>3. /\ new[d].size = fr[d].size + gain(d)
          /\ new[d + 1].size = fr[d + 1].size + (taken(d) + gain(d))
      BY <3>1, <1>4, <1>7
    <3>4. stn[d].input = fr[d].size - fr[d + 1].size - taken(d)
      BY <3>1, <3>2, <1>3
    <3>5. gain(d) \in Int /\ taken(d) \in Int /\ fr[d].size \in Int /\ fr[d + 1].size \in Int
      BY <3>1, <1>2, <1>5, <1>7
    <3>6. stn[d].input = new[d].size - new[d + 1].size
      BY <3>3, <3>4, <3>5
    <3> QED
      BY <2>3, <3>6
  <2> QED
    BY <2>2, <2>3, <1>1, <1>2
<1>12. DynamicSums(stn, new)
  <2>1. PICK sum \in [1..n -> Nat] : \A d \in 1..n :
          /\ st[d].dynamic = sum[d] - IF d < n THEN sum[d + 1] ELSE 0
          /\ sum[d] <= fr[d].size
    BY DEF ThreadInv, DynamicSums
  <2> DEFINE sum2 == [d \in 1..n |-> sum[d] + dyn]
  <2>2. sum2 \in [1..n -> Nat] /\ \A d \in 1..n : sum2[d] = sum[d] + dyn
    BY <1>3
  <2> HIDE DEF sum2
  <2>3. ASSUME NEW d \in 1..n
        PROVE  /\ stn[d].dynamic = sum2[d] - IF d < n THEN sum2[d + 1] ELSE 0
               /\ sum2[d] <= new[d].size
    <3>1. sum[d] \in Nat /\ sum[d] <= fr[d].size /\ fr[d].size \in Nat
          /\ new[d].size = fr[d].size + gain(d) /\ gain(d) \in Nat /\ dyn <= gain(d)
          /\ sum2[d] = sum[d] + dyn /\ dyn \in Nat
      BY <2>1, <2>2, <1>2, <1>3, <1>4, <1>5
    <3>2. sum2[d] <= new[d].size
      BY <3>1
    <3>3. CASE d = n
      <4>1. st[n].dynamic = sum[n] - 0
        BY <2>1, <3>3
      <4> QED
        BY <4>1, <3>1, <3>2, <3>3, <1>1, <1>2, <1>3
    <3>4. CASE d < n
      <4>1. d \in 1..(n - 1) /\ d + 1 \in 1..n
        BY <3>4, <1>1
      <4>2. stn[d].dynamic = sum[d] - sum[d + 1]
        BY <3>4, <4>1, <2>1, <1>3
      <4>3. sum2[d + 1] = sum[d + 1] + dyn /\ sum[d + 1] \in Nat
        BY <4>1, <2>2
      <4>4. stn[d].dynamic = sum2[d] - sum2[d + 1]
        BY <4>2, <4>3, <3>1
      <4> QED
        BY <4>4, <3>2, <3>4
    <3> QED
      BY <3>3, <3>4, <1>1, <1>2
  <2> QED
    BY <2>2, <2>3, <1>4 DEF DynamicSums
<1> QED
  BY <1>4, <1>8, <1>9, <1>10, <1>11, <1>12 DEF ThreadInv, new, stn

\* The thread's own write changes nothing of what it knows: it stamps the cells with the
\* time of its own last access to them.
LEMMA OwnWrite ==
  ASSUME NEW st, NEW loc, NEW glo, NEW fr, NEW now, ThreadInv(st, loc, glo, fr, now),
         \A c \in Cell : glo[c] <= now,
         NEW cells \in SUBSET Cell, \A c \in cells : loc[c] = now
  PROVE  ThreadInv(st, loc, Stamped(glo, cells, now), fr, now)
<1>1. ThreadTypes(st, loc, Stamped(glo, cells, now), fr, now)
  BY StampedType DEF ThreadInv, ThreadTypes
<1>2. ASSUME NEW d \in 1..Len(fr)
      PROVE  Knows(st, loc, Stamped(glo, cells, now), d) = fr[d].known
  <2>1. fr[d].known = {c \in Cell : loc[c] >= st[d].aid /\ loc[c] >= glo[c]}
    BY DEF ThreadInv, Knows
  <2>2. now \in Nat /\ \A c \in Cell : loc[c] \in Nat /\ glo[c] \in Nat
    BY ThreadFacts DEF ThreadInv
  <2>3. \A c \in Cell : Stamped(glo, cells, now)[c] = IF c \in cells THEN now ELSE glo[c]
    BY DEF Stamped
  <2> QED
    BY <2>1, <2>2, <2>3 DEF Knows
<1> QED
  BY <1>1, <1>2 DEF ThreadInv

\* A write by another thread or the kernel makes it forget the cells: the write is newer
\* than all its accesses.
LEMMA OthersWrite ==
  ASSUME NEW st, NEW loc, NEW glo, NEW fr, NEW now, ThreadInv(st, loc, glo, fr, now),
         NEW cells \in SUBSET Cell, \A c \in cells : loc[c] < now
  PROVE  ThreadInv(st, loc, Stamped(glo, cells, now), ForgetfulFrames(fr, cells), now)
<1> DEFINE new == ForgetfulFrames(fr, cells)
<1>1. ThreadTypes(st, loc, glo, fr, now)
  BY DEF ThreadInv
<1>2. /\ new \in Seq(AFrame) /\ Len(new) = Len(fr)
      /\ \A d \in 1..Len(fr) : new[d].known = fr[d].known \ cells /\ new[d].size = fr[d].size
  BY <1>1, ForgetfulFramesAre DEF ThreadTypes
<1> HIDE DEF new
<1>3. ThreadTypes(st, loc, Stamped(glo, cells, now), new, now)
  BY <1>1, <1>2, StampedType DEF ThreadTypes
<1>4. ASSUME NEW d \in 1..Len(fr)
      PROVE  Knows(st, loc, Stamped(glo, cells, now), d) = new[d].known
  <2>1. fr[d].known = {c \in Cell : loc[c] >= st[d].aid /\ loc[c] >= glo[c]}
    BY DEF ThreadInv, Knows
  <2>2. now \in Nat /\ \A c \in Cell : loc[c] \in Nat /\ glo[c] \in Nat
    BY <1>1, ThreadFacts
  <2>3. \A c \in Cell : Stamped(glo, cells, now)[c] = IF c \in cells THEN now ELSE glo[c]
    BY DEF Stamped
  <2>4. Knows(st, loc, Stamped(glo, cells, now), d) = fr[d].known \ cells
    BY <2>1, <2>2, <2>3 DEF Knows
  <2> QED
    BY <1>2, <2>4
<1>5. \A d \in 1..Len(new) :
        st[d].input = new[d].size - IF d < Len(new) THEN new[d + 1].size ELSE 0
  <2>1. \A d \in 1..Len(fr) : d < Len(fr) => d + 1 \in 1..Len(fr)
    BY <1>1, ThreadFacts
  <2> QED
    BY <1>2, <2>1 DEF ThreadInv
<1>6. DynamicSums(st, new)
  BY <1>2 DEF ThreadInv, DynamicSums
<1> QED
  BY <1>2, <1>3, <1>4, <1>5, <1>6 DEF ThreadInv, new

-----------------------------------------------------------------------------
(* Calls and returns, as one thread sees them.                             *)

\* A call opens an activation that knows nothing: no access is as young as its id.
LEMMA ThreadCalls ==
  ASSUME NEW st, NEW loc, NEW glo, NEW fr, NEW now, ThreadInv(st, loc, glo, fr, now),
         Len(fr) < MaxDepth, \A c \in Cell : loc[c] < now,
         \A d \in 1..Len(fr) : st[d].aid < now, now \in Time, now > 0,
         NEW f \in Routine
  PROVE  ThreadInv([st EXCEPT ![Len(fr) + 1] = [fn |-> f, aid |-> now, input |-> 0, dynamic |-> 0]],
                   loc, glo, Append(fr, Abstract!NewFrame), now)
<1> DEFINE n   == Len(fr) + 1
           top == [fn |-> f, aid |-> now, input |-> 0, dynamic |-> 0]
           stn == [st EXCEPT ![n] = top]
           new == Append(fr, Abstract!NewFrame)
<1>1. /\ ThreadTypes(st, loc, glo, fr, now) /\ st \in [Slot -> Activation] /\ fr \in Seq(AFrame)
      /\ now \in Nat
  BY DEF ThreadInv, ThreadTypes
<1>2. /\ Len(fr) \in Nat /\ n \in Nat /\ n \in Slot /\ n \in 1..n
      /\ \A d \in 1..Len(fr) : d \in Slot /\ d # n /\ d \in 1..n
      /\ \A d \in 1..n : d \in 1..Len(fr) \/ d = n
  <2>1. Len(fr) \in Nat /\ MaxDepth \in Nat /\ \A d \in 1..Len(fr) : d \in Slot
    BY <1>1, ThreadFacts
  <2> QED
    BY <2>1 DEF Slot
<1>3. /\ new \in Seq(AFrame) /\ Len(new) = n /\ \A d \in 1..Len(fr) : new[d] = fr[d]
      /\ new[n].known = {} /\ new[n].size = 0
  <2>1. Abstract!NewFrame \in AFrame /\ Abstract!NewFrame.known = {} /\ Abstract!NewFrame.size = 0
    BY DEF AFrame, Abstract!Frame, Abstract!NewFrame
  <2> QED
    BY <1>1, <2>1
<1>4. /\ stn \in [Slot -> Activation] /\ \A d \in 1..Len(fr) : stn[d] = st[d]
      /\ stn[n].aid = now /\ stn[n].input = 0 /\ stn[n].dynamic = 0
  <2>1. top \in Activation
    BY DEF Activation
  <2>2. stn[n] = top /\ \A d \in 1..Len(fr) : stn[d] = st[d]
    BY <1>1, <1>2
  <2>3. stn \in [Slot -> Activation]
    BY <1>1, <2>1
  <2> HIDE DEF stn
  <2> QED
    BY <2>2, <2>3
<1> HIDE DEF new, stn
<1>5. \A d \in 1..Len(fr) : /\ st[d].aid \in Nat /\ st[d].aid > 0 /\ st[d].aid < now
                            /\ st[d].input \in Int /\ st[d].dynamic \in Nat /\ fr[d].size \in Nat
  BY <1>1, ThreadFacts DEF ThreadInv
<1>6. \A c \in Cell : loc[c] \in Nat /\ glo[c] \in Nat
  BY <1>1, ThreadFacts
<1>7. ThreadTypes(stn, loc, glo, new, now)
  <2>1. n <= MaxDepth
    BY <1>1, <1>2, ThreadFacts
  <2> QED
    BY <1>1, <1>3, <1>4, <2>1 DEF ThreadTypes
<1>8. \A d \in 1..n : stn[d].aid > 0 /\ stn[d].aid <= now
  BY <1>1, <1>2, <1>4, <1>5 DEF Time
<1>9. ASSUME NEW d \in 1..n, NEW e \in 1..n, d < e PROVE stn[d].aid < stn[e].aid
  <2>1. d \in 1..Len(fr)
    BY <1>2, <1>9
  <2>2. CASE e = n
    BY <2>1, <2>2, <1>4, <1>5
  <2>3. CASE e \in 1..Len(fr)
    BY <2>1, <2>3, <1>4, <1>9 DEF ThreadInv
  <2> QED
    BY <2>2, <2>3, <1>2
<1>10. ASSUME NEW d \in 1..n PROVE Knows(stn, loc, glo, d) = new[d].known
  <2>1. CASE d = n
    BY <2>1, <1>1, <1>3, <1>4, <1>6 DEF Knows
  <2>2. CASE d \in 1..Len(fr)
    BY <2>2, <1>3, <1>4 DEF Knows, ThreadInv
  <2> QED
    BY <2>1, <2>2, <1>2
<1>11. ASSUME NEW d \in 1..n
       PROVE  stn[d].input = new[d].size - IF d < n THEN new[d + 1].size ELSE 0
  <2>1. CASE d = n
    BY <2>1, <1>2, <1>3, <1>4
  <2>2. CASE d \in 1..Len(fr)
    <3>1. st[d].input = fr[d].size - IF d < Len(fr) THEN fr[d + 1].size ELSE 0
      BY <2>2 DEF ThreadInv
    <3>2. d < n /\ (d < Len(fr) => d + 1 \in 1..Len(fr)) /\ (~ (d < Len(fr)) => d + 1 = n)
      BY <2>2, <1>2
    <3>3. new[d + 1].size = IF d < Len(fr) THEN fr[d + 1].size ELSE 0
      BY <3>2, <1>3
    <3> QED
      BY <2>2, <3>1, <3>2, <3>3, <1>3, <1>4
  <2> QED
    BY <2>1, <2>2, <1>2
<1>12. DynamicSums(stn, new)
  <2>1. PICK sum \in [1..Len(fr) -> Nat] : \A d \in 1..Len(fr) :
          /\ st[d].dynamic = sum[d] - IF d < Len(fr) THEN sum[d + 1] ELSE 0
          /\ sum[d] <= fr[d].size
    BY DEF ThreadInv, DynamicSums
  <2> DEFINE sum2 == [d \in 1..n |-> IF d = n THEN 0 ELSE sum[d]]
  <2>2. /\ sum2 \in [1..n -> Nat] /\ sum2[n] = 0
        /\ \A d \in 1..Len(fr) : sum2[d] = sum[d]
    BY <1>2
  <2> HIDE DEF sum2
  <2>3. ASSUME NEW d \in 1..n
        PROVE  /\ stn[d].dynamic = sum2[d] - IF d < n THEN sum2[d + 1] ELSE 0
               /\ sum2[d] <= new[d].size
    <3>1. CASE d = n
      BY <3>1, <1>2, <1>3, <1>4, <2>2
    <3>2. CASE d \in 1..Len(fr)
      <4>1. /\ st[d].dynamic = sum[d] - IF d < Len(fr) THEN sum[d + 1] ELSE 0
            /\ sum[d] <= fr[d].size
        BY <3>2, <2>1
      <4>2. d < n /\ (d < Len(fr) => d + 1 \in 1..Len(fr)) /\ (~ (d < Len(fr)) => d + 1 = n)
        BY <3>2, <1>2
      <4>3. sum2[d + 1] = IF d < Len(fr) THEN sum[d + 1] ELSE 0
        BY <4>2, <2>2
      <4> QED
        BY <3>2, <4>1, <4>2, <4>3, <1>3, <1>4, <2>2
    <3> QED
      BY <3>1, <3>2, <1>2
  <2> QED
    BY <2>2, <2>3, <1>3 DEF DynamicSums
<1>13. ThreadInv(stn, loc, glo, new, now)
  <2> HIDE DEF n
  <2> QED
    BY <1>3, <1>7, <1>8, <1>9, <1>10, <1>11, <1>12 DEF ThreadInv
<1> QED
  BY <1>13 DEF new, stn

\* A return hands what the activation counted to its caller, which thereby regains its
\* own size; what is filed is the size of the activation.
LEMMA ThreadReturns ==
  ASSUME NEW st, NEW loc, NEW glo, NEW fr, NEW now, ThreadInv(st, loc, glo, fr, now),
         Len(fr) > 0,
         NEW stn \in [Slot -> Activation],
         \A d \in 1..(Len(fr) - 1) :
            /\ stn[d].aid = st[d].aid
            /\ stn[d].input = st[d].input
                 + IF d = Len(fr) - 1 THEN st[Len(fr)].input ELSE 0
            /\ stn[d].dynamic = st[d].dynamic
                 + IF d = Len(fr) - 1 THEN st[Len(fr)].dynamic ELSE 0
  PROVE  /\ ThreadInv(stn, loc, glo, SubSeq(fr, 1, Len(fr) - 1), now)
         /\ Len(SubSeq(fr, 1, Len(fr) - 1)) = Len(fr) - 1
         /\ st[Len(fr)].input = fr[Len(fr)].size
<1> DEFINE n   == Len(fr)
           m   == n - 1
           new == SubSeq(fr, 1, m)
<1>1. ThreadTypes(st, loc, glo, fr, now) /\ fr \in Seq(AFrame)
  BY DEF ThreadInv, ThreadTypes
<1>2. /\ n \in Nat /\ m \in Nat /\ n = m + 1 /\ n <= MaxDepth /\ MaxDepth \in Nat
      /\ \A d \in 1..n : d \in Slot /\ fr[d] \in AFrame /\ fr[d].size \in Nat
                         /\ st[d].input \in Int /\ st[d].dynamic \in Nat
  <2>1. /\ n \in Nat /\ n <= MaxDepth /\ MaxDepth \in Nat
        /\ \A d \in 1..n : d \in Slot /\ fr[d] \in AFrame /\ fr[d].size \in Nat
                           /\ st[d].input \in Int /\ st[d].dynamic \in Nat
    BY <1>1, ThreadFacts
  <2>2. n > 0
    OBVIOUS
  <2> HIDE DEF n
  <2> QED
    BY <2>1, <2>2
<1>3. n \in 1..n /\ \A d \in 1..m : d \in 1..n /\ d + 1 \in 1..n /\ d < n
  <2> HIDE DEF n
  <2> QED
    BY <1>2
<1>4. new \in Seq(AFrame) /\ Len(new) = m /\ \A d \in 1..m : new[d] = fr[d]
  <2>1. /\ new \in Seq(AFrame)
        /\ Len(new) = IF 1 <= m THEN m - 1 + 1 ELSE 0
        /\ \A i \in 1..(m - 1 + 1) : new[i] = fr[1 + i - 1]
    <3> HIDE DEF m
    <3> QED
      BY <1>1, <1>2, <1>3, SubSeqProperties
  <2> HIDE DEF new, n
  <2>2. m = 0 \/ 1 <= m
    BY <1>2
  <2>3. Len(new) = m
    <3>1. m \in Nat /\ m - 1 + 1 = m
      BY <1>2
    <3> HIDE DEF m
    <3> QED
      BY <2>1, <2>2, <3>1
  <2>4. \A d \in 1..m : d \in 1..(m - 1 + 1) /\ 1 + d - 1 = d
    BY <1>2
  <2> QED
    BY <2>1, <2>3, <2>4
<1>5. st[n].input = fr[n].size
  <2>1. st[n].input = fr[n].size - IF n < n THEN fr[n + 1].size ELSE 0
    BY <1>3 DEF ThreadInv
  <2> HIDE DEF n
  <2> QED
    BY <2>1, <1>2, <1>3
<1>6. \A d \in 1..m : st[d].input = fr[d].size - fr[d + 1].size
  <2>1. \A d \in 1..n : st[d].input = fr[d].size - IF d < n THEN fr[d + 1].size ELSE 0
    BY DEF ThreadInv
  <2> HIDE DEF n, m
  <2> QED
    BY <2>1, <1>3
<1>7. \A d \in 1..m : /\ stn[d].aid = st[d].aid
                      /\ stn[d].input = st[d].input + IF d = m THEN st[n].input ELSE 0
                      /\ stn[d].dynamic = st[d].dynamic + IF d = m THEN st[n].dynamic ELSE 0
  OBVIOUS
<1>8. /\ \A d \in 1..n : st[d].aid > 0 /\ st[d].aid <= now
      /\ \A d, e \in 1..n : d < e => st[d].aid < st[e].aid
      /\ \A d \in 1..n : Knows(st, loc, glo, d) = fr[d].known
  BY DEF ThreadInv
<1>9. PICK sum \in [1..n -> Nat] : \A d \in 1..n :
          /\ st[d].dynamic = sum[d] - IF d < n THEN sum[d + 1] ELSE 0
          /\ sum[d] <= fr[d].size
  BY DEF ThreadInv, DynamicSums
<1>10. ThreadTypes(stn, loc, glo, new, now)
  <2> HIDE DEF new, m, n
  <2>1. m <= MaxDepth
    BY <1>2
  <2> QED
    BY <1>1, <1>4, <2>1 DEF ThreadTypes
<1> HIDE DEF new, m, n
<1>11. /\ \A d \in 1..m : stn[d].aid > 0 /\ stn[d].aid <= now
       /\ \A d, e \in 1..m : d < e => stn[d].aid < stn[e].aid
       /\ \A d \in 1..m : Knows(stn, loc, glo, d) = new[d].known
  BY <1>3, <1>4, <1>7, <1>8 DEF Knows
<1>12. ASSUME NEW d \in 1..m
       PROVE  stn[d].input = new[d].size - IF d < m THEN new[d + 1].size ELSE 0
  <2>1. /\ d \in Int /\ st[d].input = fr[d].size - fr[d + 1].size
        /\ fr[d].size \in Int /\ fr[d + 1].size \in Int /\ new[d] = fr[d]
    <3>1. d \in 1..n /\ d + 1 \in 1..n
      BY <1>3
    <3>2. fr[d].size \in Int /\ fr[d + 1].size \in Int
      BY <3>1, <1>2
    <3> QED
      BY <3>2, <1>4, <1>6
  <2>2. CASE d = m
    <3>1. stn[d].input = st[d].input + st[n].input /\ st[n].input = fr[d + 1].size
      BY <2>2, <1>2, <1>5, <1>7
    <3> QED
      BY <2>1, <2>2, <3>1
  <2>3. CASE d < m
    <3>1. stn[d].input = st[d].input + 0 /\ d + 1 \in 1..m
      BY <2>1, <2>3, <1>2, <1>7
    <3>2. new[d + 1] = fr[d + 1]
      BY <3>1, <1>4
    <3> QED
      BY <2>1, <2>3, <3>1, <3>2
  <2> QED
    BY <2>1, <2>2, <2>3, <1>2
<1>13. DynamicSums(stn, new)
  <2> DEFINE sum2 == [d \in 1..m |-> sum[d]]
  <2>1. sum2 \in [1..m -> Nat] /\ \A d \in 1..m : sum2[d] = sum[d]
    BY <1>3
  <2> HIDE DEF sum2
  <2>2. ASSUME NEW d \in 1..m
        PROVE  /\ stn[d].dynamic = sum2[d] - IF d < m THEN sum2[d + 1] ELSE 0
               /\ sum2[d] <= new[d].size
    <3>1. /\ d \in Int /\ st[d].dynamic = sum[d] - sum[d + 1] /\ sum[d] <= fr[d].size
          /\ sum[d] \in Int /\ sum[d + 1] \in Int /\ new[d] = fr[d] /\ sum2[d] = sum[d]
      BY <1>3, <1>4, <1>9, <2>1
    <3>2. st[n].dynamic = sum[n]
      <4>1. st[n].dynamic = sum[n] - 0 /\ sum[n] \in Int
        BY <1>2, <1>3, <1>9
      <4> QED
        BY <4>1
    <3>3. CASE d = m
      <4>1. stn[d].dynamic = st[d].dynamic + st[n].dynamic /\ st[n].dynamic = sum[d + 1]
        BY <3>2, <3>3, <1>2, <1>7
      <4> QED
        BY <3>1, <3>3, <4>1
    <3>4. CASE d < m
      <4>1. stn[d].dynamic = st[d].dynamic + 0 /\ d + 1 \in 1..m
        BY <3>1, <3>4, <1>2, <1>7
      <4>2. sum2[d + 1] = sum[d + 1]
        BY <4>1, <2>1
      <4> QED
        BY <3>1, <3>4, <4>1, <4>2
    <3> QED
      BY <3>1, <3>3, <3>4, <1>2
  <2> QED
    BY <2>1, <2>2, <1>4 DEF DynamicSums
<1>14. ThreadInv(stn, loc, glo, new, now)
  BY <1>4, <1>10, <1>11, <1>12, <1>13 DEF ThreadInv
<1> QED
  BY <1>4, <1>5, <1>14 DEF new, m, n

-----------------------------------------------------------------------------
(* The skip counter.                                                       *)

\* The skipped routines of a stack can be counted.
LEMMA SkippedOnFinite ==
  ASSUME NEW st, NEW n \in Nat
  PROVE  IsFiniteSet(SkippedOn(st, n)) /\ Cardinality(SkippedOn(st, n)) \in Nat
<1>1. IsFiniteSet(1..n) /\ SkippedOn(st, n) \in SUBSET (1..n)
  BY FS_Interval DEF SkippedOn
<1>2. IsFiniteSet(SkippedOn(st, n))
  BY <1>1, FS_Subset
<1> QED
  BY <1>2, FS_CardinalityType

\* A stack without skipped routines.
LEMMA NothingSkipped ==
  ASSUME NEW st, NEW n \in Nat, \A d \in 1..n : st[d].fn \notin Skipped
  PROVE  SkipInv(st, n, 0, n)
<1>1. SkippedOn(st, n) = {}
  BY DEF SkippedOn
<1>2. Cardinality(SkippedOn(st, n)) = 0
  BY <1>1, FS_EmptySet
<1> QED
  BY <1>2 DEF SkipInv

\* While nothing is skipped every activation is live, and otherwise not every one is.
LEMMA SkipDecides ==
  ASSUME NEW st, NEW n \in Nat, NEW sk, NEW len \in Nat, SkipInv(st, n, sk, len)
  PROVE  /\ sk \in Nat
         /\ sk = 0 => len = n
         /\ sk # 0 => len < n /\ st[len + 1].fn \in Skipped
<1> USE DEF SkipInv
<1>1. IsFiniteSet(SkippedOn(st, n)) /\ sk \in Nat
  BY SkippedOnFinite
<1>2. ASSUME sk = 0, len < n PROVE FALSE
  <2>1. SkippedOn(st, n) = {}
    BY <1>1, <1>2, FS_EmptySet
  <2>2. len + 1 \in SkippedOn(st, n)
    BY <1>2 DEF SkippedOn
  <2> QED
    BY <2>1, <2>2
<1>3. ASSUME sk # 0, len = n PROVE FALSE
  <2>1. SkippedOn(st, n) = {}
    BY <1>3 DEF SkippedOn
  <2> QED
    BY <1>1, <1>3, <2>1, FS_EmptySet
<1> QED
  BY <1>1, <1>2, <1>3

\* Only the routines on the stack matter.
LEMMA SkipUnchanged ==
  ASSUME NEW st, NEW n \in Nat, NEW sk, NEW len \in Nat, SkipInv(st, n, sk, len),
         NEW stn, \A d \in 1..n : stn[d].fn = st[d].fn
  PROVE  SkipInv(stn, n, sk, len)
<1>1. SkippedOn(stn, n) = SkippedOn(st, n)
  BY DEF SkippedOn
<1>2. /\ sk = Cardinality(SkippedOn(stn, n)) /\ len <= n
      /\ \A d \in 1..len : d \in 1..n
      /\ len < n => len + 1 \in 1..n
  BY <1>1 DEF SkipInv
<1> QED
  BY <1>2 DEF SkipInv

\* function_enter of a skipped routine, or under one.
LEMMA SkipPushed ==
  ASSUME NEW st, NEW n \in Nat, NEW sk, NEW len \in Nat, SkipInv(st, n, sk, len),
         NEW stn, NEW f, \A d \in 1..n : stn[d].fn = st[d].fn, stn[n + 1].fn = f,
         f \in Skipped \/ sk # 0
  PROVE  SkipInv(stn, n + 1, IF f \in Skipped THEN sk + 1 ELSE sk, len)
<1>1. /\ sk = Cardinality(SkippedOn(st, n)) /\ len <= n
      /\ \A d \in 1..len : st[d].fn \notin Skipped
  BY DEF SkipInv
<1>2. SkippedOn(stn, n + 1) = IF f \in Skipped THEN SkippedOn(st, n) \cup {n + 1}
                                               ELSE SkippedOn(st, n)
  BY DEF SkippedOn
<1>3. n + 1 \notin SkippedOn(st, n) /\ IsFiniteSet(SkippedOn(st, n))
  BY SkippedOnFinite DEF SkippedOn
<1>4. Cardinality(SkippedOn(st, n) \cup {n + 1}) = Cardinality(SkippedOn(st, n)) + 1
  BY <1>3, FS_AddElement
<1>5. Cardinality(SkippedOn(stn, n + 1)) = IF f \in Skipped THEN sk + 1 ELSE sk
  BY <1>1, <1>2, <1>4
<1>6. len < n + 1 /\ \A d \in 1..len : d \in 1..n
  BY <1>1
<1>7. stn[len + 1].fn \in Skipped
  <2>1. CASE len < n
    <3>1. len + 1 \in 1..n
      BY <2>1
    <3> QED
      BY <2>1, <3>1 DEF SkipInv
  <2>2. CASE len = n
    <3>1. sk # 0 => len < n
      BY SkipDecides
    <3> QED
      BY <2>2, <3>1
  <2> QED
    BY <1>1, <2>1, <2>2
<1> QED
  BY <1>1, <1>5, <1>6, <1>7 DEF SkipInv

\* function_exit of a skipped routine, or under one.
LEMMA SkipPopped ==
  ASSUME NEW st, NEW n \in Nat, NEW sk, NEW len \in Nat, SkipInv(st, n, sk, len),
         n > 0, sk # 0
  PROVE  SkipInv(st, n - 1, IF st[n].fn \in Skipped THEN sk - 1 ELSE sk, len)
<1>1. /\ sk = Cardinality(SkippedOn(st, n)) /\ IsFiniteSet(SkippedOn(st, n)) /\ len < n
      /\ \A d \in 1..len : st[d].fn \notin Skipped
      /\ st[len + 1].fn \in Skipped
  BY SkippedOnFinite, SkipDecides DEF SkipInv
<1>2. SkippedOn(st, n - 1) = SkippedOn(st, n) \ {n}
  BY DEF SkippedOn
<1>3. st[n].fn \in Skipped <=> n \in SkippedOn(st, n)
  BY DEF SkippedOn
<1>4. Cardinality(SkippedOn(st, n) \ {n})
        = IF n \in SkippedOn(st, n) THEN Cardinality(SkippedOn(st, n)) - 1
                                    ELSE Cardinality(SkippedOn(st, n))
  BY <1>1, FS_RemoveElement
<1>5. Cardinality(SkippedOn(st, n - 1)) = IF st[n].fn \in Skipped THEN sk - 1 ELSE sk
  BY <1>1, <1>2, <1>3, <1>4
<1> QED
  BY <1>1, <1>5 DEF SkipInv

\* LiveDepth is the number of live activations.
LEMMA LiveDepthIs ==
  ASSUME NEW t, depth[t] \in Nat, NEW len \in Nat, SkipInv(stack[t], depth[t], skip[t], len)
  PROVE  LiveDepth(t) = len
<1> DEFINE First(n) == /\ stack[t][n + 1].fn \in Skipped
                       /\ \A d \in 1..n : stack[t][d].fn \notin Skipped
<1>1. CASE skip[t] = 0
  BY <1>1, SkipDecides DEF LiveDepth
<1>2. CASE skip[t] # 0
  <2>1. len < depth[t] /\ First(len)
    BY <1>2, SkipDecides DEF SkipInv
  <2>2. len \in 0..(depth[t] - 1)
    BY <2>1
  <2>3. ASSUME NEW n \in 0..(depth[t] - 1), First(n) PROVE n = len
    <3>1. ~ (n < len)
      <4> SUFFICES ASSUME n < len PROVE FALSE
        OBVIOUS
      <4>1. n + 1 \in 1..len
        OBVIOUS
      <4> QED
        BY <2>1, <2>3, <4>1
    <3>2. ~ (len < n)
      <4> SUFFICES ASSUME len < n PROVE FALSE
        OBVIOUS
      <4>1. len + 1 \in 1..n
        OBVIOUS
      <4> QED
        BY <2>1, <2>3, <4>1
    <3> QED
      BY <3>1, <3>2
  <2>4. LiveDepth(t) = CHOOSE n \in 0..(depth[t] - 1) : First(n)
    BY <1>2 DEF LiveDepth
  <2> HIDE DEF First
  <2> QED
    BY <2>1, <2>2, <2>3, <2>4
<1> QED
  BY <1>1, <1>2

-----------------------------------------------------------------------------
(* The renumbering.                                                        *)

\* The state of one thread as numbers.
LEMMA StateTypes ==
  ASSUME IInv, NEW t \in Thread
  PROVE  /\ depth[t] \in Nat /\ depth[t] \in 0..MaxDepth /\ skip[t] \in Nat
         /\ stack[t] \in [Slot -> Activation]
         /\ frames[t] \in Seq(AFrame) /\ Len(frames[t]) \in Nat /\ Len(frames[t]) <= depth[t]
         /\ \A d \in 1..depth[t] : d \in Slot
         /\ \A d \in Live(t) : d \in Slot /\ d \in 1..depth[t]
         /\ ThreadTypes(stack[t], local[t], global, frames[t], counter)
<1>1. /\ depth[t] \in 0..MaxDepth /\ stack[t] \in [Slot -> Activation] /\ skip[t] \in Nat
  BY DEF IInv, HTypeOK, TypeOK
<1>2. ThreadTypes(stack[t], local[t], global, frames[t], counter)
  BY DEF IInv, ThreadInv
<1>3. Len(frames[t]) \in Nat /\ MaxDepth \in Nat
  BY <1>2, ThreadFacts
<1>4. Len(frames[t]) <= depth[t]
  BY DEF IInv, SkipInv
<1>5. frames[t] \in Seq(AFrame)
  BY <1>2 DEF ThreadTypes
<1> QED
  BY <1>1, <1>2, <1>3, <1>4, <1>5 DEF Live, Slot

\* While thread t skips nothing, every activation on its stack is live.
LEMMA AllLive ==
  ASSUME IInv, NEW t \in Thread
  PROVE  skip[t] = 0 => Len(frames[t]) = depth[t]
<1> DEFINE st  == stack[t]
           n   == depth[t]
           sk  == skip[t]
           len == Len(frames[t])
<1>1. n \in Nat /\ len \in Nat
  BY StateTypes
<1>2. SkipInv(st, n, sk, len)
  BY DEF IInv
<1> HIDE DEF st, n, sk, len
<1>3. sk = 0 => len = n
  BY <1>1, <1>2, SkipDecides
<1> QED
  BY <1>3 DEF st, n, sk, len

\* The pending slots can be counted, and the counter has room for all of them.
LEMMA PendingFits ==
  ASSUME depth \in [Thread -> 0..MaxDepth]
  PROVE  /\ IsFiniteSet(Pending) /\ Cardinality(Pending) \in Nat
         /\ RenumberedCount \in 1..(MaxCount - 1)
         /\ IsFiniteSet(ActiveTs) /\ Cardinality(ActiveTs) \in Nat
         /\ Cardinality(ActiveTs) <= Cardinality(Pending)
<1> DEFINE room == Cardinality(Thread) * MaxDepth
<1>1. IsFiniteSet(Slot) /\ Cardinality(Slot) = MaxDepth
  <2>1. 1 \in Int /\ MaxDepth \in Int /\ ~ (1 > MaxDepth) /\ MaxDepth - 1 + 1 = MaxDepth
    BY CountAssumption
  <2> QED
    BY <2>1, FS_Interval DEF Slot
<1>2. IsFiniteSet(Thread \X Slot) /\ Cardinality(Thread \X Slot) = room
  BY <1>1, SetsAssumption, FS_Product
<1>3. IsFiniteSet(Pending) /\ Cardinality(Pending) <= room
  <2>1. Pending \in SUBSET (Thread \X Slot)
    BY DEF Pending
  <2> QED
    BY <1>2, <2>1, FS_Subset
<1>4. Cardinality(Pending) \in Nat /\ room \in Nat
  BY <1>2, <1>3, FS_CardinalityType
<1>5. 3 * (room + 2) < MaxCount /\ MaxCount \in Nat
  BY CountAssumption
<1> HIDE DEF room
<1>6. RenumberedCount \in 1..(MaxCount - 1)
  BY <1>3, <1>4, <1>5 DEF RenumberedCount
<1>7. IsFiniteSet(ActiveTs) /\ Cardinality(ActiveTs) <= Cardinality(Pending)
  <2> DEFINE id == [p \in Pending |-> IdOf(p)]
  <2>1. id \in Surjection(Pending, ActiveTs)
    BY DEF Surjection, ActiveTs
  <2> HIDE DEF id
  <2> QED
    BY <1>3, <2>1, FS_Surjection
<1> QED
  BY <1>3, <1>4, <1>6, <1>7, FS_CardinalityType

\* Index is a number no larger than that of the pending slots.
LEMMA IndexType ==
  ASSUME depth \in [Thread -> 0..MaxDepth], NEW ts
  PROVE  Index(ts) \in Nat /\ Index(ts) <= Cardinality(Pending)
<1>1. {a \in ActiveTs : a <= ts} \in SUBSET ActiveTs
  OBVIOUS
<1>2. /\ IsFiniteSet({a \in ActiveTs : a <= ts})
      /\ Cardinality({a \in ActiveTs : a <= ts}) <= Cardinality(ActiveTs)
  BY <1>1, PendingFits, FS_Subset
<1> QED
  BY <1>2, PendingFits, FS_CardinalityType DEF Index

\* The binary search keeps the order of the times.
LEMMA IndexMonotone ==
  ASSUME depth \in [Thread -> 0..MaxDepth], ActiveTs \in SUBSET Nat,
         NEW x \in Nat, NEW y \in Nat, x <= y
  PROVE  Index(x) <= Index(y)
<1> DEFINE X == {a \in ActiveTs : a <= x}
           Y == {a \in ActiveTs : a <= y}
<1>1. X \in SUBSET Y /\ Y \in SUBSET ActiveTs
  <2>1. \A a \in ActiveTs : a \in Int
    OBVIOUS
  <2>2. \A a \in ActiveTs : a <= x => a <= y
    BY <2>1
  <2> QED
    BY <2>2
<1> HIDE DEF X, Y
<1>2. IsFiniteSet(Y)
  BY <1>1, PendingFits, FS_Subset
<1>3. Cardinality(X) <= Cardinality(Y)
  BY <1>1, <1>2, FS_Subset
<1> QED
  BY <1>3 DEF Index, X, Y

\* ... and it separates a pending activation from everything older.
LEMMA IndexSeparates ==
  ASSUME depth \in [Thread -> 0..MaxDepth], ActiveTs \in SUBSET Nat,
         NEW x \in Nat, NEW a \in ActiveTs
  PROVE  Index(x) >= Index(a) <=> x >= a
<1>1. CASE x >= a
  BY <1>1, IndexMonotone, IndexType
<1>2. CASE x < a
  <2> DEFINE X == {b \in ActiveTs : b <= x}
             A == {b \in ActiveTs : b <= a}
  <2>1. X \in SUBSET A /\ A \in SUBSET ActiveTs /\ a \in A /\ a \notin X
    <3>1. \A b \in ActiveTs : b \in Int
      OBVIOUS
    <3>2. (\A b \in ActiveTs : b <= x => b <= a) /\ a <= a /\ ~ (a <= x)
      BY <1>2, <3>1
    <3> QED
      BY <3>2
  <2> HIDE DEF X, A
  <2>2. IsFiniteSet(A) /\ IsFiniteSet(X)
    BY <2>1, PendingFits, FS_Subset
  <2>3. Cardinality(X) <= Cardinality(A) /\ Cardinality(A) # Cardinality(X)
    BY <2>1, <2>2, FS_Subset
  <2>4. Cardinality(X) \in Nat /\ Cardinality(A) \in Nat
    BY <2>2, FS_CardinalityType
  <2>5. Index(x) = Cardinality(X) /\ Index(a) = Cardinality(A)
    BY DEF Index, X, A
  <2>6. ~ (Index(x) >= Index(a))
    BY <2>3, <2>4, <2>5
  <2>7. ~ (x >= a)
    BY <1>2
  <2> QED
    BY <2>6, <2>7
<1> QED
  BY <1>1, <1>2

\* A pending activation is found at an index above 0.
LEMMA IndexPositive ==
  ASSUME depth \in [Thread -> 0..MaxDepth], ActiveTs \in SUBSET Nat, NEW a \in ActiveTs
  PROVE  Index(a) > 0
<1> DEFINE A == {b \in ActiveTs : b <= a}
<1>1. a \in A /\ A \in SUBSET ActiveTs
  OBVIOUS
<1> HIDE DEF A
<1>2. IsFiniteSet(A)
  BY <1>1, PendingFits, FS_Subset
<1>3. Cardinality(A) \in Nat /\ Cardinality(A) # 0
  BY <1>1, <1>2, FS_CardinalityType, FS_EmptySet
<1> QED
  BY <1>3 DEF Index, A

\* What LK_compress_drms does to the two times of one cell: the times fit below the
\* restarted counter, and whether the cell is known to a pending activation stays as it
\* was.  (The times of a cell whose chunk is not allocated are 0 and stay 0.)
LEMMA CellCompressed ==
  ASSUME depth \in [Thread -> 0..MaxDepth], ActiveTs \in SUBSET Nat,
         NEW g \in Nat, NEW l \in Nat, NEW gn, NEW ln,
         gn = CompressedWrite(g) \/ (g = 0 /\ gn = 0),
         ln = CompressedAccess(g, l) \/ (l = 0 /\ ln = 0)
  PROVE  /\ gn \in Nat /\ gn < RenumberedCount
         /\ ln \in Nat /\ ln < RenumberedCount
         /\ \A a \in ActiveTs : a > 0 =>
              (ln >= 3 * Index(a) /\ ln >= gn <=> l >= a /\ l >= g)
<1>1. /\ Index(g) \in Nat /\ Index(g) <= Cardinality(Pending)
      /\ Index(l) \in Nat /\ Index(l) <= Cardinality(Pending)
      /\ Cardinality(Pending) \in Nat
  BY IndexType, PendingFits
<1>2. /\ l <= g => Index(l) <= Index(g)
      /\ g <= l => Index(g) <= Index(l)
  BY IndexMonotone
<1>3. gn \in Nat /\ gn < RenumberedCount
  BY <1>1 DEF CompressedWrite, RenumberedCount
<1>4. /\ ln \in Nat /\ ln < RenumberedCount
      /\ ln = CompressedAccess(g, l) => ln >= 3 * Index(l) /\ ln <= 3 * Index(l) + 2
  BY <1>1 DEF CompressedAccess, RenumberedCount
<1>5. ASSUME gn = CompressedWrite(g), ln = CompressedAccess(g, l)
      PROVE  ln >= gn <=> l >= g
  <2>1. gn = 3 * Index(g) + 1
    BY <1>5 DEF CompressedWrite
  <2>2. CASE Index(l) # Index(g)
    <3>1. ln = 3 * Index(l)
      BY <1>5, <2>2 DEF CompressedAccess
    <3>2. l >= g <=> Index(l) > Index(g)
      BY <1>1, <1>2, <2>2
    <3> QED
      BY <1>1, <2>1, <3>1, <3>2
  <2>3. CASE Index(l) = Index(g)
    <3>1. ln = 3 * Index(g) + (IF l < g THEN 0 ELSE IF l = g THEN 1 ELSE 2)
      BY <1>5, <2>3 DEF CompressedAccess
    <3> QED
      BY <1>1, <2>1, <3>1
  <2> QED
    BY <2>2, <2>3
<1>6. ASSUME NEW a \in ActiveTs, a > 0
      PROVE  ln >= 3 * Index(a) /\ ln >= gn <=> l >= a /\ l >= g
  <2>1. /\ Index(a) \in Nat /\ Index(a) > 0 /\ a \in Nat
        /\ Index(l) >= Index(a) <=> l >= a
    BY IndexType, IndexPositive, IndexSeparates
  <2>2. CASE l = 0 /\ ln = 0
    BY <1>6, <2>1, <2>2
  <2>3. CASE ln = CompressedAccess(g, l)
    <3>1. ln >= 3 * Index(a) <=> l >= a
      BY <1>1, <1>4, <2>1, <2>3
    <3>2. CASE g = 0 /\ gn = 0
      BY <3>1, <3>2, <1>4
    <3>3. CASE gn = CompressedWrite(g)
      BY <3>1, <3>3, <1>5, <2>3
    <3> QED
      BY <3>2, <3>3
  <2> QED
    BY <2>2, <2>3
<1> QED
  BY <1>3, <1>4, <1>6

\* What overflow_handler_drms leaves of one thread, in terms of what it was.
LEMMA RenumberedThread ==
  ASSUME IInv, InOrder, NEW t \in Thread
  PROVE  /\ RenumberedStack[t] \in [Slot -> Activation]
         /\ RenumberedLocal[t] \in [Cell -> Time] /\ RenumberedGlobal \in [Cell -> Time]
         /\ \A d \in Slot : RenumberedStack[t][d].fn = stack[t][d].fn
         /\ \A c \in Cell : /\ RenumberedLocal[t][c] < RenumberedCount
                            /\ RenumberedGlobal[c] < RenumberedCount
         /\ \A d \in Live(t) : /\ stack[t][d].aid \in ActiveTs
                               /\ RenumberedStack[t][d].aid = 3 * Index(stack[t][d].aid)
                               /\ RenumberedStack[t][d].aid < RenumberedCount
                               /\ Knows(RenumberedStack[t], RenumberedLocal[t], RenumberedGlobal, d)
                                    = Knows(stack[t], local[t], global, d)
         /\ ThreadInv(RenumberedStack[t], RenumberedLocal[t], RenumberedGlobal, frames[t],
                      RenumberedCount)
<1> DEFINE stn == RenumberedStack[t]
           locn == RenumberedLocal[t]
           glon == RenumberedGlobal
           count == RenumberedCount
           fr == frames[t]
<1>1. /\ depth \in [Thread -> 0..MaxDepth]
      /\ stack \in [Thread -> [Slot -> Activation]]
      /\ global \in [Cell -> Time] /\ local \in [Thread -> [Cell -> Time]]
      /\ chunks \in [Thread -> SUBSET Cell]
  BY DEF IInv, HTypeOK, TypeOK
<1>2. count \in Nat /\ count \in 1..(MaxCount - 1) /\ Cardinality(Pending) \in Nat
      /\ \A x \in Nat : x < count => x \in Time
  <2>1. count \in 1..(MaxCount - 1) /\ Cardinality(Pending) \in Nat /\ MaxCount \in Nat
    BY <1>1, PendingFits, CountAssumption
  <2> HIDE DEF count
  <2> QED
    BY <2>1 DEF Time
<1>3. \A p \in Pending : IdOf(p) \in Time /\ IdOf(p) \in Nat /\ IdOf(p) \in ActiveTs
  <2> SUFFICES ASSUME NEW p \in Pending
               PROVE  IdOf(p) \in Time /\ IdOf(p) \in Nat /\ IdOf(p) \in ActiveTs
    OBVIOUS
  <2>1. p[1] \in Thread /\ p[2] \in Slot
    BY DEF Pending
  <2>2. stack[p[1]][p[2]] \in Activation
    BY <1>1, <2>1
  <2> QED
    BY <2>2 DEF IdOf, Activation, Time, ActiveTs
<1>4. ActiveTs \in SUBSET Nat
  BY <1>3 DEF ActiveTs
<1>5. ASSUME NEW d \in Slot, d <= depth[t]
      PROVE  /\ <<t, d>> \in Pending /\ stack[t][d].aid \in ActiveTs
             /\ stack[t][d].aid \in Nat /\ stack[t][d].aid > 0
             /\ 3 * Index(stack[t][d].aid) \in Nat
             /\ 3 * Index(stack[t][d].aid) > 0 /\ 3 * Index(stack[t][d].aid) < count
  <2>1. <<t, d>> \in Pending /\ IdOf(<<t, d>>) = stack[t][d].aid
    BY <1>5 DEF Pending, IdOf
  <2>2. IdOf(<<t, d>>) > 0 /\ IdOf(<<t, d>>) \in ActiveTs /\ IdOf(<<t, d>>) \in Nat
    BY <2>1, <1>3 DEF InOrder
  <2>3. /\ Index(stack[t][d].aid) \in Nat /\ Index(stack[t][d].aid) <= Cardinality(Pending)
        /\ Index(stack[t][d].aid) > 0
    BY <2>1, <2>2, <1>1, <1>4, IndexType, IndexPositive
  <2> QED
    BY <2>1, <2>2, <2>3, <1>2 DEF RenumberedCount
<1>6. /\ stn \in [Slot -> Activation]
      /\ \A d \in Slot : /\ stn[d].fn = stack[t][d].fn /\ stn[d].input = stack[t][d].input
                         /\ stn[d].dynamic = stack[t][d].dynamic
                         /\ d <= depth[t] => stn[d].aid = 3 * Index(stack[t][d].aid)
  <2> DEFINE new(d) == IF d <= depth[t] THEN [stack[t][d] EXCEPT !.aid = 3 * Index(@)]
                                        ELSE stack[t][d]
  <2>1. stn = [d \in Slot |-> new(d)]
    BY DEF RenumberedStack
  <2>2. ASSUME NEW d \in Slot
        PROVE  /\ new(d) \in Activation
               /\ new(d).fn = stack[t][d].fn /\ new(d).input = stack[t][d].input
               /\ new(d).dynamic = stack[t][d].dynamic
               /\ d <= depth[t] => new(d).aid = 3 * Index(stack[t][d].aid)
    <3>1. stack[t][d] \in Activation
      BY <1>1
    <3>2. CASE d <= depth[t]
      <4> DEFINE id == 3 * Index(stack[t][d].aid)
      <4>1. id \in Time /\ new(d) = [stack[t][d] EXCEPT !.aid = id]
        BY <3>2, <1>2, <1>5
      <4> HIDE DEF id, new
      <4>2. /\ new(d) \in Activation
            /\ new(d).fn = stack[t][d].fn /\ new(d).input = stack[t][d].input
            /\ new(d).dynamic = stack[t][d].dynamic /\ new(d).aid = id
        BY <3>1, <4>1 DEF Activation
      <4> QED
        BY <4>2 DEF id
    <3>3. CASE ~ (d <= depth[t])
      BY <3>1, <3>3
    <3> QED
      BY <3>2, <3>3
  <2>3. stn \in [Slot -> Activation] /\ \A d \in Slot : stn[d] = new(d)
    BY <2>1, <2>2
  <2> HIDE DEF new, stn
  <2> QED
    BY <2>2, <2>3
<1>7. ASSUME NEW c \in Cell
      PROVE  /\ glon[c] \in Nat /\ glon[c] < count
             /\ locn[c] \in Nat /\ locn[c] < count
             /\ \A a \in ActiveTs : a > 0 =>
                  (locn[c] >= 3 * Index(a) /\ locn[c] >= glon[c]
                     <=> local[t][c] >= a /\ local[t][c] >= global[c])
  <2> DEFINE g == global[c]
             l == local[t][c]
             gn == glon[c]
             ln == locn[c]
  <2>1. /\ g \in Nat /\ l \in Nat
        /\ c \notin gchunks => g = 0
        /\ c \notin chunks[t] => l = 0
    BY <1>1 DEF Time, IInv, UnallocatedUntouched
  <2>2. /\ gn = IF c \in gchunks THEN CompressedWrite(g) ELSE 0
        /\ ln = IF c \in chunks[t] THEN CompressedAccess(g, l) ELSE 0
    BY DEF RenumberedGlobal, RenumberedLocal
  <2> HIDE DEF g, l, gn, ln
  <2>3. /\ gn = CompressedWrite(g) \/ (g = 0 /\ gn = 0)
        /\ ln = CompressedAccess(g, l) \/ (l = 0 /\ ln = 0)
    BY <2>1, <2>2
  <2>4. /\ gn \in Nat /\ gn < RenumberedCount
        /\ ln \in Nat /\ ln < RenumberedCount
        /\ \A a \in ActiveTs : a > 0 =>
             (ln >= 3 * Index(a) /\ ln >= gn <=> l >= a /\ l >= g)
    <3>1. depth \in [Thread -> 0..MaxDepth] /\ ActiveTs \in SUBSET Nat /\ g \in Nat /\ l \in Nat
      BY <1>1, <1>4, <2>1
    <3>2. gn \in Nat /\ gn < RenumberedCount
      BY <3>1, <2>3, CellCompressed
    <3>3. ln \in Nat /\ ln < RenumberedCount
      BY <3>1, <2>3, CellCompressed
    <3>4. \A a \in ActiveTs : a > 0 => (ln >= 3 * Index(a) /\ ln >= gn <=> l >= a /\ l >= g)
      BY <3>1, <2>3, CellCompressed
    <3> QED
      BY <3>2, <3>3, <3>4
  <2> QED
    BY <2>4 DEF g, l, gn, ln
<1>8. locn \in [Cell -> Time] /\ glon \in [Cell -> Time]
  <2>1. locn = [c \in Cell |-> locn[c]] /\ glon = [c \in Cell |-> glon[c]]
    BY DEF RenumberedLocal, RenumberedGlobal
  <2>2. \A c \in Cell : locn[c] \in Time /\ glon[c] \in Time
    BY <1>2, <1>7
  <2> HIDE DEF locn, glon
  <2> QED
    BY <2>1, <2>2
<1>9. ThreadTypes(stn, locn, glon, fr, count)
  <2>1. locn \in [Cell -> Nat] /\ glon \in [Cell -> Nat]
    BY <1>8 DEF Time
  <2>2. fr \in Seq(AFrame) /\ Len(fr) <= MaxDepth
    BY StateTypes DEF ThreadTypes
  <2> QED
    BY <2>1, <2>2, <1>2, <1>6 DEF ThreadTypes
<1>10. \A d \in 1..Len(fr) : d \in Live(t) /\ d \in Slot /\ d <= depth[t]
  BY StateTypes DEF Live
<1> HIDE DEF stn, locn, glon, count
<1>11. ThreadInv(stack[t], local[t], global, fr, counter)
  BY DEF IInv
<1>12. ASSUME NEW d \in 1..Len(fr)
       PROVE  /\ stn[d].aid = 3 * Index(stack[t][d].aid)
              /\ stn[d].aid > 0 /\ stn[d].aid < count /\ stn[d].aid \in Nat
              /\ Knows(stn, locn, glon, d) = Knows(stack[t], local[t], global, d)
  <2>1. /\ stn[d].aid = 3 * Index(stack[t][d].aid) /\ stack[t][d].aid \in ActiveTs
        /\ stn[d].aid > 0 /\ stn[d].aid < count /\ stack[t][d].aid > 0 /\ stn[d].aid \in Nat
    BY <1>5, <1>6, <1>10
  <2>2. \A c \in Cell : locn[c] >= stn[d].aid /\ locn[c] >= glon[c]
                          <=> local[t][c] >= stack[t][d].aid /\ local[t][c] >= global[c]
    BY <1>7, <2>1
  <2> QED
    BY <2>1, <2>2 DEF Knows
<1>13. ASSUME NEW d \in 1..Len(fr), NEW e \in 1..Len(fr), d < e
       PROVE  stn[d].aid < stn[e].aid
  <2> DEFINE a == stack[t][d].aid
             b == stack[t][e].aid
  <2>1. a < b
    BY <1>11, <1>13 DEF ThreadInv
  <2>2. a \in Nat /\ b \in ActiveTs /\ b \in Nat
    BY <1>5, <1>10
  <2>3. ~ (Index(a) >= Index(b))
    <3> HIDE DEF a, b
    <3> QED
      BY <2>1, <2>2, <1>1, <1>4, IndexSeparates
  <2>4. Index(a) \in Nat /\ Index(b) \in Nat
    BY <1>1, IndexType
  <2>5. stn[d].aid = 3 * Index(a) /\ stn[e].aid = 3 * Index(b)
    BY <1>12
  <2> HIDE DEF a, b
  <2> QED
    BY <2>3, <2>4, <2>5
<1>14. ThreadInv(stn, locn, glon, fr, count)
  <2>1. \A d \in 1..Len(fr) : stn[d].aid > 0 /\ stn[d].aid <= count
    BY <1>2, <1>12
  <2>2. \A d \in 1..Len(fr) : stn[d].input = stack[t][d].input /\ stn[d].dynamic = stack[t][d].dynamic
    BY <1>6, <1>10
  <2>3. \A d \in 1..Len(fr) : Knows(stn, locn, glon, d) = fr[d].known
    BY <1>11, <1>12 DEF ThreadInv
  <2>4. \A d \in 1..Len(fr) :
          stn[d].input = fr[d].size - IF d < Len(fr) THEN fr[d + 1].size ELSE 0
    BY <1>11, <2>2 DEF ThreadInv
  <2>5. DynamicSums(stn, fr)
    BY <1>11, <2>2 DEF ThreadInv, DynamicSums
  <2> QED
    BY <1>9, <1>13, <2>1, <2>3, <2>4, <2>5 DEF ThreadInv
<1>15. \A d \in Live(t) : d \in 1..Len(fr) /\ stack[t][d].aid \in ActiveTs
  BY <1>5, <1>10 DEF Live
<1> QED
  BY <1>6, <1>7, <1>8, <1>12, <1>14, <1>15 DEF stn, locn, glon, count

\* Incrementing the counter, with or without a renumbering: all that happened before lies
\* strictly behind the new time, and no thread knows more or less than it did.
LEMMA TickedState ==
  ASSUME IInv, CanTick
  PROVE  /\ Ticked \in 1..(MaxCount - 1) /\ Ticked \in Nat /\ Ticked > 0 /\ Ticked \in Time
         /\ TickedStack \in [Thread -> [Slot -> Activation]]
         /\ TickedGlobal \in [Cell -> Time] /\ TickedLocal \in [Thread -> [Cell -> Time]]
         /\ \A c \in Cell : TickedGlobal[c] < Ticked
         /\ \A t \in Thread :
              /\ ThreadInv(TickedStack[t], TickedLocal[t], TickedGlobal, frames[t], Ticked)
              /\ \A d \in Slot : TickedStack[t][d].fn = stack[t][d].fn
              /\ \A d \in Live(t) : TickedStack[t][d].aid < Ticked
              /\ \A c \in Cell : TickedLocal[t][c] < Ticked
         /\ \A t, u \in Thread : t # u =>
              \A d \in Live(t), e \in Live(u) : TickedStack[t][d].aid # TickedStack[u][e].aid
         /\ \A c \in Cell : c \notin gchunks => TickedGlobal[c] = 0
         /\ \A t \in Thread, c \in Cell : c \notin chunks[t] => TickedLocal[t][c] = 0
<1>1. /\ depth \in [Thread -> 0..MaxDepth] /\ counter \in 1..(MaxCount - 1) /\ MaxCount \in Nat
      /\ stack \in [Thread -> [Slot -> Activation]]
      /\ global \in [Cell -> Time] /\ local \in [Thread -> [Cell -> Time]]
  BY CountAssumption DEF IInv, HTypeOK, TypeOK
<1>2. IdsDistinct /\ TimesBounded /\ UnallocatedUntouched
  BY DEF IInv
<1>3. CASE ~ Wraps
  <2>1. /\ Ticked = counter + 1 /\ TickedStack = stack /\ TickedGlobal = global
        /\ TickedLocal = local
    BY <1>3 DEF Ticked, TickedStack, TickedGlobal, TickedLocal
  <2>2. Ticked \in 1..(MaxCount - 1) /\ Ticked \in Time /\ counter \in Nat /\ counter < Ticked
    BY <1>1, <1>3, <2>1 DEF Wraps, Time
  <2>3. \A c \in Cell : global[c] < Ticked
    BY <1>1, <1>2, <2>2 DEF TimesBounded, Time
  <2>4. ASSUME NEW t \in Thread
        PROVE  /\ ThreadInv(stack[t], local[t], global, frames[t], Ticked)
               /\ \A d \in Live(t) : stack[t][d].aid < Ticked
               /\ \A c \in Cell : local[t][c] < Ticked
    <3>1. ThreadInv(stack[t], local[t], global, frames[t], counter) /\ stack[t] \in [Slot -> Activation]
      BY <1>1 DEF IInv
    <3>2. ThreadInv(stack[t], local[t], global, frames[t], Ticked)
      BY <2>2, <3>1, ThreadUnchanged
    <3>3. \A d \in Live(t) : stack[t][d].aid \in Nat /\ stack[t][d].aid <= counter
      BY <3>1, ThreadFacts DEF ThreadInv, Live
    <3>4. \A c \in Cell : local[t][c] <= counter /\ local[t][c] \in Nat
      BY <1>1, <1>2 DEF TimesBounded, Time
    <3> QED
      BY <2>2, <3>2, <3>3, <3>4
  <2>5. Ticked \in Nat /\ Ticked > 0
    BY <2>2
  <2> QED
    BY <1>1, <1>2, <2>1, <2>2, <2>3, <2>4, <2>5 DEF IdsDistinct, UnallocatedUntouched
<1>4. CASE Wraps
  <2>1. InOrder
    BY <1>4 DEF CanTick
  <2>2. /\ Ticked = RenumberedCount /\ TickedStack = RenumberedStack
        /\ TickedGlobal = RenumberedGlobal /\ TickedLocal = RenumberedLocal
    BY <1>4 DEF Ticked, TickedStack, TickedGlobal, TickedLocal
  <2>3. Ticked \in 1..(MaxCount - 1) /\ Ticked \in Nat /\ Ticked > 0 /\ Ticked \in Time
    <3>1. RenumberedCount \in 1..(MaxCount - 1)
      BY <1>1, PendingFits
    <3> QED
      BY <1>1, <2>2, <3>1 DEF Time
  <2>4. ASSUME NEW t \in Thread
        PROVE  /\ RenumberedStack[t] \in [Slot -> Activation]
               /\ RenumberedLocal[t] \in [Cell -> Time] /\ RenumberedGlobal \in [Cell -> Time]
               /\ ThreadInv(RenumberedStack[t], RenumberedLocal[t], RenumberedGlobal, frames[t], Ticked)
               /\ \A d \in Slot : RenumberedStack[t][d].fn = stack[t][d].fn
               /\ \A d \in Live(t) : RenumberedStack[t][d].aid < Ticked
               /\ \A c \in Cell : RenumberedLocal[t][c] < Ticked
    BY <2>1, <2>2, RenumberedThread
  <2>5. /\ RenumberedStack \in [Thread -> [Slot -> Activation]]
        /\ RenumberedLocal \in [Thread -> [Cell -> Time]]
    <3>1. /\ RenumberedStack = [t \in Thread |-> RenumberedStack[t]]
          /\ RenumberedLocal = [t \in Thread |-> RenumberedLocal[t]]
      BY DEF RenumberedStack, RenumberedLocal
    <3> QED
      BY <2>4, <3>1
  <2>6. RenumberedGlobal \in [Cell -> Time] /\ \A c \in Cell : RenumberedGlobal[c] < Ticked
    <3>1. ASSUME NEW c \in Cell PROVE RenumberedGlobal[c] \in Nat /\ RenumberedGlobal[c] < Ticked
      <4> DEFINE g == global[c]
                 gn == RenumberedGlobal[c]
      <4>1. g \in Nat /\ (c \notin gchunks => g = 0)
        BY <1>1, <1>2 DEF Time, UnallocatedUntouched
      <4>2. gn = IF c \in gchunks THEN CompressedWrite(g) ELSE 0
        BY DEF RenumberedGlobal
      <4>3. Index(g) \in Nat /\ Index(g) <= Cardinality(Pending) /\ Cardinality(Pending) \in Nat
        BY <1>1, IndexType, PendingFits
      <4>4. RenumberedCount = 3 * (Cardinality(Pending) + 2)
        BY DEF RenumberedCount
      <4> HIDE DEF g, gn
      <4>5. gn \in Nat /\ gn < RenumberedCount
        BY <4>2, <4>3, <4>4 DEF CompressedWrite
      <4> QED
        BY <4>5, <2>2 DEF gn
    <3>2. RenumberedGlobal = [c \in Cell |-> RenumberedGlobal[c]]
      BY DEF RenumberedGlobal
    <3>3. \A x \in Nat : x < Ticked => x \in Time
      BY <1>1, <2>3 DEF Time
    <3> QED
      BY <3>1, <3>2, <3>3
  <2>7. ASSUME NEW t \in Thread, NEW u \in Thread, t # u, NEW d \in Live(t), NEW e \in Live(u)
        PROVE  RenumberedStack[t][d].aid # RenumberedStack[u][e].aid
    <3> DEFINE a == stack[t][d].aid
               b == stack[u][e].aid
    <3>1. a # b
      BY <1>2, <2>7 DEF IdsDistinct
    <3>2. a \in ActiveTs /\ b \in ActiveTs /\ RenumberedStack[t][d].aid = 3 * Index(a)
          /\ RenumberedStack[u][e].aid = 3 * Index(b)
      BY <2>1, RenumberedThread
    <3>3. ActiveTs \in SUBSET Nat
      <4> SUFFICES ASSUME NEW p \in Pending PROVE IdOf(p) \in Nat
        BY DEF ActiveTs
      <4>1. stack[p[1]][p[2]] \in Activation
        BY <1>1 DEF Pending
      <4> QED
        BY <4>1 DEF IdOf, Activation, Time
    <3>4. a \in Nat /\ b \in Nat
      BY <3>2, <3>3
    <3> HIDE DEF a, b
    <3>5. (Index(a) >= Index(b) <=> a >= b) /\ (Index(b) >= Index(a) <=> b >= a)
      BY <1>1, <3>2, <3>3, <3>4, IndexSeparates
    <3>6. Index(a) \in Nat /\ Index(b) \in Nat
      BY <1>1, IndexType
    <3>7. Index(a) # Index(b)
      BY <3>1, <3>4, <3>5, <3>6
    <3> QED
      BY <3>2, <3>6, <3>7
  <2>8. /\ \A c \in Cell : c \notin gchunks => RenumberedGlobal[c] = 0
        /\ \A t \in Thread, c \in Cell : c \notin chunks[t] => RenumberedLocal[t][c] = 0
    BY DEF RenumberedGlobal, RenumberedLocal
  <2> QED
    BY <2>2, <2>3, <2>4, <2>5, <2>6, <2>7, <2>8
<1> QED
  BY <1>3, <1>4

-----------------------------------------------------------------------------
(* The history of all threads.                                             *)

\* What an access of t, and a write of the kernel, do to the history of each thread.
LEMMA TouchedFrames ==
  ASSUME NEW fr \in [Thread -> Seq(AFrame)], NEW t \in Thread, NEW cells \in SUBSET Cell,
         NEW reads \in BOOLEAN, NEW writes \in BOOLEAN
  PROVE  Abstract!Touched(fr, t, cells, reads, writes)
           = [u \in Thread |-> IF u = t THEN AccessedFrames(fr[t], cells, reads)
                               ELSE IF writes THEN ForgetfulFrames(fr[u], cells)
                               ELSE fr[u]]
<1> DEFINE after == [fr EXCEPT ![t] = AccessedFrames(fr[t], cells, reads)]
<1>1. Abstract!Accessed(fr, t, cells, reads) = after
  <2>1. AccessedFrames(fr[t], cells, reads)
          = [d \in DOMAIN fr[t] |->
               [known |-> fr[t][d].known \cup cells,
                size  |-> fr[t][d].size
                            + IF reads THEN Abstract!Cardinality(cells \ fr[t][d].known) ELSE 0]]
    BY SameCardinality, Zenon DEF AccessedFrames, Gain
  <2> QED
    BY <2>1, Zenon DEF Abstract!Accessed
<1>2. CASE writes
  <2>1. Abstract!Touched(fr, t, cells, reads, writes)
          = Abstract!Overwritten(after, Thread \ {t}, cells)
    BY <1>1, <1>2, Zenon DEF Abstract!Touched
  <2>2. Abstract!Overwritten(after, Thread \ {t}, cells)
          = [u \in Thread |-> IF u \in Thread \ {t} THEN ForgetfulFrames(after[u], cells) ELSE after[u]]
    BY Zenon DEF Abstract!Overwritten, ForgetfulFrames
  <2>3. \A u \in Thread : after[u] = IF u = t THEN AccessedFrames(fr[t], cells, reads) ELSE fr[u]
    OBVIOUS
  <2> HIDE DEF after
  <2> QED
    BY <1>2, <2>1, <2>2, <2>3
<1>3. CASE ~ writes
  <2>1. Abstract!Touched(fr, t, cells, reads, writes) = after
    BY <1>1, <1>3, Zenon DEF Abstract!Touched
  <2>2. after = [u \in Thread |-> IF u = t THEN AccessedFrames(fr[t], cells, reads) ELSE fr[u]]
    OBVIOUS
  <2> HIDE DEF after
  <2> QED
    BY <1>3, <2>1, <2>2
<1> QED
  BY <1>2, <1>3

\* (A write of the kernel reaches every thread.)
LEMMA InjectedFrames ==
  ASSUME NEW fr \in [Thread -> Seq(AFrame)], NEW cells
  PROVE  Abstract!Injected(fr, cells) = [u \in Thread |-> ForgetfulFrames(fr[u], cells)]
  BY Zenon DEF Abstract!Injected, Abstract!Overwritten, ForgetfulFrames

\* A cell lies in the chunk of its own.
LEMMA ChunksHold ==
  ASSUME NEW cells \in SUBSET Cell
  PROVE  cells \subseteq ChunksOf(cells) /\ ChunksOf(cells) \in SUBSET Cell
  BY SegmentsAssumption DEF ChunksOf

-----------------------------------------------------------------------------
(* Every step keeps the invariant.                                         *)

\* A step that leaves the memories, the stacks and the history alone.
LEMMA KeptState ==
  ASSUME IInv, HTypeOK',
         UNCHANGED <<counter, global, gchunks, current, depth, stack, skip, local, chunks, frames>>
  PROVE  IInv'
<1>1. (\A u \in Thread : ThreadInv(stack[u], local[u], global, frames[u], counter))'
  BY DEF IInv
<1>2. (\A u \in Thread : SkipInv(stack[u], depth[u], skip[u], Len(frames[u])))'
  BY DEF IInv
<1>3. IdsDistinct' /\ TimesBounded' /\ UnallocatedUntouched'
  BY DEF IInv, IdsDistinct, TimesBounded, UnallocatedUntouched, Live
<1> QED
  BY <1>1, <1>2, <1>3 DEF IInv

\* A stuttering step.
LEMMA Stuttering ==
  ASSUME IInv, UNCHANGED hvars
  PROVE  IInv'
<1>1. HTypeOK'
  BY DEF IInv, HTypeOK, TypeOK, hvars, vars, threadVars
<1> QED
  BY <1>1, KeptState DEF hvars, vars, threadVars

\* thread_create.
LEMMA StepCreate ==
  ASSUME IInv, NEW t \in Thread, HCreate(t)
  PROVE  IInv'
<1>1. HTypeOK'
  BY DEF IInv, HTypeOK, TypeOK, HCreate, Create, threadVars
<1> QED
  BY <1>1, KeptState DEF HCreate, Create, threadVars

\* A renumbering that meets ids out of order.
LEMMA StepRenumberOutOfOrder ==
  ASSUME IInv, HRenumberOutOfOrder
  PROVE  IInv'
<1>1. HTypeOK'
  BY DEF IInv, HTypeOK, TypeOK, HRenumberOutOfOrder, RenumberOutOfOrder, threadVars
<1> QED
  BY <1>1, KeptState DEF HRenumberOutOfOrder, RenumberOutOfOrder, threadVars

\* A step that does nothing but increment the counter and switch to a thread.
LEMMA OnlyTicked ==
  ASSUME IInv, NEW t \in Thread,
         CanTick, counter' = Ticked, stack' = TickedStack, global' = TickedGlobal,
         local' = TickedLocal, current' = t, alive' = alive \cup {t},
         UNCHANGED <<gchunks, depth, skip, chunks, filed, corrupt, frames>>
  PROVE  IInv'
<1>1. /\ CanTick /\ counter' = Ticked /\ stack' = TickedStack /\ global' = TickedGlobal
      /\ local' = TickedLocal /\ current' = t /\ alive' = alive \cup {t}
      /\ UNCHANGED <<gchunks, depth, skip, chunks, filed, corrupt, frames>>
  OBVIOUS
<1>2. HTypeOK'
  BY <1>1, TickedState DEF IInv, HTypeOK, TypeOK
<1>3. (\A u \in Thread : ThreadInv(stack[u], local[u], global, frames[u], counter))'
  BY <1>1, TickedState
<1>4. (\A u \in Thread : SkipInv(stack[u], depth[u], skip[u], Len(frames[u])))'
  <2> SUFFICES ASSUME NEW u \in Thread
               PROVE  SkipInv(TickedStack[u], depth[u], skip[u], Len(frames[u]))
    BY <1>1
  <2>1. \A d \in 1..depth[u] : TickedStack[u][d].fn = stack[u][d].fn
    BY <1>1, TickedState, StateTypes
  <2>2. SkipInv(stack[u], depth[u], skip[u], Len(frames[u]))
    BY DEF IInv
  <2> QED
    BY <2>1, <2>2, StateTypes, SkipUnchanged
<1>5. IdsDistinct'
  BY <1>1, TickedState DEF IdsDistinct, Live
<1>6. TimesBounded'
  BY <1>1, TickedState DEF TimesBounded, Time
<1>7. UnallocatedUntouched'
  BY <1>1, TickedState DEF UnallocatedUntouched
<1> QED
  BY <1>2, <1>3, <1>4, <1>5, <1>6, <1>7 DEF IInv

\* thread_switch.
LEMMA StepSwitch ==
  ASSUME IInv, NEW t \in Thread, HSwitch(t)
  PROVE  IInv'
  BY OnlyTicked DEF HSwitch, Switch

\* function_enter of a skipped routine, or under one.
LEMMA StepEnterSkipped ==
  ASSUME IInv, NEW f \in Routine, HEnterSkipped(f)
  PROVE  IInv'
<1> DEFINE t   == current
           n   == depth[t] + 1
           act == [stack[t][n] EXCEPT !.fn = f]
           stn == [stack[t] EXCEPT ![n] = act]
<1>1. /\ t # NoThread /\ depth[t] < MaxDepth /\ (f \in Skipped \/ skip[t] > 0)
      /\ depth' = [depth EXCEPT ![t] = @ + 1]
      /\ stack' = [stack EXCEPT ![t] = stn]
      /\ skip' = IF f \in Skipped THEN [skip EXCEPT ![t] = @ + 1] ELSE skip
      /\ UNCHANGED <<counter, global, gchunks, current, alive, local, chunks, filed, corrupt, frames>>
  BY DEF HEnterSkipped, EnterSkipped, Running
<1>2. /\ t \in Thread /\ HTypeOK /\ TypeOK
      /\ stack \in [Thread -> [Slot -> Activation]] /\ depth \in [Thread -> 0..MaxDepth]
      /\ skip \in [Thread -> Nat]
  BY <1>1 DEF IInv, HTypeOK, TypeOK
<1>3. /\ depth[t] \in Nat /\ skip[t] \in Nat /\ n \in Slot /\ n \in 0..MaxDepth /\ Len(frames[t]) \in Nat
      /\ \A d \in 1..Len(frames[t]) : d \in Slot /\ d # n
      /\ \A d \in 1..depth[t] : d \in Slot /\ d # n
  <2>1. /\ depth[t] \in Nat /\ skip[t] \in Nat /\ Len(frames[t]) \in Nat /\ Len(frames[t]) <= depth[t]
        /\ MaxDepth \in Nat
    BY <1>2, StateTypes, CountAssumption
  <2> QED
    BY <1>1, <2>1 DEF Slot
<1>4. /\ act \in Activation /\ act.fn = f /\ stack[t] \in [Slot -> Activation]
  <2> DEFINE r == stack[t][n]
  <2>1. r \in Activation /\ stack[t] \in [Slot -> Activation] /\ act = [r EXCEPT !.fn = f]
    BY <1>2, <1>3
  <2> HIDE DEF r, act
  <2> QED
    BY <2>1 DEF Activation
<1> HIDE DEF act
<1>5. /\ stn \in [Slot -> Activation] /\ stn[n].fn = f
      /\ \A d \in Slot : d # n => stn[d] = stack[t][d]
  BY <1>3, <1>4
<1> HIDE DEF stn
<1>6. /\ stack' \in [Thread -> [Slot -> Activation]] /\ stack'[t] = stn
      /\ \A u \in Thread : u # t => stack'[u] = stack[u] /\ depth'[u] = depth[u] /\ skip'[u] = skip[u]
      /\ depth'[t] = n /\ skip'[t] = IF f \in Skipped THEN skip[t] + 1 ELSE skip[t]
  BY <1>1, <1>2, <1>5
<1>7. HTypeOK'
  <2>1. depth' \in [Thread -> 0..MaxDepth]
    BY <1>1, <1>2, <1>3
  <2>2. skip' \in [Thread -> Nat]
    BY <1>1, <1>2
  <2> QED
    BY <1>1, <1>2, <1>6, <2>1, <2>2 DEF HTypeOK, TypeOK
<1>8. ASSUME NEW u \in Thread
      PROVE  ThreadInv(stack'[u], local[u], global, frames[u], counter)
  <2>1. ThreadInv(stack[u], local[u], global, frames[u], counter) /\ counter \in Nat
    BY <1>2 DEF IInv, TypeOK
  <2>2. CASE u = t
    <3>1. \A d \in 1..Len(frames[t]) : stn[d] = stack[t][d]
      BY <1>3, <1>5
    <3> QED
      BY <1>5, <1>6, <2>1, <2>2, <3>1, ThreadUnchanged
  <2> QED
    BY <1>6, <2>1, <2>2
<1>9. ASSUME NEW u \in Thread
      PROVE  SkipInv(stack'[u], depth'[u], skip'[u], Len(frames[u]))
  <2>1. SkipInv(stack[u], depth[u], skip[u], Len(frames[u]))
    BY DEF IInv
  <2>2. CASE u = t
    <3>1. /\ \A d \in 1..depth[t] : stn[d].fn = stack[t][d].fn
          /\ stn[depth[t] + 1].fn = f /\ (f \in Skipped \/ skip[t] # 0)
      BY <1>1, <1>3, <1>5
    <3>2. SkipInv(stn, depth[t] + 1, IF f \in Skipped THEN skip[t] + 1 ELSE skip[t], Len(frames[t]))
      BY <1>3, <2>1, <2>2, <3>1, SkipPushed
    <3> QED
      BY <1>6, <2>2, <3>2
  <2> QED
    BY <1>6, <2>1, <2>2
<1>10. \A u \in Thread : \A d \in Live(u) : stack'[u][d].aid = stack[u][d].aid
  BY <1>3, <1>5, <1>6 DEF Live
<1>11. IdsDistinct'
  BY <1>1, <1>10 DEF IInv, IdsDistinct, Live
<1>12. TimesBounded' /\ UnallocatedUntouched'
  BY <1>1 DEF IInv, TimesBounded, UnallocatedUntouched
<1> QED
  BY <1>1, <1>7, <1>8, <1>9, <1>11, <1>12 DEF IInv

\* function_exit of a skipped routine, or under one.
LEMMA StepExitSkipped ==
  ASSUME IInv, HExitSkipped
  PROVE  IInv'
<1> DEFINE t == current
           n == depth[t]
<1>1. /\ t # NoThread /\ n > 0 /\ skip[t] > 0
      /\ skip' = IF stack[t][n].fn \in Skipped THEN [skip EXCEPT ![t] = @ - 1] ELSE skip
      /\ depth' = [depth EXCEPT ![t] = @ - 1]
      /\ UNCHANGED <<counter, global, gchunks, current, alive, stack, local, chunks, filed, corrupt, frames>>
  BY DEF HExitSkipped, ExitSkipped, Running
<1>2. /\ t \in Thread /\ HTypeOK /\ TypeOK
      /\ depth \in [Thread -> 0..MaxDepth] /\ skip \in [Thread -> Nat]
  BY <1>1 DEF IInv, HTypeOK, TypeOK
<1>3. n \in Nat /\ n \in 0..MaxDepth /\ skip[t] \in Nat /\ MaxDepth \in Nat /\ Len(frames[t]) \in Nat
  BY <1>2, StateTypes, CountAssumption
<1>4. /\ depth'[t] = n - 1 /\ skip'[t] = IF stack[t][n].fn \in Skipped THEN skip[t] - 1 ELSE skip[t]
      /\ \A u \in Thread : u # t => depth'[u] = depth[u] /\ skip'[u] = skip[u]
  BY <1>1, <1>2
<1>5. HTypeOK'
  <2>1. depth' \in [Thread -> 0..MaxDepth]
    BY <1>1, <1>2, <1>3
  <2>2. skip' \in [Thread -> Nat]
    BY <1>1, <1>2, <1>3
  <2> QED
    BY <1>1, <1>2, <2>1, <2>2 DEF HTypeOK, TypeOK
<1>6. ASSUME NEW u \in Thread
      PROVE  SkipInv(stack[u], depth'[u], skip'[u], Len(frames[u]))
  <2>1. SkipInv(stack[u], depth[u], skip[u], Len(frames[u]))
    BY DEF IInv
  <2>2. CASE u = t
    <3>1. SkipInv(stack[t], n - 1, IF stack[t][n].fn \in Skipped THEN skip[t] - 1 ELSE skip[t],
                  Len(frames[t]))
      BY <1>1, <1>3, <2>1, <2>2, SkipPopped
    <3> QED
      BY <1>4, <2>2, <3>1
  <2> QED
    BY <1>4, <2>1, <2>2
<1>7. IdsDistinct' /\ TimesBounded' /\ UnallocatedUntouched'
  BY <1>1 DEF IInv, IdsDistinct, TimesBounded, UnallocatedUntouched, Live
<1>8. (\A u \in Thread : ThreadInv(stack[u], local[u], global, frames[u], counter))'
  BY <1>1 DEF IInv
<1> QED
  BY <1>1, <1>5, <1>6, <1>7, <1>8 DEF IInv

\* function_enter of a routine that counts.
LEMMA StepEnter ==
  ASSUME IInv, NEW f \in Routine, HEnter(f)
  PROVE  IInv'
<1> DEFINE t   == current
           n   == Len(frames[t]) + 1
           act == [fn |-> f, aid |-> Ticked, input |-> 0, dynamic |-> 0]
           stn == [TickedStack[t] EXCEPT ![n] = act]
           frn == Append(frames[t], Abstract!NewFrame)
<1>1. /\ t # NoThread /\ depth[t] < MaxDepth /\ f \notin Skipped /\ skip[t] = 0 /\ CanTick
      /\ counter' = Ticked
      /\ stack' = [TickedStack EXCEPT ![t] = [TickedStack[t] EXCEPT ![depth[t] + 1] = act]]
      /\ global' = TickedGlobal /\ local' = TickedLocal
      /\ depth' = [depth EXCEPT ![t] = @ + 1]
      /\ frames' = [frames EXCEPT ![t] = frn]
      /\ UNCHANGED <<gchunks, current, alive, skip, chunks, filed, corrupt>>
  BY DEF HEnter, Enter, Running, Abstract!Called
<1>2. /\ t \in Thread /\ HTypeOK /\ TypeOK
      /\ depth \in [Thread -> 0..MaxDepth]
      /\ frames \in [Thread -> Seq(AFrame)]
  BY <1>1 DEF IInv, HTypeOK, TypeOK, AFrame
<1>3. /\ depth[t] \in Nat /\ depth[t] = Len(frames[t]) /\ n \in Slot /\ n \in 0..MaxDepth
      /\ Len(frames[t]) \in Nat /\ Len(frames[t]) < MaxDepth
      /\ frames[t] \in Seq(AFrame)
      /\ \A d \in 1..Len(frames[t]) : d \in Slot /\ d # n /\ d \in Live(t)
  <2>1. /\ depth[t] \in Nat /\ Len(frames[t]) \in Nat /\ MaxDepth \in Nat /\ frames[t] \in Seq(AFrame)
    BY <1>2, StateTypes, CountAssumption
  <2>3. Len(frames[t]) = depth[t]
    BY <1>1, <1>2, AllLive
  <2> QED
    BY <1>1, <2>1, <2>3 DEF Slot, Live
<1>4. /\ Ticked \in Time /\ Ticked \in Nat /\ Ticked > 0 /\ Ticked \in 1..(MaxCount - 1)
      /\ TickedStack \in [Thread -> [Slot -> Activation]]
      /\ TickedGlobal \in [Cell -> Time] /\ TickedLocal \in [Thread -> [Cell -> Time]]
      /\ \A c \in Cell : TickedGlobal[c] < Ticked
  BY <1>1, TickedState
<1>5. ASSUME NEW u \in Thread
      PROVE  /\ ThreadInv(TickedStack[u], TickedLocal[u], TickedGlobal, frames[u], Ticked)
             /\ \A d \in Slot : TickedStack[u][d].fn = stack[u][d].fn
             /\ \A d \in Live(u) : TickedStack[u][d].aid < Ticked
             /\ \A c \in Cell : TickedLocal[u][c] < Ticked
  BY <1>1, TickedState
<1>6. act \in Activation /\ act.fn = f /\ act.aid = Ticked
  BY <1>4 DEF Activation
<1>7. ThreadInv(stn, TickedLocal[t], TickedGlobal, frn, Ticked)
  <2>1. \A d \in 1..Len(frames[t]) : TickedStack[t][d].aid < Ticked
    BY <1>2, <1>5 DEF Live
  <2> QED
    BY <1>2, <1>3, <1>4, <1>5, <2>1, ThreadCalls
<1>8. /\ frn \in Seq(AFrame) /\ Len(frn) = n
  <2>1. Abstract!NewFrame \in AFrame
    BY DEF AFrame, Abstract!Frame, Abstract!NewFrame
  <2> QED
    BY <1>3, <2>1
<1> HIDE DEF act
<1>9. /\ stn \in [Slot -> Activation] /\ stn[n] = act
      /\ \A d \in Slot : d # n => stn[d] = TickedStack[t][d]
  BY <1>2, <1>3, <1>4, <1>6
<1> HIDE DEF frn, n
<1>10. /\ stack' = [TickedStack EXCEPT ![t] = stn] /\ depth' = [depth EXCEPT ![t] = n]
  BY <1>1, <1>3 DEF n
<1> HIDE DEF stn
<1>11. /\ stack' \in [Thread -> [Slot -> Activation]] /\ stack'[t] = stn
       /\ depth' \in [Thread -> 0..MaxDepth] /\ depth'[t] = n
       /\ frames' \in [Thread -> Seq(AFrame)] /\ frames'[t] = frn
       /\ \A u \in Thread : u # t => /\ stack'[u] = TickedStack[u] /\ depth'[u] = depth[u]
                                     /\ frames'[u] = frames[u]
  BY <1>1, <1>2, <1>3, <1>4, <1>8, <1>9, <1>10
<1>12. HTypeOK'
  BY <1>1, <1>2, <1>4, <1>11 DEF HTypeOK, TypeOK, AFrame
<1>13. ASSUME NEW u \in Thread
       PROVE  ThreadInv(stack'[u], TickedLocal[u], TickedGlobal, frames'[u], Ticked)
  BY <1>5, <1>7, <1>11
<1>14. ASSUME NEW u \in Thread
       PROVE  SkipInv(stack'[u], depth'[u], skip[u], Len(frames'[u]))
  <2>1. SkipInv(stack[u], depth[u], skip[u], Len(frames[u]))
    BY DEF IInv
  <2>2. CASE u = t
    <3>1. \A d \in 1..n : stn[d].fn \notin Skipped
      <4>1. \A d \in 1..n : d = n \/ d \in 1..Len(frames[t])
        BY <1>3 DEF n
      <4>2. stn[n].fn \notin Skipped
        BY <1>1, <1>6, <1>9
      <4>3. \A d \in 1..Len(frames[t]) : stn[d].fn = stack[t][d].fn
        BY <1>2, <1>3, <1>5, <1>9
      <4> QED
        BY <2>1, <2>2, <4>1, <4>2, <4>3 DEF SkipInv
    <3>2. SkipInv(stn, n, 0, n)
      BY <1>3, <3>1, NothingSkipped
    <3> QED
      BY <1>1, <1>8, <1>11, <2>2, <3>2
  <2>3. CASE u # t
    <3>1. SkipInv(TickedStack[u], depth[u], skip[u], Len(frames[u]))
      <4>1. \A d \in 1..depth[u] : TickedStack[u][d].fn = stack[u][d].fn
        BY <1>5, StateTypes
      <4> QED
        BY <2>1, <4>1, StateTypes, SkipUnchanged
    <3> QED
      BY <1>11, <2>3, <3>1
  <2> QED
    BY <2>2, <2>3
<1>15. \A u \in Thread : \A d \in Live(u)' :
         \/ d \in Live(u) /\ stack'[u][d].aid = TickedStack[u][d].aid
         \/ u = t /\ stack'[u][d].aid = Ticked
  <2> SUFFICES ASSUME NEW u \in Thread, NEW d \in Live(u)'
               PROVE \/ d \in Live(u) /\ stack'[u][d].aid = TickedStack[u][d].aid
                     \/ u = t /\ stack'[u][d].aid = Ticked
    OBVIOUS
  <2>1. CASE u # t
    BY <1>11, <2>1 DEF Live
  <2>2. CASE u = t
    <3>1. d \in 1..n
      BY <1>8, <1>11, <2>2 DEF Live
    <3>2. d = n \/ d \in 1..Len(frames[t])
      BY <1>3, <3>1 DEF n
    <3>3. CASE d = n
      BY <1>6, <1>9, <1>11, <2>2, <3>3
    <3>4. CASE d \in 1..Len(frames[t])
      BY <1>3, <1>9, <1>11, <2>2, <3>4
    <3> QED
      BY <3>2, <3>3, <3>4
  <2> QED
    BY <2>1, <2>2
<1>16. IdsDistinct'
  <2> SUFFICES ASSUME NEW u \in Thread, NEW v \in Thread, u # v,
                      NEW d \in Live(u)', NEW e \in Live(v)'
               PROVE  stack'[u][d].aid # stack'[v][e].aid
    BY DEF IdsDistinct
  <2>1. /\ d \in Live(u) => TickedStack[u][d].aid < Ticked
        /\ e \in Live(v) => TickedStack[v][e].aid < Ticked
        /\ d \in Live(u) /\ e \in Live(v) => TickedStack[u][d].aid # TickedStack[v][e].aid
    BY <1>1, TickedState
  <2>2. ~ (Ticked < Ticked)
    BY <1>4
  <2> QED
    BY <1>15, <2>1, <2>2
<1>17. TimesBounded'
  BY <1>1, <1>4, <1>5 DEF TimesBounded, Time
<1>18. UnallocatedUntouched'
  BY <1>1, TickedState DEF UnallocatedUntouched
<1> QED
  BY <1>1, <1>12, <1>13, <1>14, <1>16, <1>17, <1>18 DEF IInv

\* function_exit of a routine that counts.
LEMMA StepExit ==
  ASSUME IInv, HExit
  PROVE  /\ IInv'
         /\ filed' = <<frames[current][Len(frames[current])].size>>
         /\ current \in Thread /\ Len(frames[current]) > 0
<1> DEFINE t   == current
           n   == Len(frames[t])
           m   == n - 1
           inp == stack[t][m].input + stack[t][n].input
           dyn == stack[t][m].dynamic + stack[t][n].dynamic
           act == [stack[t][m] EXCEPT !.input = inp, !.dynamic = dyn]
           stn == IF n > 1 THEN [stack[t] EXCEPT ![m] = act] ELSE stack[t]
           frn == SubSeq(frames[t], 1, m)
<1>1. /\ t # NoThread /\ depth[t] > 0 /\ skip[t] = 0
      /\ depth' = [depth EXCEPT ![t] = depth[t] - 1]
      /\ frames' = [frames EXCEPT ![t] = frn]
      /\ UNCHANGED <<counter, global, gchunks, current, alive, skip, local, chunks, corrupt>>
  BY DEF HExit, Exit, Running, Abstract!Returned
<1>2. /\ t \in Thread /\ HTypeOK /\ TypeOK
      /\ stack \in [Thread -> [Slot -> Activation]] /\ depth \in [Thread -> 0..MaxDepth]
      /\ frames \in [Thread -> Seq(AFrame)]
  BY <1>1 DEF IInv, HTypeOK, TypeOK, AFrame
<1>3. depth[t] = n /\ n \in Nat /\ n <= MaxDepth /\ MaxDepth \in Nat /\ frames[t] \in Seq(AFrame)
  <2>1. depth[t] \in Nat /\ n \in Nat /\ MaxDepth \in Nat /\ frames[t] \in Seq(AFrame) /\ n <= depth[t]
        /\ depth[t] <= MaxDepth
    BY <1>2, StateTypes, CountAssumption
  <2>2. SkipInv(stack[t], depth[t], skip[t], n)
    BY <1>2 DEF IInv
  <2> HIDE DEF n
  <2> QED
    BY <1>1, <2>1, <2>2, SkipDecides
<1>4. /\ filed' = <<stack[t][n].input>>
      /\ stack' = IF n > 1 THEN [stack EXCEPT ![t][m].input = @ + stack[t][n].input,
                                              ![t][m].dynamic = @ + stack[t][n].dynamic]
                           ELSE stack
  BY <1>3 DEF HExit, Exit
<1> HIDE DEF n
<1>5. /\ n > 0 /\ m \in Nat /\ m \in 0..MaxDepth /\ n \in Slot
      /\ n > 1 => m \in Slot /\ m \in Nat
      /\ ~ (n > 1) => m = 0
      /\ \A d \in 1..m : d \in Slot /\ d \in 1..n /\ n > 1
  BY <1>1, <1>3 DEF Slot
<1>6. /\ stack[t] \in [Slot -> Activation] /\ stack[t][n].input \in Int
      /\ n > 1 => /\ stack[t][m] \in Activation
                  /\ inp \in Int /\ dyn \in Nat
  BY <1>2, <1>5 DEF Activation
<1> HIDE DEF m
<1>7. stack' = [stack EXCEPT ![t] = stn]
  <2>1. CASE n > 1
    BY <1>2, <1>4, <1>5, <2>1
  <2>2. CASE ~ (n > 1)
    BY <1>2, <1>4, <2>2
  <2> QED
    BY <2>1, <2>2
<1> HIDE DEF inp, dyn
<1>8. n > 1 => /\ act \in Activation /\ act.fn = stack[t][m].fn /\ act.aid = stack[t][m].aid
               /\ act.input = inp /\ act.dynamic = dyn
  <2> DEFINE r == stack[t][m]
  <2>1. n > 1 => r \in Activation
    BY <1>6
  <2> HIDE DEF r
  <2> QED
    BY <2>1, <1>6 DEF Activation
<1> HIDE DEF act
<1>9. /\ stn \in [Slot -> Activation]
      /\ n > 1 => stn[m] = act
      /\ \A d \in Slot : d # m \/ ~ (n > 1) => stn[d] = stack[t][d]
      /\ \A d \in Slot : stn[d].fn = stack[t][d].fn /\ stn[d].aid = stack[t][d].aid
  <2>1. CASE n > 1
    <3>1. stn = [stack[t] EXCEPT ![m] = act] /\ m \in Slot /\ act \in Activation
      BY <1>5, <1>8, <2>1
    <3> QED
      BY <3>1, <1>6, <1>8, <2>1
  <2>2. CASE ~ (n > 1)
    BY <1>6, <2>2
  <2> QED
    BY <2>1, <2>2
<1> HIDE DEF stn
<1>10. \A d \in 1..m :
         /\ stn[d].aid = stack[t][d].aid
         /\ stn[d].input = stack[t][d].input + IF d = m THEN stack[t][n].input ELSE 0
         /\ stn[d].dynamic = stack[t][d].dynamic + IF d = m THEN stack[t][n].dynamic ELSE 0
  <2> SUFFICES ASSUME NEW d \in 1..m
               PROVE /\ stn[d].aid = stack[t][d].aid
                     /\ stn[d].input = stack[t][d].input + IF d = m THEN stack[t][n].input ELSE 0
                     /\ stn[d].dynamic = stack[t][d].dynamic + IF d = m THEN stack[t][n].dynamic ELSE 0
    OBVIOUS
  <2>1. d \in Slot /\ n > 1 /\ stack[t][d] \in Activation
    BY <1>2, <1>5
  <2>2. stack[t][d].input \in Int /\ stack[t][d].dynamic \in Nat
    BY <2>1 DEF Activation
  <2>3. CASE d = m
    BY <2>1, <2>3, <1>8, <1>9 DEF inp, dyn
  <2>4. CASE d # m
    BY <2>1, <2>2, <2>4, <1>9
  <2> QED
    BY <2>3, <2>4
<1>11. /\ ThreadInv(stn, local[t], global, frn, counter)
       /\ Len(frn) = m /\ stack[t][n].input = frames[t][n].size
  <2>1. ThreadInv(stack[t], local[t], global, frames[t], counter)
    BY <1>2 DEF IInv
  <2>2. \A d \in 1..(Len(frames[t]) - 1) :
         /\ stn[d].aid = stack[t][d].aid
         /\ stn[d].input = stack[t][d].input
              + IF d = Len(frames[t]) - 1 THEN stack[t][Len(frames[t])].input ELSE 0
         /\ stn[d].dynamic = stack[t][d].dynamic
              + IF d = Len(frames[t]) - 1 THEN stack[t][Len(frames[t])].dynamic ELSE 0
    BY <1>10 DEF m, n
  <2>3. Len(frames[t]) > 0
    BY <1>5 DEF n
  <2>4. /\ ThreadInv(stn, local[t], global, SubSeq(frames[t], 1, Len(frames[t]) - 1), counter)
        /\ Len(SubSeq(frames[t], 1, Len(frames[t]) - 1)) = Len(frames[t]) - 1
        /\ stack[t][Len(frames[t])].input = frames[t][Len(frames[t])].size
    BY <1>9, <2>1, <2>2, <2>3, ThreadReturns
  <2> QED
    BY <2>4 DEF n, m
<1>12. frn \in Seq(AFrame)
  BY <1>11 DEF ThreadInv, ThreadTypes
<1> HIDE DEF frn
<1>13. /\ stack' \in [Thread -> [Slot -> Activation]] /\ stack'[t] = stn
       /\ depth' \in [Thread -> 0..MaxDepth] /\ depth'[t] = m
       /\ frames' \in [Thread -> Seq(AFrame)] /\ frames'[t] = frn
       /\ \A u \in Thread : u # t => /\ stack'[u] = stack[u] /\ depth'[u] = depth[u]
                                     /\ frames'[u] = frames[u]
  <2>1. depth[t] - 1 = m
    BY <1>3 DEF m
  <2> QED
    BY <1>1, <1>2, <1>5, <1>7, <1>9, <1>12, <2>1
<1>14. HTypeOK'
  <2>1. filed' \in Seq(Int)
    BY <1>4, <1>6
  <2> QED
    BY <1>1, <1>2, <1>13, <2>1 DEF HTypeOK, TypeOK, AFrame
<1>15. ASSUME NEW u \in Thread
       PROVE  ThreadInv(stack'[u], local[u], global, frames'[u], counter)
  <2>1. ThreadInv(stack[u], local[u], global, frames[u], counter)
    BY DEF IInv
  <2> QED
    BY <1>11, <1>13, <2>1
<1>16. ASSUME NEW u \in Thread
       PROVE  SkipInv(stack'[u], depth'[u], skip[u], Len(frames'[u]))
  <2>1. SkipInv(stack[u], depth[u], skip[u], Len(frames[u]))
    BY DEF IInv
  <2>2. CASE u = t
    <3>1. \A d \in 1..m : stn[d].fn \notin Skipped
      <4>1. \A d \in 1..n : stack[t][d].fn \notin Skipped
        BY <2>1, <2>2 DEF SkipInv, n
      <4> QED
        BY <1>5, <1>9, <4>1
    <3>2. SkipInv(stn, m, 0, m)
      BY <1>5, <3>1, NothingSkipped DEF m
    <3> QED
      BY <1>1, <1>11, <1>13, <2>2, <3>2
  <2> QED
    BY <1>13, <2>1, <2>2
<1>17. \A u \in Thread : \A d \in Live(u)' : d \in Live(u) /\ stack'[u][d].aid = stack[u][d].aid
  <2>1. \A d \in 1..Len(frames'[t]) : d \in 1..Len(frames[t]) /\ stack'[t][d].aid = stack[t][d].aid
    BY <1>5, <1>10, <1>11, <1>13 DEF n
  <2> QED
    BY <1>13, <2>1 DEF Live
<1>18. IdsDistinct'
  BY <1>17 DEF IInv, IdsDistinct
<1>19. TimesBounded' /\ UnallocatedUntouched'
  BY <1>1 DEF IInv, TimesBounded, UnallocatedUntouched
<1>20. IInv'
  BY <1>1, <1>14, <1>15, <1>16, <1>18, <1>19 DEF IInv
<1> QED
  BY <1>2, <1>4, <1>5, <1>11, <1>20 DEF n

-----------------------------------------------------------------------------
(* Unwinding.                                                              *)

\* What activation d of n has to add: the size of the one it called.
Above(f, n, d) == IF d < n THEN f[d + 1] ELSE 0

\* The partial sizes inp of n activations, and the sums of a recursion from the top down.
Partials(inp, size, n) == \A d \in 1..n : inp[d] = size[d] - Above(size, n, d)
Sums(g, inp, n) == \A d \in 1..n : g[d] = inp[d] + Above(g, n, d)

\* Sums from the top of a stack of partial sizes down: the sizes themselves solve the
\* recursion of unwind_stack ...
LEMMA SumsFromTop ==
  ASSUME NEW n \in Nat, NEW inp, NEW size \in [1..n -> Int],
         Partials(inp, size, n)
  PROVE  Sums(size, inp, n)
<1>1. ASSUME NEW d \in 1..n
      PROVE  size[d] = inp[d] + Above(size, n, d)
  <2>1. CASE d < n
    BY <2>1 DEF Above, Partials
  <2>2. CASE ~ (d < n)
    BY <2>2 DEF Above, Partials
  <2> QED
    BY <2>1, <2>2
<1> QED
  BY <1>1 DEF Sums

\* ... and nothing else does.
LEMMA SumsAreUnique ==
  ASSUME NEW n \in Nat, NEW inp, NEW size \in [1..n -> Int],
         Partials(inp, size, n),
         NEW g, Sums(g, inp, n)
  PROVE  \A d \in 1..n : g[d] = size[d]
<1>1. /\ \A d \in 1..n : size[d] = inp[d] + Above(size, n, d)
      /\ \A d \in 1..n : g[d] = inp[d] + Above(g, n, d)
  BY SumsFromTop DEF Sums
<1> DEFINE Wrong(k) == k \in 0..(n - 1) /\ g[n - k] # size[n - k]
<1>2. ASSUME NEW k \in Nat, Wrong(k), \A j \in Nat : j < k => ~ Wrong(j) PROVE FALSE
  <2> DEFINE d == n - k
  <2>1. d \in 1..n /\ g[d] # size[d]
    BY <1>2
  <2>2. CASE d < n
    <3>1. k - 1 \in Nat /\ k - 1 < k /\ k - 1 \in 0..(n - 1) /\ n - (k - 1) = d + 1
      BY <1>2, <2>1, <2>2
    <3>2. g[d + 1] = size[d + 1]
      BY <1>2, <3>1
    <3> QED
      BY <1>1, <2>1, <2>2, <3>2 DEF Above
  <2>3. CASE ~ (d < n)
    BY <1>1, <2>1, <2>3 DEF Above
  <2> QED
    BY <2>2, <2>3
<1>3. \A k \in Nat : ~ Wrong(k)
  <2> DEFINE Bad == {k \in Nat : Wrong(k)}
  <2>1. SUFFICES ASSUME Bad # {} PROVE FALSE
    OBVIOUS
  <2>2. Bad \in SUBSET Nat
    OBVIOUS
  <2> HIDE DEF Wrong
  <2>3. PICK k \in Bad : \A j \in Bad : k <= j
    BY <2>1, <2>2, LeastNatural
  <2> QED
    BY <1>2, <2>3
<1>4. \A d \in 1..n : g[d] = size[d]
  <2> SUFFICES ASSUME NEW d \in 1..n PROVE g[d] = size[d]
    OBVIOUS
  <2>1. n - d \in Nat /\ n - d \in 0..(n - 1) /\ n - (n - d) = d
    OBVIOUS
  <2> QED
    BY <1>3, <2>1
<1> QED
  BY <1>4

\* unwind_stack files the sizes of the live activations, innermost first.
LEMMA UnwindingFiles ==
  ASSUME IInv, NEW t \in Thread
  PROVE  /\ UnwoundInputs(t) = Abstract!Sizes(frames, t)
         /\ UnwoundInputs(t) \in Seq(Int)
<1> DEFINE n    == LiveDepth(t)
           size == [d \in 1..n |-> frames[t][d].size]
           inp  == [d \in 1..n |-> stack[t][d].input]
           total[d \in 1..n] == stack[t][d].input + IF d < n THEN total[d + 1] ELSE 0
<1>1. n = Len(frames[t]) /\ n \in Nat
  <2>1. SkipInv(stack[t], depth[t], skip[t], Len(frames[t]))
    BY DEF IInv
  <2> QED
    BY <2>1, StateTypes, LiveDepthIs
<1>2. ThreadInv(stack[t], local[t], global, frames[t], counter)
  BY DEF IInv
<1>3. \A d \in 1..n : /\ frames[t][d].size \in Nat
                      /\ stack[t][d].input = frames[t][d].size
                           - IF d < n THEN frames[t][d + 1].size ELSE 0
  BY <1>1, <1>2, ThreadFacts DEF ThreadInv
<1>4. UnwoundInputs(t) = [k \in 1..n |-> total[n + 1 - k]]
  BY DEF UnwoundInputs
<1> HIDE DEF n
<1>5. /\ size \in [1..n -> Int] /\ \A d \in 1..n : inp[d] = stack[t][d].input
      /\ Partials(inp, size, n)
  <2>1. \A d \in 1..n : d < n => d + 1 \in 1..n
    BY <1>1
  <2> QED
    BY <1>3, <2>1 DEF Above, Partials
<1> HIDE DEF size, inp, total
<1>6. size = [d \in 1..n |-> stack[t][d].input + IF d < n THEN size[d + 1] ELSE 0]
  <2>1. Sums(size, inp, n)
    BY <1>1, <1>5, SumsFromTop
  <2> QED
    BY <2>1, <1>5 DEF Above, Sums
<1>7. total = [d \in 1..n |-> stack[t][d].input + IF d < n THEN total[d + 1] ELSE 0]
  <2>1. total = CHOOSE g : g = [d \in 1..n |-> stack[t][d].input + IF d < n THEN g[d + 1] ELSE 0]
    BY DEF total
  <2> QED
    BY <2>1, <1>6, Zenon
<1>8. total = size
  <2>1. \A d \in 1..n : total[d] = stack[t][d].input + Above(total, n, d)
    BY <1>7, Zenon DEF Above
  <2>2. Sums(total, inp, n)
    BY <2>1, <1>5 DEF Sums
  <2>3. \A d \in 1..n : total[d] = size[d]
    BY <1>1, <1>5, <2>2, SumsAreUnique
  <2>4. total = [d \in 1..n |-> total[d]]
    BY <1>7, Zenon
  <2> QED
    BY <1>5, <2>3, <2>4
<1>9. UnwoundInputs(t) = [k \in 1..n |-> frames[t][n + 1 - k].size]
  <2>1. \A k \in 1..n : n + 1 - k \in 1..n
    BY <1>1
  <2> QED
    BY <1>4, <1>8, <2>1 DEF size
<1>10. UnwoundInputs(t) = Abstract!Sizes(frames, t)
  BY <1>1, <1>9, Zenon DEF Abstract!Sizes
<1>11. UnwoundInputs(t) \in Seq(Int)
  <2>1. \A k \in 1..n : n + 1 - k \in 1..n
    BY <1>1
  <2>2. UnwoundInputs(t) \in [1..n -> Int]
    BY <1>3, <1>9, <2>1
  <2> QED
    BY <1>1, <2>2, SeqDef
<1> QED
  BY <1>10, <1>11

\* A thread that has not called anything.
LEMMA EmptyThread ==
  /\ EmptyStack \in [Slot -> Activation] /\ Untouched \in [Cell -> Time]
  /\ SkipInv(EmptyStack, 0, 0, 0)
  /\ \A glo \in [Cell -> Nat], now \in Nat : ThreadInv(EmptyStack, Untouched, glo, <<>>, now)
<1>1. 0 \in Time
  <2>1. Cardinality(Thread) \in Nat /\ MaxDepth \in Nat /\ MaxCount \in Nat
    BY SetsAssumption, CountAssumption, FS_CardinalityType
  <2>2. Cardinality(Thread) * MaxDepth \in Nat
    BY <2>1
  <2> DEFINE room == Cardinality(Thread) * MaxDepth
  <2>3. room \in Nat /\ 3 * (room + 2) < MaxCount /\ MaxCount \in Nat
    BY <2>1, <2>2, CountAssumption
  <2> HIDE DEF room
  <2> QED
    BY <2>3 DEF Time
<1>2. EmptyStack \in [Slot -> Activation]
  <2>1. (CHOOSE f \in Routine : TRUE) \in Routine
    BY RoutinesAssumption, Zenon
  <2> DEFINE f0 == CHOOSE f \in Routine : TRUE
  <2>2. EmptySlot = [fn |-> f0, aid |-> 0, input |-> 0, dynamic |-> 0]
    BY DEF EmptySlot
  <2> HIDE DEF f0
  <2>3. EmptySlot \in Activation
    BY <1>1, <2>1, <2>2 DEF Activation, f0
  <2> QED
    BY <2>3 DEF EmptyStack
<1>3. Untouched \in [Cell -> Time] /\ Untouched \in [Cell -> Nat]
  BY <1>1 DEF Untouched
<1>4. SkipInv(EmptyStack, 0, 0, 0)
  BY NothingSkipped
<1>5. ASSUME NEW glo \in [Cell -> Nat], NEW now \in Nat
      PROVE  ThreadInv(EmptyStack, Untouched, glo, <<>>, now)
  <2>1. <<>> \in Seq(AFrame) /\ Len(<<>>) = 0 /\ 0 <= MaxDepth
    BY CountAssumption
  <2>2. ThreadTypes(EmptyStack, Untouched, glo, <<>>, now)
    BY <1>2, <1>3, <2>1 DEF ThreadTypes
  <2>3. \A d \in 1..0 : FALSE
    OBVIOUS
  <2>4. DynamicSums(EmptyStack, <<>>)
    <3>1. [d \in 1..0 |-> 0] \in [1..0 -> Nat]
      BY <2>3
    <3> QED
      BY <2>1, <2>3, <3>1 DEF DynamicSums
  <2> QED
    BY <2>1, <2>2, <2>3, <2>4 DEF ThreadInv
<1> QED
  BY <1>2, <1>3, <1>4, <1>5

\* thread_exit.
LEMMA StepThreadExit ==
  ASSUME IInv, NEW t \in Thread, HThreadExit(t)
  PROVE  IInv' /\ filed' = Abstract!Sizes(frames, t)
<1>1. /\ filed' = UnwoundInputs(t)
      /\ alive' = alive \ {t}
      /\ depth' = [depth EXCEPT ![t] = 0]
      /\ stack' = [stack EXCEPT ![t] = EmptyStack]
      /\ skip' = [skip EXCEPT ![t] = 0]
      /\ local' = [local EXCEPT ![t] = Untouched]
      /\ chunks' = [chunks EXCEPT ![t] = {}]
      /\ current' = NoThread
      /\ frames' = [frames EXCEPT ![t] = <<>>]
      /\ UNCHANGED <<counter, global, gchunks, corrupt>>
  BY DEF HThreadExit, ThreadExit, Abstract!Ended
<1>2. /\ HTypeOK /\ TypeOK
      /\ stack \in [Thread -> [Slot -> Activation]] /\ depth \in [Thread -> 0..MaxDepth]
      /\ skip \in [Thread -> Nat] /\ local \in [Thread -> [Cell -> Time]]
      /\ chunks \in [Thread -> SUBSET Cell] /\ global \in [Cell -> Time]
      /\ frames \in [Thread -> Seq(AFrame)] /\ counter \in Nat /\ 0 \in 0..MaxDepth
  BY CountAssumption, SMTT(30) DEF IInv, HTypeOK, TypeOK, AFrame
<1>3. /\ stack'[t] = EmptyStack /\ local'[t] = Untouched /\ frames'[t] = <<>> /\ depth'[t] = 0
      /\ skip'[t] = 0 /\ chunks'[t] = {} /\ Len(frames'[t]) = 0
      /\ \A u \in Thread : u # t => /\ stack'[u] = stack[u] /\ local'[u] = local[u]
                                    /\ frames'[u] = frames[u] /\ depth'[u] = depth[u]
                                    /\ skip'[u] = skip[u] /\ chunks'[u] = chunks[u]
  BY <1>1, <1>2
<1>4. HTypeOK'
  <2>1. stack' \in [Thread -> [Slot -> Activation]] /\ local' \in [Thread -> [Cell -> Time]]
    BY <1>1, <1>2, EmptyThread
  <2>2. frames' \in [Thread -> Seq(AFrame)]
    BY <1>1, <1>2
  <2>3. depth' \in [Thread -> 0..MaxDepth] /\ skip' \in [Thread -> Nat]
        /\ chunks' \in [Thread -> SUBSET Cell]
    BY <1>1, <1>2
  <2>4. filed' \in Seq(Int)
    BY <1>1, UnwindingFiles
  <2> QED
    BY <1>1, <1>2, <2>1, <2>2, <2>3, <2>4 DEF HTypeOK, TypeOK, AFrame
<1>5. ASSUME NEW u \in Thread
      PROVE  ThreadInv(stack'[u], local'[u], global, frames'[u], counter)
  <2>1. ThreadInv(stack[u], local[u], global, frames[u], counter)
    BY DEF IInv
  <2>2. ThreadInv(EmptyStack, Untouched, global, <<>>, counter)
    BY <1>2, EmptyThread DEF Time
  <2> QED
    BY <1>3, <2>1, <2>2
<1>6. ASSUME NEW u \in Thread
      PROVE  SkipInv(stack'[u], depth'[u], skip'[u], Len(frames'[u]))
  <2>1. SkipInv(stack[u], depth[u], skip[u], Len(frames[u]))
    BY DEF IInv
  <2> QED
    BY <1>3, <2>1, EmptyThread
<1>7. IdsDistinct'
  <2>1. \A u \in Thread : \A d \in Live(u)' : u # t /\ d \in Live(u)
    BY <1>3 DEF Live
  <2> QED
    BY <1>3, <2>1 DEF IInv, IdsDistinct
<1>8. TimesBounded'
  <2>1. \A u \in Thread, c \in Cell : local[u][c] <= counter /\ local[u][c] \in Nat
    BY <1>2 DEF IInv, TimesBounded, Time
  <2>2. \A c \in Cell : Untouched[c] <= counter
    BY <1>2 DEF Untouched
  <2>3. \A u \in Thread, c \in Cell : local'[u][c] <= counter
    BY <1>3, <2>1, <2>2
  <2> QED
    BY <1>1, <2>3 DEF IInv, TimesBounded
<1>9. UnallocatedUntouched'
  <2>1. \A c \in Cell : Untouched[c] = 0
    BY DEF Untouched
  <2> QED
    BY <1>1, <1>3, <2>1 DEF IInv, UnallocatedUntouched
<1>10. IInv'
  BY <1>1, <1>4, <1>5, <1>6, <1>7, <1>8, <1>9 DEF IInv
<1> QED
  BY <1>1, <1>10, UnwindingFiles

\* A load, a store and a modify leave these histories.
LEMMA TouchedFramesAre ==
  ASSUME NEW fr \in [Thread -> Seq(AFrame)], NEW t \in Thread, NEW cells \in SUBSET Cell
  PROVE  /\ Abstract!Touched(fr, t, cells, TRUE, FALSE)
              = [u \in Thread |-> IF u = t THEN AccessedFrames(fr[t], cells, TRUE) ELSE fr[u]]
         /\ Abstract!Touched(fr, t, cells, TRUE, TRUE)
              = [u \in Thread |-> IF u = t THEN AccessedFrames(fr[t], cells, TRUE)
                                           ELSE ForgetfulFrames(fr[u], cells)]
         /\ Abstract!Touched(fr, t, cells, FALSE, TRUE)
              = [u \in Thread |-> IF u = t THEN AccessedFrames(fr[t], cells, FALSE)
                                           ELSE ForgetfulFrames(fr[u], cells)]
<1>1. Abstract!Touched(fr, t, cells, TRUE, FALSE)
        = [u \in Thread |-> IF u = t THEN AccessedFrames(fr[t], cells, TRUE)
                            ELSE IF FALSE THEN ForgetfulFrames(fr[u], cells)
                            ELSE fr[u]]
  BY TouchedFrames
<1>2. Abstract!Touched(fr, t, cells, TRUE, TRUE)
        = [u \in Thread |-> IF u = t THEN AccessedFrames(fr[t], cells, TRUE)
                            ELSE IF TRUE THEN ForgetfulFrames(fr[u], cells)
                            ELSE fr[u]]
  BY TouchedFrames
<1>3. Abstract!Touched(fr, t, cells, FALSE, TRUE)
        = [u \in Thread |-> IF u = t THEN AccessedFrames(fr[t], cells, FALSE)
                            ELSE IF TRUE THEN ForgetfulFrames(fr[u], cells)
                            ELSE fr[u]]
  BY TouchedFrames
<1> QED
  BY <1>1, <1>2, <1>3

\* trace_access_drms.
LEMMA StepAccess ==
  ASSUME IInv, NEW type \in AccessType, NEW cells \in SUBSET Cell, HAccess(type, cells)
  PROVE  IInv' /\ current \in Thread
<1> DEFINE t    == current
           locn == Stamped(local[t], cells, counter)
           read == AccessedFrames(frames[t], cells, TRUE)
           not_read == AccessedFrames(frames[t], cells, FALSE)
<1>1. /\ t # NoThread /\ depth[t] > 0 /\ skip[t] = 0
      /\ local' = [local EXCEPT ![t] = locn]
      /\ chunks' = [chunks EXCEPT ![t] = @ \cup ChunksOf(cells)]
      /\ UNCHANGED <<counter, current, alive, depth, skip, filed, corrupt>>
  BY DEF HAccess, Access, Running, Counts
<1>2. /\ t \in Thread /\ HTypeOK /\ TypeOK
      /\ stack \in [Thread -> [Slot -> Activation]] /\ local \in [Thread -> [Cell -> Time]]
      /\ chunks \in [Thread -> SUBSET Cell] /\ global \in [Cell -> Time] /\ gchunks \in SUBSET Cell
      /\ frames \in [Thread -> Seq(AFrame)] /\ counter \in Nat /\ counter \in Time
  BY <1>1, CountAssumption, SMTT(30) DEF IInv, HTypeOK, TypeOK, AFrame, Time
<1>3. Len(frames[t]) = depth[t] /\ Len(frames[t]) > 0
  <2>2. depth[t] \in Nat /\ Len(frames[t]) \in Nat
    BY <1>2, StateTypes
  <2>3. skip[t] = 0 => Len(frames[t]) = depth[t]
    BY <1>2, AllLive
  <2> QED
    BY <1>1, <2>2, <2>3
<1>4. ASSUME NEW u \in Thread
      PROVE  /\ ThreadInv(stack[u], local[u], global, frames[u], counter)
             /\ SkipInv(stack[u], depth[u], skip[u], Len(frames[u]))
  BY DEF IInv
<1>5. /\ \A c \in Cell : global[c] <= counter
      /\ \A u \in Thread, c \in Cell : u # t => local[u][c] < counter
      /\ \A u \in Thread, c \in Cell : local[u][c] <= counter
  BY <1>1, <1>2 DEF IInv, TimesBounded, Time
\* What the access does to the stack and the history of the thread, and to the rest.
<1>6. \E stn :
        /\ stack' = [stack EXCEPT ![t] = stn]
        /\ \/ /\ stn = Charged(stack[t], Len(frames[t]), local[t], global, cells)
              /\ frames'[t] = read
           \/ stn = stack[t] /\ frames'[t] = not_read
        /\ \/ /\ global' = Stamped(global, cells, counter) /\ gchunks' = gchunks \cup ChunksOf(cells)
              /\ \A u \in Thread : u # t => frames'[u] = ForgetfulFrames(frames[u], cells)
           \/ /\ global' = global /\ gchunks' = gchunks
              /\ \A u \in Thread : u # t => frames'[u] = frames[u]
        /\ frames' = [u \in Thread |-> frames'[u]]
  <2> DEFINE stn == Charged(stack[t], depth[t], local[t], global, cells)
  <2>1. CASE type = "load"
    <3>1. /\ stack' = [stack EXCEPT ![t] = stn] /\ global' = global /\ gchunks' = gchunks
          /\ frames' = Abstract!Touched(frames, t, cells, TRUE, FALSE)
      BY <2>1 DEF HAccess, Access
    <3>2. frames' = [u \in Thread |-> IF u = t THEN read ELSE frames[u]]
      BY <1>2, <3>1, TouchedFramesAre
    <3> HIDE DEF stn, read, not_read
    <3>3. /\ frames'[t] = read /\ frames' = [u \in Thread |-> frames'[u]]
          /\ \A u \in Thread : u # t => frames'[u] = frames[u]
      BY <1>2, <3>2
    <3> QED
      BY <1>3, <3>1, <3>3 DEF stn
  <2>2. CASE type = "modify"
    <3>1. /\ stack' = [stack EXCEPT ![t] = stn] /\ global' = Stamped(global, cells, counter)
          /\ gchunks' = gchunks \cup ChunksOf(cells)
          /\ frames' = Abstract!Touched(frames, t, cells, TRUE, TRUE)
      BY <2>2 DEF HAccess, Access
    <3>2. frames' = [u \in Thread |-> IF u = t THEN read ELSE ForgetfulFrames(frames[u], cells)]
      BY <1>2, <3>1, TouchedFramesAre
    <3> HIDE DEF stn, read, not_read
    <3>3. /\ frames'[t] = read /\ frames' = [u \in Thread |-> frames'[u]]
          /\ \A u \in Thread : u # t => frames'[u] = ForgetfulFrames(frames[u], cells)
      BY <1>2, <3>2
    <3> QED
      BY <1>3, <3>1, <3>3 DEF stn
  <2>3. CASE type = "store"
    <3>1. /\ stack' = [stack EXCEPT ![t] = stack[t]] /\ global' = Stamped(global, cells, counter)
          /\ gchunks' = gchunks \cup ChunksOf(cells)
          /\ frames' = Abstract!Touched(frames, t, cells, FALSE, TRUE)
      BY <1>2, <2>3 DEF HAccess, Access
    <3>2. frames' = [u \in Thread |-> IF u = t THEN not_read ELSE ForgetfulFrames(frames[u], cells)]
      BY <1>2, <3>1, TouchedFramesAre
    <3> HIDE DEF read, not_read
    <3>3. /\ frames'[t] = not_read /\ frames' = [u \in Thread |-> frames'[u]]
          /\ \A u \in Thread : u # t => frames'[u] = ForgetfulFrames(frames[u], cells)
      BY <1>2, <3>2
    <3> QED
      BY <3>1, <3>3
  <2> QED
    BY <2>1, <2>2, <2>3 DEF AccessType
<1>7. PICK stn :
        /\ stack' = [stack EXCEPT ![t] = stn]
        /\ \/ /\ stn = Charged(stack[t], Len(frames[t]), local[t], global, cells)
              /\ frames'[t] = read
           \/ stn = stack[t] /\ frames'[t] = not_read
        /\ \/ /\ global' = Stamped(global, cells, counter) /\ gchunks' = gchunks \cup ChunksOf(cells)
              /\ \A u \in Thread : u # t => frames'[u] = ForgetfulFrames(frames[u], cells)
           \/ /\ global' = global /\ gchunks' = gchunks
              /\ \A u \in Thread : u # t => frames'[u] = frames[u]
        /\ frames' = [u \in Thread |-> frames'[u]]
  BY <1>6
<1>8. ThreadInv(stack[t], local[t], global, frames[t], counter)
  BY <1>2, <1>4
<1>9. /\ ThreadInv(stn, locn, global', frames'[t], counter)
      /\ stn \in [Slot -> Activation]
      /\ \A d \in Slot : stn[d].fn = stack[t][d].fn /\ stn[d].aid = stack[t][d].aid
      /\ frames'[t] \in Seq(AFrame) /\ Len(frames'[t]) = Len(frames[t])
  <2>1. /\ local[t] \in [Cell -> Nat] /\ Len(frames[t]) \in Slot /\ stack[t] \in [Slot -> Activation]
        /\ frames[t] \in Seq(AFrame)
    <3>1. /\ Len(frames[t]) \in Nat /\ Len(frames[t]) <= depth[t] /\ depth[t] \in 0..MaxDepth
          /\ MaxDepth \in Nat
      BY <1>2, StateTypes, CountAssumption
    <3> QED
      BY <1>2, <1>3, <3>1 DEF Slot, Time
  <2>2. ThreadInv(stn, locn, global, frames'[t], counter)
    <3>1. ThreadInv(Charged(stack[t], Len(frames[t]), local[t], global, cells), locn, global, read, counter)
      BY <1>3, <1>5, <1>8, ThreadLoads
    <3>2. ThreadInv(stack[t], locn, global, not_read, counter)
      BY <1>5, <1>8, ThreadStores
    <3> HIDE DEF read, not_read, locn
    <3> QED
      BY <1>7, <3>1, <3>2
  <2>3. ThreadInv(stn, locn, global', frames'[t], counter)
    <3>1. \A c \in cells : locn[c] = counter
      BY <1>2, <2>1, StampedType
    <3>2. ThreadInv(stn, locn, Stamped(global, cells, counter), frames'[t], counter)
      <4> HIDE DEF locn
      <4> QED
        BY <1>5, <2>2, <3>1, OwnWrite
    <3> QED
      BY <1>7, <2>2, <3>2
  <2>4. /\ stn \in [Slot -> Activation]
        /\ \A d \in Slot : stn[d].fn = stack[t][d].fn /\ stn[d].aid = stack[t][d].aid
    <3> DEFINE new == Charged(stack[t], Len(frames[t]), local[t], global, cells)
    <3>1. /\ new \in [Slot -> Activation]
          /\ \A d \in Slot : new[d].fn = stack[t][d].fn /\ new[d].aid = stack[t][d].aid
      BY <2>1, ChargedStack
    <3>2. stn = new \/ stn = stack[t]
      BY <1>7
    <3> HIDE DEF new
    <3> QED
      BY <2>1, <3>1, <3>2
  <2>5. frames'[t] \in Seq(AFrame) /\ Len(frames'[t]) = Len(frames[t])
    <3>1. /\ read \in Seq(AFrame) /\ Len(read) = Len(frames[t])
          /\ not_read \in Seq(AFrame) /\ Len(not_read) = Len(frames[t])
      BY <2>1, AccessedFramesAre
    <3> HIDE DEF read, not_read
    <3> QED
      BY <1>7, <3>1
  <2> QED
    BY <2>3, <2>4, <2>5
<1>10. ASSUME NEW u \in Thread, u # t
       PROVE  /\ ThreadInv(stack[u], local[u], global', frames'[u], counter)
              /\ frames'[u] \in Seq(AFrame) /\ Len(frames'[u]) = Len(frames[u])
  <2>1. \A c \in cells : local[u][c] < counter
    BY <1>5, <1>10
  <2>2. ThreadInv(stack[u], local[u], Stamped(global, cells, counter), ForgetfulFrames(frames[u], cells), counter)
    BY <1>4, <2>1, OthersWrite
  <2>3. ForgetfulFrames(frames[u], cells) \in Seq(AFrame)
        /\ Len(ForgetfulFrames(frames[u], cells)) = Len(frames[u])
    BY <1>2, ForgetfulFramesAre
  <2>4. frames[u] \in Seq(AFrame) /\ ThreadInv(stack[u], local[u], global, frames[u], counter)
    BY <1>2, <1>4
  <2> QED
    BY <1>7, <1>10, <2>2, <2>3, <2>4
<1>11. \A c \in Cell : /\ locn[c] = IF c \in cells THEN counter ELSE local[t][c]
                       /\ Stamped(global, cells, counter)[c] = IF c \in cells THEN counter ELSE global[c]
  BY DEF Stamped
<1>12. locn \in [Cell -> Time] /\ global' \in [Cell -> Time]
  <2>1. \A c \in Cell : locn[c] \in Time /\ Stamped(global, cells, counter)[c] \in Time
    BY <1>2, <1>11
  <2>2. /\ locn = [c \in Cell |-> locn[c]]
        /\ Stamped(global, cells, counter) = [c \in Cell |-> Stamped(global, cells, counter)[c]]
    BY DEF Stamped
  <2> HIDE DEF locn
  <2> QED
    BY <1>2, <1>7, <2>1, <2>2
<1> HIDE DEF locn, read, not_read
<1>13. /\ stack'[t] = stn /\ local'[t] = locn
       /\ chunks'[t] = chunks[t] \cup ChunksOf(cells)
       /\ \A u \in Thread : u # t => /\ stack'[u] = stack[u] /\ local'[u] = local[u]
                                     /\ chunks'[u] = chunks[u]
  BY <1>1, <1>2, <1>7
<1>14. \A u \in Thread : frames'[u] \in Seq(AFrame) /\ Len(frames'[u]) = Len(frames[u])
  BY <1>9, <1>10
<1>15. HTypeOK'
  <2>1. stack' \in [Thread -> [Slot -> Activation]] /\ local' \in [Thread -> [Cell -> Time]]
    BY <1>1, <1>2, <1>7, <1>9, <1>12
  <2>2. frames' \in [Thread -> Seq(AFrame)]
    BY <1>7, <1>14
  <2>3. ChunksOf(cells) \in SUBSET Cell
    BY ChunksHold
  <2>4. chunks' \in [Thread -> SUBSET Cell]
    BY <1>1, <1>2, <2>3
  <2>5. gchunks' \in SUBSET Cell
    BY <1>2, <1>7, <2>3
  <2> QED
    BY <1>1, <1>2, <1>12, <2>1, <2>2, <2>4, <2>5 DEF HTypeOK, TypeOK, AFrame
<1>16. ASSUME NEW u \in Thread
       PROVE  ThreadInv(stack'[u], local'[u], global', frames'[u], counter)
  <2>1. CASE u = t
    BY <1>9, <1>13, <2>1
  <2>2. CASE u # t
    BY <1>10, <1>13, <2>2
  <2> QED
    BY <2>1, <2>2
<1>17. ASSUME NEW u \in Thread
       PROVE  SkipInv(stack'[u], depth[u], skip[u], Len(frames'[u]))
  <2>1. \A d \in 1..depth[u] : stack'[u][d].fn = stack[u][d].fn
    BY <1>9, <1>13, StateTypes
  <2> QED
    BY <1>4, <1>14, <2>1, StateTypes, SkipUnchanged
<1>18. \A u \in Thread : \A d \in Live(u)' : d \in Live(u) /\ stack'[u][d].aid = stack[u][d].aid
  <2>1. \A u \in Thread : \A d \in Live(u)' : d \in Live(u) /\ d \in Slot
    BY <1>14, StateTypes DEF Live
  <2> QED
    BY <1>9, <1>13, <2>1
<1>19. IdsDistinct'
  BY <1>18 DEF IInv, IdsDistinct
<1>20. TimesBounded'
  <2>1. \A c \in Cell : global'[c] <= counter
    <3>1. global' = Stamped(global, cells, counter) \/ global' = global
      BY <1>7
    <3>2. \A c \in Cell : Stamped(global, cells, counter)[c] <= counter
      <4>1. counter <= counter
        BY <1>2
      <4> QED
        BY <4>1, <1>5, <1>11
    <3> QED
      BY <1>5, <3>1, <3>2
  <2>2. \A u \in Thread, c \in Cell : IF u = t THEN local'[u][c] <= counter
                                                ELSE local'[u][c] < counter
    <3> SUFFICES ASSUME NEW u \in Thread, NEW c \in Cell
                 PROVE  IF u = t THEN local'[u][c] <= counter ELSE local'[u][c] < counter
      OBVIOUS
    <3>1. CASE u = t
      <4>1. local'[u][c] = locn[c] /\ local[t][c] <= counter /\ counter <= counter
        BY <1>2, <1>5, <1>13, <3>1
      <4>2. locn[c] <= counter
        BY <1>11, <4>1
      <4> QED
        BY <3>1, <4>1, <4>2
    <3>2. CASE u # t
      BY <1>2, <1>5, <1>11, <1>13, <3>2
    <3> QED
      BY <3>1, <3>2
  <2>3. \A u \in Thread : current \in {u, NoThread} <=> u = t
    BY <1>1
  <2> QED
    BY <1>1, <2>1, <2>2, <2>3 DEF TimesBounded
<1>21. UnallocatedUntouched'
  <2>1. \A c \in Cell : /\ c \notin gchunks => global[c] = 0
                        /\ \A u \in Thread : c \notin chunks[u] => local[u][c] = 0
    BY DEF IInv, UnallocatedUntouched
  <2>2. cells \subseteq ChunksOf(cells)
    BY ChunksHold
  <2>3. \A c \in Cell : c \notin gchunks' => global'[c] = 0
    BY <1>7, <1>11, <2>1, <2>2
  <2>4. \A u \in Thread, c \in Cell : c \notin chunks'[u] => local'[u][c] = 0
    BY <1>11, <1>13, <2>1, <2>2
  <2> QED
    BY <2>3, <2>4 DEF UnallocatedUntouched
<1>22. IInv'
  BY <1>1, <1>15, <1>16, <1>17, <1>19, <1>20, <1>21 DEF IInv
<1> QED
  BY <1>2, <1>22

\* An access to no cell changes no history.
LEMMA NothingAccessed ==
  ASSUME NEW fr \in Seq(AFrame)
  PROVE  AccessedFrames(fr, {}, TRUE) = fr
<1> DEFINE none == {}
           new  == AccessedFrames(fr, none, TRUE)
<1>1. /\ new \in Seq(AFrame) /\ Len(new) = Len(fr)
      /\ \A d \in 1..Len(fr) : /\ new[d].known = fr[d].known \cup none
                               /\ new[d].size = fr[d].size + Gain(none, TRUE, fr[d].known)
  <2>1. none \in SUBSET Cell /\ TRUE \in BOOLEAN
    OBVIOUS
  <2> HIDE DEF none
  <2> QED
    BY <2>1, AccessedFramesAre
<1> HIDE DEF new
<1>2. ASSUME NEW d \in 1..Len(fr) PROVE new[d] = fr[d]
  <2>1. fr[d] \in AFrame /\ new[d] \in AFrame
    BY <1>1, LenProperties
  <2>2. Gain(none, TRUE, fr[d].known) = 0
    <3>1. none \ fr[d].known = {}
      OBVIOUS
    <3> QED
      BY <3>1, FS_EmptySet DEF Gain
  <2>3. fr[d].size \in Nat
    BY <2>1 DEF AFrame, Abstract!Frame
  <2>4. new[d].known = fr[d].known
    BY <1>1
  <2>5. new[d].size = fr[d].size
    <3>1. new[d].size = fr[d].size + Gain(none, TRUE, fr[d].known)
      BY <1>1
    <3> HIDE DEF none
    <3>2. new[d].size = fr[d].size + 0
      BY <2>2, <3>1
    <3> QED
      BY <2>3, <3>2
  <2> QED
    BY <2>1, <2>4, <2>5 DEF AFrame, Abstract!Frame
<1>3. DOMAIN new = 1..Len(fr) /\ DOMAIN fr = 1..Len(fr)
  BY <1>1, LenProperties
<1>4. new = [d \in 1..Len(fr) |-> new[d]] /\ fr = [d \in 1..Len(fr) |-> fr[d]]
  BY <1>1, <1>3
<1>5. new = fr
  BY <1>2, <1>4
<1> QED
  BY <1>5 DEF new

\* post_syscall of a call that writes memory of the process.
LEMMA StepSyscallStore ==
  ASSUME IInv, NEW t \in Thread, NEW cells \in SUBSET Cell, HSyscallStore(t, cells)
  PROVE  IInv'
<1> DEFINE written == Counted(t, cells)
           glon    == Stamped(TickedGlobal, written, Ticked)
<1>1. /\ CanTick /\ counter' = Ticked /\ stack' = TickedStack /\ local' = TickedLocal
      /\ current' = t /\ alive' = alive \cup {t}
      /\ UNCHANGED <<depth, skip, chunks, filed, corrupt>>
      /\ frames' = Abstract!Injected(frames, written)
      /\ IF Counts(t)
         THEN global' = Stamped(TickedGlobal, cells, Ticked) /\ gchunks' = gchunks \cup ChunksOf(cells)
         ELSE global' = TickedGlobal /\ UNCHANGED gchunks
  BY DEF HSyscallStore, SyscallStore
<1>2. /\ HTypeOK /\ TypeOK /\ frames \in [Thread -> Seq(AFrame)] /\ gchunks \in SUBSET Cell
      /\ written \in SUBSET Cell
  BY DEF IInv, HTypeOK, TypeOK, AFrame, Counted
<1>3. /\ Ticked \in Time /\ Ticked \in Nat /\ Ticked \in 1..(MaxCount - 1)
      /\ TickedStack \in [Thread -> [Slot -> Activation]]
      /\ TickedGlobal \in [Cell -> Time] /\ TickedLocal \in [Thread -> [Cell -> Time]]
      /\ \A c \in Cell : TickedGlobal[c] < Ticked
      /\ \A c \in Cell : c \notin gchunks => TickedGlobal[c] = 0
      /\ \A u \in Thread, c \in Cell : c \notin chunks[u] => TickedLocal[u][c] = 0
  BY <1>1, TickedState
<1>4. ASSUME NEW u \in Thread
      PROVE  /\ ThreadInv(TickedStack[u], TickedLocal[u], TickedGlobal, frames[u], Ticked)
             /\ \A d \in Slot : TickedStack[u][d].fn = stack[u][d].fn
             /\ \A c \in Cell : TickedLocal[u][c] < Ticked
  BY <1>1, TickedState
<1>5. /\ \A c \in Cell : glon[c] = IF c \in written THEN Ticked ELSE TickedGlobal[c]
      /\ glon = [c \in Cell |-> glon[c]]
  BY DEF Stamped
<1>6. global' = glon
  <2>1. CASE Counts(t)
    BY <1>1, <2>1 DEF Counted
  <2>2. CASE ~ Counts(t)
    <3>1. written = {} /\ global' = TickedGlobal
      BY <1>1, <2>2 DEF Counted
    <3>2. TickedGlobal = [c \in Cell |-> TickedGlobal[c]]
      BY <1>3
    <3> HIDE DEF glon, written
    <3> QED
      BY <1>5, <3>1, <3>2
  <2> QED
    BY <2>1, <2>2
<1>7. gchunks' \in SUBSET Cell /\ gchunks \subseteq gchunks' /\ written \subseteq gchunks'
  BY <1>1, <1>2, ChunksHold DEF Counted
<1>8. /\ frames' = [u \in Thread |-> frames'[u]]
      /\ \A u \in Thread : frames'[u] = ForgetfulFrames(frames[u], written)
  <2>1. frames' = [u \in Thread |-> ForgetfulFrames(frames[u], written)]
    BY <1>1, <1>2, InjectedFrames, Zenon
  <2> HIDE DEF written
  <2> QED
    BY <2>1
<1> HIDE DEF glon, written
<1>9. glon \in [Cell -> Time]
  <2>1. \A c \in Cell : glon[c] \in Time
    BY <1>3, <1>5
  <2> QED
    BY <1>5, <2>1
<1>10. \A u \in Thread : frames'[u] \in Seq(AFrame) /\ Len(frames'[u]) = Len(frames[u])
  BY <1>2, <1>8, ForgetfulFramesAre
<1>11. HTypeOK'
  <2>1. frames' \in [Thread -> Seq(AFrame)]
    BY <1>8, <1>10
  <2> QED
    BY <1>1, <1>2, <1>3, <1>6, <1>7, <1>9, <2>1 DEF HTypeOK, TypeOK, AFrame
<1>12. ASSUME NEW u \in Thread
       PROVE  ThreadInv(TickedStack[u], TickedLocal[u], glon, frames'[u], Ticked)
  <2>1. \A c \in written : TickedLocal[u][c] < Ticked
    BY <1>2, <1>4
  <2>2. ThreadInv(TickedStack[u], TickedLocal[u], Stamped(TickedGlobal, written, Ticked),
                  ForgetfulFrames(frames[u], written), Ticked)
    BY <1>2, <1>4, <2>1, OthersWrite
  <2> QED
    BY <1>8, <2>2 DEF glon
<1>13. ASSUME NEW u \in Thread
       PROVE  SkipInv(TickedStack[u], depth[u], skip[u], Len(frames'[u]))
  <2>1. SkipInv(stack[u], depth[u], skip[u], Len(frames[u]))
    BY DEF IInv
  <2>2. \A d \in 1..depth[u] : TickedStack[u][d].fn = stack[u][d].fn
    BY <1>4, StateTypes
  <2> QED
    BY <1>10, <2>1, <2>2, StateTypes, SkipUnchanged
<1>14. IdsDistinct'
  <2>1. \A u \in Thread : \A d \in Live(u)' : d \in Live(u)
    BY <1>10 DEF Live
  <2>2. \A u, v \in Thread : u # v =>
          \A d \in Live(u), e \in Live(v) : TickedStack[u][d].aid # TickedStack[v][e].aid
    BY <1>1, TickedState
  <2> QED
    BY <1>1, <2>1, <2>2 DEF IdsDistinct
<1>15. TimesBounded'
  <2>1. \A c \in Cell : glon[c] <= Ticked
    <3>1. Ticked <= Ticked
      BY <1>3
    <3>2. \A c \in Cell : TickedGlobal[c] <= Ticked
      BY <1>3 DEF Time
    <3> QED
      BY <1>5, <3>1, <3>2
  <2>2. \A u \in Thread, c \in Cell : TickedLocal[u][c] < Ticked /\ TickedLocal[u][c] <= Ticked
    BY <1>3, <1>4 DEF Time
  <2> QED
    BY <1>1, <1>6, <2>1, <2>2 DEF TimesBounded
<1>16. UnallocatedUntouched'
  BY <1>1, <1>3, <1>5, <1>6, <1>7 DEF UnallocatedUntouched
<1> QED
  BY <1>1, <1>6, <1>11, <1>12, <1>13, <1>14, <1>15, <1>16 DEF IInv

\* post_syscall of a call that reads memory of the process, on a thread switch nobody
\* announced.
LEMMA StepSyscallLoad ==
  ASSUME IInv, NEW t \in Thread, NEW cells \in SUBSET Cell, HSyscallLoad(t, cells)
  PROVE  IInv'
<1>1. /\ CanTick /\ counter' = Ticked /\ global' = TickedGlobal
      /\ current' = t /\ alive' = alive \cup {t}
      /\ UNCHANGED <<gchunks, depth, skip, filed, corrupt>>
      /\ frames' = Abstract!Touched(frames, t, Counted(t, cells), TRUE, FALSE)
  BY DEF HSyscallLoad, SyscallLoad
<1>2. /\ HTypeOK /\ TypeOK /\ frames \in [Thread -> Seq(AFrame)] /\ gchunks \in SUBSET Cell
      /\ chunks \in [Thread -> SUBSET Cell] /\ Counted(t, cells) \in SUBSET Cell
  BY DEF IInv, HTypeOK, TypeOK, AFrame, Counted
<1>3. /\ Ticked \in Time /\ Ticked \in Nat /\ Ticked \in 1..(MaxCount - 1)
      /\ TickedStack \in [Thread -> [Slot -> Activation]]
      /\ TickedGlobal \in [Cell -> Time] /\ TickedLocal \in [Thread -> [Cell -> Time]]
      /\ \A c \in Cell : TickedGlobal[c] < Ticked
      /\ \A c \in Cell : c \notin gchunks => TickedGlobal[c] = 0
      /\ \A u \in Thread, c \in Cell : c \notin chunks[u] => TickedLocal[u][c] = 0
  BY <1>1, TickedState
<1>4. ASSUME NEW u \in Thread
      PROVE  /\ ThreadInv(TickedStack[u], TickedLocal[u], TickedGlobal, frames[u], Ticked)
             /\ \A d \in Slot : TickedStack[u][d].fn = stack[u][d].fn
             /\ \A c \in Cell : TickedLocal[u][c] < Ticked
  BY <1>1, TickedState
<1>5. frames' = [u \in Thread |-> IF u = t THEN AccessedFrames(frames[t], Counted(t, cells), TRUE)
                                           ELSE frames[u]]
  BY <1>1, <1>2, TouchedFramesAre
<1>6. CASE ~ Counts(t)
  <2>1. stack' = TickedStack /\ local' = TickedLocal /\ UNCHANGED chunks
    BY <1>6 DEF HSyscallLoad, SyscallLoad
  <2>2. AccessedFrames(frames[t], Counted(t, cells), TRUE) = frames[t]
    <3>1. Counted(t, cells) = {}
      BY <1>6 DEF Counted
    <3> QED
      BY <1>2, <3>1, NothingAccessed
  <2>3. frames' = [u \in Thread |-> frames[u]]
    BY <1>5, <2>2
  <2>4. frames' = frames
    BY <1>2, <2>3
  <2> QED
    BY <1>1, <2>1, <2>4, OnlyTicked
<1>7. CASE Counts(t)
  <2> DEFINE stn  == Charged(TickedStack[t], Len(frames[t]), TickedLocal[t], TickedGlobal, cells)
             locn == Stamped(TickedLocal[t], cells, Ticked)
             frn  == AccessedFrames(frames[t], cells, TRUE)
  <2>1. depth[t] > 0 /\ skip[t] = 0 /\ Counted(t, cells) = cells
    BY <1>7 DEF Counts, Counted
  <2>2. Len(frames[t]) = depth[t] /\ Len(frames[t]) > 0 /\ Len(frames[t]) \in Slot
    <3>1. skip[t] = 0 => Len(frames[t]) = depth[t]
      BY AllLive
    <3>2. depth[t] \in Nat /\ Len(frames[t]) \in Nat /\ \A d \in 1..depth[t] : d \in Slot
      BY StateTypes
    <3> QED
      BY <2>1, <3>1, <3>2
  <2>3. /\ stack' = [TickedStack EXCEPT ![t] = stn]
        /\ local' = [TickedLocal EXCEPT ![t] = locn]
        /\ chunks' = [chunks EXCEPT ![t] = @ \cup ChunksOf(cells)]
    BY <1>7, <2>2 DEF HSyscallLoad, SyscallLoad
  <2>4. ThreadInv(stn, locn, TickedGlobal, frn, Ticked)
    <3>1. \A c \in Cell : TickedGlobal[c] <= Ticked
      BY <1>3 DEF Time
    <3> QED
      BY <1>4, <2>2, <3>1, ThreadLoads
  <2>5. /\ stn \in [Slot -> Activation]
        /\ \A d \in Slot : stn[d].fn = TickedStack[t][d].fn /\ stn[d].aid = TickedStack[t][d].aid
    BY <1>3, <2>2, ChargedStack
  <2>6. frn \in Seq(AFrame) /\ Len(frn) = Len(frames[t])
    <3>1. frames[t] \in Seq(AFrame) /\ TRUE \in BOOLEAN
      BY <1>2
    <3> QED
      BY <3>1, AccessedFramesAre
  <2>7. /\ \A c \in Cell : locn[c] = IF c \in cells THEN Ticked ELSE TickedLocal[t][c]
        /\ locn \in [Cell -> Time]
    BY <1>3 DEF Stamped
  <2> HIDE DEF stn, locn, frn
  <2>8. /\ frames' = [u \in Thread |-> frames'[u]]
        /\ frames'[t] = frn /\ \A u \in Thread : u # t => frames'[u] = frames[u]
    <3>1. frames' = [u \in Thread |-> IF u = t THEN frn ELSE frames[u]]
      BY <1>5, <2>1 DEF frn
    <3> QED
      BY <3>1
  <2>9. /\ stack'[t] = stn /\ local'[t] = locn /\ chunks'[t] = chunks[t] \cup ChunksOf(cells)
        /\ \A u \in Thread : u # t => /\ stack'[u] = TickedStack[u] /\ local'[u] = TickedLocal[u]
                                      /\ chunks'[u] = chunks[u]
    BY <1>2, <1>3, <2>3
  <2>10. \A u \in Thread : frames'[u] \in Seq(AFrame) /\ Len(frames'[u]) = Len(frames[u])
    BY <1>2, <2>6, <2>8
  <2>11. \A u \in Thread : \A d \in Slot : /\ stack'[u][d].fn = stack[u][d].fn
                                           /\ stack'[u][d].aid = TickedStack[u][d].aid
    BY <1>4, <2>5, <2>9
  <2>12. HTypeOK'
    <3>1. stack' \in [Thread -> [Slot -> Activation]] /\ local' \in [Thread -> [Cell -> Time]]
      BY <1>3, <2>3, <2>5, <2>7
    <3>2. frames' \in [Thread -> Seq(AFrame)]
      BY <2>8, <2>10
    <3>3. ChunksOf(cells) \in SUBSET Cell
      BY ChunksHold
    <3>4. chunks' \in [Thread -> SUBSET Cell]
      BY <1>2, <2>3, <3>3
    <3> QED
      BY <1>1, <1>2, <1>3, <3>1, <3>2, <3>4 DEF HTypeOK, TypeOK, AFrame
  <2>13. ASSUME NEW u \in Thread
         PROVE  ThreadInv(stack'[u], local'[u], TickedGlobal, frames'[u], Ticked)
    BY <1>4, <2>4, <2>8, <2>9
  <2>14. ASSUME NEW u \in Thread
         PROVE  SkipInv(stack'[u], depth[u], skip[u], Len(frames'[u]))
    <3>1. SkipInv(stack[u], depth[u], skip[u], Len(frames[u]))
      BY DEF IInv
    <3>2. \A d \in 1..depth[u] : stack'[u][d].fn = stack[u][d].fn
      BY <2>11, StateTypes
    <3> QED
      BY <2>10, <3>1, <3>2, StateTypes, SkipUnchanged
  <2>15. IdsDistinct'
    <3>1. \A u \in Thread : \A d \in Live(u)' : d \in Live(u) /\ d \in Slot
      BY <2>10, StateTypes DEF Live
    <3>2. \A u, v \in Thread : u # v =>
            \A d \in Live(u), e \in Live(v) : TickedStack[u][d].aid # TickedStack[v][e].aid
      BY <1>1, TickedState
    <3> QED
      BY <2>11, <3>1, <3>2 DEF IdsDistinct
  <2>16. TimesBounded'
    <3>1. \A c \in Cell : TickedGlobal[c] <= Ticked
      BY <1>3 DEF Time
    <3>2. \A u \in Thread, c \in Cell : TickedLocal[u][c] < Ticked /\ TickedLocal[u][c] <= Ticked
      BY <1>3, <1>4 DEF Time
    <3>3. \A c \in Cell : locn[c] <= Ticked
      <4>1. Ticked <= Ticked
        BY <1>3
      <4> QED
        BY <2>7, <3>2, <4>1
    <3>4. t # NoThread
      BY SetsAssumption
    <3>5. \A u \in Thread, c \in Cell : IF t \in {u, NoThread} THEN local'[u][c] <= Ticked
                                                               ELSE local'[u][c] < Ticked
      BY <2>9, <3>2, <3>3, <3>4
    <3> QED
      BY <1>1, <3>1, <3>5 DEF TimesBounded
  <2>17. UnallocatedUntouched'
    <3>1. cells \subseteq ChunksOf(cells)
      BY ChunksHold
    <3>2. \A u \in Thread, c \in Cell : c \notin chunks'[u] => local'[u][c] = 0
      BY <1>3, <2>7, <2>9, <3>1
    <3> QED
      BY <1>1, <1>3, <3>2 DEF UnallocatedUntouched
  <2> QED
    BY <1>1, <2>12, <2>13, <2>14, <2>15, <2>16, <2>17 DEF IInv
<1> QED
  BY <1>6, <1>7

-----------------------------------------------------------------------------
(* The theorems.                                                           *)

\* The program starts in the invariant.
LEMMA Initially ==
  ASSUME HInit
  PROVE  IInv
<1>1. /\ counter = 1 /\ global = Untouched /\ gchunks = {} /\ current = NoThread /\ alive = {}
      /\ depth = [t \in Thread |-> 0] /\ stack = [t \in Thread |-> EmptyStack]
      /\ skip = [t \in Thread |-> 0]
      /\ local = [t \in Thread |-> Untouched] /\ chunks = [t \in Thread |-> {}]
      /\ filed = <<>> /\ corrupt = FALSE /\ frames = [t \in Thread |-> <<>>]
  BY DEF HInit, Init
<1>2. /\ EmptyStack \in [Slot -> Activation] /\ Untouched \in [Cell -> Time]
      /\ SkipInv(EmptyStack, 0, 0, 0)
      /\ \A glo \in [Cell -> Nat], now \in Nat : ThreadInv(EmptyStack, Untouched, glo, <<>>, now)
  BY EmptyThread
<1>3. 1 \in 1..(MaxCount - 1) /\ 0 \in 0..MaxDepth
  <2>1. depth \in [Thread -> 0..MaxDepth]
    BY <1>1, CountAssumption
  <2>2. RenumberedCount \in 1..(MaxCount - 1) /\ MaxCount \in Nat /\ MaxDepth \in Nat
    BY <2>1, PendingFits, CountAssumption
  <2> QED
    BY <2>2
<1>4. HTypeOK
  <2>1. counter \in 1..(MaxCount - 1) /\ current \in Thread \cup {NoThread}
        /\ gchunks \subseteq Cell /\ alive \subseteq Thread /\ corrupt \in BOOLEAN
    BY <1>1, <1>3
  <2>2. global \in [Cell -> Time] /\ depth \in [Thread -> 0..MaxDepth]
        /\ stack \in [Thread -> [Slot -> Activation]] /\ skip \in [Thread -> Nat]
        /\ local \in [Thread -> [Cell -> Time]] /\ chunks \in [Thread -> SUBSET Cell]
    BY <1>1, <1>2, <1>3
  <2>3. frames \in [Thread -> Seq(Abstract!Frame)] /\ filed \in Seq(Int)
    <3>1. \A S : <<>> \in Seq(S)
      OBVIOUS
    <3> QED
      BY <1>1, <3>1
  <2> QED
    BY <2>1, <2>2, <2>3 DEF HTypeOK, TypeOK
<1>5. ASSUME NEW t \in Thread
      PROVE  /\ ThreadInv(stack[t], local[t], global, frames[t], counter)
             /\ SkipInv(stack[t], depth[t], skip[t], Len(frames[t]))
  <2>1. Untouched \in [Cell -> Nat]
    BY DEF Untouched
  <2>2. ThreadInv(EmptyStack, Untouched, Untouched, <<>>, 1)
    BY <1>2, <2>1
  <2>3. Len(<<>>) = 0
    OBVIOUS
  <2> QED
    BY <1>1, <1>2, <2>2, <2>3
<1>6. IdsDistinct
  BY <1>1 DEF IdsDistinct, Live
<1>7. TimesBounded /\ UnallocatedUntouched
  <2>1. \A c \in Cell : Untouched[c] = 0
    BY DEF Untouched
  <2> QED
    BY <1>1, <2>1 DEF TimesBounded, UnallocatedUntouched
<1> QED
  BY <1>4, <1>5, <1>6, <1>7 DEF IInv

\* Every step keeps it.
LEMMA NextStep ==
  ASSUME IInv, [HNext]_hvars
  PROVE  IInv'
<1>1. ASSUME NEW type \in AccessType, NEW cells \in SUBSET Cell \ {{}}, HAccess(type, cells)
      PROVE  IInv'
  BY <1>1, StepAccess
<1> QED
  BY <1>1, Stuttering, StepCreate, StepSwitch, StepThreadExit, StepSyscallStore, StepSyscallLoad,
     StepEnterSkipped, StepEnter, StepExitSkipped, StepExit, StepRenumberOutOfOrder
  DEF HNext

\* The inductive invariant holds in every state of every execution.
THEOREM Invariance == HSpec => []IInv
<1>1. HInit => IInv
  BY Initially
<1>2. IInv /\ [HNext]_hvars => IInv'
  BY NextStep
<1> QED
  BY <1>1, <1>2, PTL DEF HSpec

\* The profiler's fields keep their types: the counter stays below MAX_COUNT_VAL and no
\* time it leaves in a memory or on a stack reaches it, across every renumbering.
THEOREM TypeCorrect == HSpec => []HTypeOK
<1>1. IInv => HTypeOK
  BY DEF IInv
<1> QED
  BY <1>1, Invariance, PTL

\* function_enter and function_exit count the skipped routines of a stack exactly: the
\* live activations are those below the first skipped one.
THEOREM SkipExact == HSpec => []SkipCountsSkippedRoutines
<1>1. ASSUME IInv PROVE SkipCountsSkippedRoutines
  <2> SUFFICES ASSUME NEW t \in Thread
               PROVE  /\ skip[t] = Cardinality({d \in 1..depth[t] : stack[t][d].fn \in Skipped})
                      /\ Len(frames[t]) = LiveDepth(t)
    BY DEF SkipCountsSkippedRoutines
  <2>1. SkipInv(stack[t], depth[t], skip[t], Len(frames[t]))
    BY <1>1 DEF IInv
  <2>2. LiveDepth(t) = Len(frames[t])
    BY <1>1, <2>1, StateTypes, LiveDepthIs
  <2> QED
    BY <2>1, <2>2 DEF SkipInv, SkippedOn
<1> QED
  BY <1>1, Invariance, PTL

\* The ids and the times of two memories are ordered as the tests of trace_access_drms
\* assume, with any number of threads and across renumberings.
THEOREM Ordered == HSpec => []TimesOrdered
<1>1. ASSUME IInv PROVE TimesOrdered
  <2>1. \A t \in Thread : ThreadInv(stack[t], local[t], global, frames[t], counter)
    BY <1>1 DEF IInv
  <2>2. \A t \in Thread : \A d \in Live(t) : stack[t][d].aid \in 1..counter
    <3> SUFFICES ASSUME NEW t \in Thread, NEW d \in Live(t) PROVE stack[t][d].aid \in 1..counter
      OBVIOUS
    <3>1. stack[t][d].aid \in Nat /\ counter \in Nat
      BY <2>1, ThreadFacts DEF ThreadInv, Live
    <3>2. stack[t][d].aid > 0 /\ stack[t][d].aid <= counter
      BY <2>1 DEF ThreadInv, Live
    <3> QED
      BY <3>1, <3>2
  <2>3. \A t \in Thread : \A d, e \in Live(t) : d < e => stack[t][d].aid < stack[t][e].aid
    BY <2>1 DEF ThreadInv, Live
  <2> QED
    BY <1>1, <2>2, <2>3 DEF TimesOrdered, IInv, IdsDistinct, TimesBounded
<1> QED
  BY <1>1, Invariance, PTL

\* The two shadow memories and the ids name exactly the cells each live activation knows.
THEOREM ShadowsExact == HSpec => []ShadowsMatchHistory
<1>1. IInv => ShadowsMatchHistory
  BY DEF IInv, ThreadInv, Knows, ShadowsMatchHistory, KnownBy, Live
<1> QED
  BY <1>1, Invariance, PTL

\* The partial input sizes on a stack sum up to the sizes of the metric.
THEOREM Telescoped == HSpec => []InputIsTelescoped
<1>1. IInv => InputIsTelescoped
  BY DEF IInv, ThreadInv, InputIsTelescoped, Live
<1> QED
  BY <1>1, Invariance, PTL

\* What was read from other threads and the kernel never exceeds the input size of the
\* running activation: the assertions of trace_access_drms and function_exit hold.
THEOREM DynamicBounded == HSpec => []DynamicWithinInput
<1>1. ASSUME IInv PROVE DynamicWithinInput
  <2> SUFFICES ASSUME NEW t \in Thread, Counts(t)
               PROVE  stack[t][depth[t]].dynamic <= stack[t][depth[t]].input
    BY DEF DynamicWithinInput
  <2> DEFINE n == Len(frames[t])
  <2>1. SkipInv(stack[t], depth[t], skip[t], n)
        /\ ThreadInv(stack[t], local[t], global, frames[t], counter)
    BY <1>1 DEF IInv
  <2>2. depth[t] \in Nat /\ n \in Nat
    BY <1>1, StateTypes
  <2>3. skip[t] = 0 => n = depth[t]
    BY <1>1, AllLive
  <2>4. n = depth[t] /\ n > 0
    BY <2>2, <2>3 DEF Counts
  <2>5. PICK sum \in [1..n -> Nat] : \A d \in 1..n :
          /\ stack[t][d].dynamic = sum[d] - IF d < n THEN sum[d + 1] ELSE 0
          /\ sum[d] <= frames[t][d].size
    BY <2>1 DEF ThreadInv, DynamicSums
  <2>6. /\ \A d \in 1..n : stack[t][d].input
                              = frames[t][d].size - IF d < n THEN frames[t][d + 1].size ELSE 0
        /\ \A d \in 1..n : frames[t][d].size \in Nat
    BY <2>1, ThreadFacts DEF ThreadInv
  <2> HIDE DEF n
  <2>7. n \in 1..n
    BY <2>2, <2>4
  <2>8. stack[t][n].dynamic = sum[n] /\ stack[t][n].input = frames[t][n].size
    <3>1. stack[t][n].dynamic = sum[n] - 0 /\ stack[t][n].input = frames[t][n].size - 0
      BY <2>2, <2>5, <2>6, <2>7
    <3>2. sum[n] \in Int /\ frames[t][n].size \in Int
      BY <2>6, <2>7
    <3> QED
      BY <3>1, <3>2
  <2> QED
    BY <2>4, <2>5, <2>7, <2>8
<1> QED
  BY <1>1, Invariance, PTL

\* overflow_handler_drms and LK_compress_drms may run at any time without any live
\* activation forgetting a cell or learning of one.
THEOREM RenumberingForgetsNothing == HSpec => []RenumberingKeepsKnown
<1>1. ASSUME IInv PROVE RenumberingKeepsKnown
  <2> SUFFICES ASSUME InOrder, NEW t \in Thread, NEW d \in Live(t)
               PROVE  {c \in Cell : /\ RenumberedLocal[t][c] >= RenumberedStack[t][d].aid
                                    /\ RenumberedLocal[t][c] >= RenumberedGlobal[c]} = KnownBy(t, d)
    BY DEF RenumberingKeepsKnown
  <2>1. Knows(RenumberedStack[t], RenumberedLocal[t], RenumberedGlobal, d)
          = Knows(stack[t], local[t], global, d)
    BY <1>1, RenumberedThread
  <2> QED
    BY <2>1 DEF Knows, KnownBy
<1> QED
  BY <1>1, Invariance, PTL

-----------------------------------------------------------------------------
(* The refinement of DynamicReadMemorySize.                                *)

\* Each step of the profiler is a step of the definition of the metric, or none.
LEMMA StepRefines ==
  ASSUME IInv, [HNext]_hvars
  PROVE  [Abstract!ANext]_(Abstract!avars)
<1>1. ASSUME UNCHANGED <<frames, filed>>
      PROVE  [Abstract!ANext]_(Abstract!avars)
  BY <1>1 DEF Abstract!avars
<1>2. ASSUME NEW t \in Thread, HThreadExit(t)
      PROVE  Abstract!ANext
  BY <1>2, StepThreadExit DEF HThreadExit, Abstract!AEnd, Abstract!ANext
<1>3. ASSUME NEW type \in AccessType, NEW cells \in SUBSET Cell \ {{}}, HAccess(type, cells)
      PROVE  Abstract!ANext
  <2>1. current \in Thread
    BY <1>3, StepAccess
  <2>2. /\ frames' = Abstract!Touched(frames, current, cells, type # "store", type # "load")
        /\ UNCHANGED filed
    BY <1>3 DEF HAccess, Access
  <2>3. CASE type = "load"
    <3>1. frames' = Abstract!Touched(frames, current, cells, TRUE, FALSE)
      BY <2>2, <2>3 DEF Abstract!Touched, Abstract!Accessed
    <3> QED
      BY <2>1, <2>2, <3>1 DEF Abstract!AAccess, Abstract!ANext
  <2>4. CASE type = "store"
    <3>1. frames' = Abstract!Touched(frames, current, cells, FALSE, TRUE)
      BY <2>2, <2>4 DEF Abstract!Touched, Abstract!Accessed
    <3> QED
      BY <2>1, <2>2, <3>1 DEF Abstract!AAccess, Abstract!ANext
  <2>5. CASE type = "modify"
    <3>1. frames' = Abstract!Touched(frames, current, cells, TRUE, TRUE)
      BY <2>2, <2>5 DEF Abstract!Touched, Abstract!Accessed
    <3> QED
      BY <2>1, <2>2, <3>1 DEF Abstract!AAccess, Abstract!ANext
  <2> QED
    BY <2>3, <2>4, <2>5 DEF AccessType
<1>4. ASSUME NEW t \in Thread, NEW cells \in SUBSET Cell, HSyscallStore(t, cells)
      PROVE  Abstract!ANext
  <2>1. Counted(t, cells) \in SUBSET Cell
    BY DEF Counted
  <2>2. frames' = Abstract!Injected(frames, Counted(t, cells)) /\ UNCHANGED filed
    BY <1>4 DEF HSyscallStore, SyscallStore
  <2> QED
    BY <2>1, <2>2 DEF Abstract!AInject, Abstract!ANext
<1>5. ASSUME NEW t \in Thread, NEW cells \in SUBSET Cell, HSyscallLoad(t, cells)
      PROVE  Abstract!ANext
  <2>1. Counted(t, cells) \in SUBSET Cell
    BY DEF Counted
  <2>2. /\ frames' = Abstract!Touched(frames, t, Counted(t, cells), TRUE, FALSE)
        /\ UNCHANGED filed
    BY <1>5 DEF HSyscallLoad, SyscallLoad
  <2> QED
    BY <2>1, <2>2 DEF Abstract!AAccess, Abstract!ANext
<1>6. ASSUME NEW f \in Routine, HEnter(f)
      PROVE  Abstract!ANext
  <2>1. current \in Thread
    BY <1>6 DEF HEnter, Enter, Running, IInv, HTypeOK, TypeOK
  <2>2. frames' = Abstract!Called(frames, current) /\ UNCHANGED filed
    BY <1>6 DEF HEnter, Enter
  <2> QED
    BY <2>1, <2>2 DEF Abstract!ACall, Abstract!ANext
<1>7. ASSUME HExit
      PROVE  Abstract!ANext
  <2>1. /\ filed' = <<frames[current][Len(frames[current])].size>>
        /\ current \in Thread /\ Len(frames[current]) > 0
    BY <1>7, StepExit
  <2>2. frames' = Abstract!Returned(frames, current)
    BY <1>7 DEF HExit
  <2>3. frames[current] # <<>>
    <3>1. Len(<<>>) = 0
      OBVIOUS
    <3> QED
      BY <2>1, <3>1
  <2> QED
    BY <2>1, <2>2, <2>3 DEF Abstract!AReturn, Abstract!ANext
<1>8. ASSUME \/ \E t \in Thread : HCreate(t) \/ HSwitch(t)
             \/ \E f \in Routine : HEnterSkipped(f)
             \/ HExitSkipped \/ HRenumberOutOfOrder \/ UNCHANGED hvars
      PROVE  UNCHANGED <<frames, filed>>
  BY <1>8 DEF HCreate, Create, HSwitch, Switch, HEnterSkipped, EnterSkipped, HExitSkipped,
              ExitSkipped, HRenumberOutOfOrder, RenumberOutOfOrder, hvars, vars
<1> QED
  BY <1>1, <1>2, <1>3, <1>4, <1>5, <1>6, <1>7, <1>8 DEF HNext

\* The profiler implements the definition of the metric: function_exit, and thread_exit
\* for every activation still open, file the reads that no access of the activation's
\* own, or of a descendant, and no write of anybody else, had left known.
THEOREM Implements == HSpec => RefinesDynamicReadMemorySize
<1>1. HInit => Abstract!AInit
  BY DEF HInit, Init, Abstract!AInit
<1>2. IInv /\ [HNext]_hvars => [Abstract!ANext]_(Abstract!avars)
  BY StepRefines
<1> QED
  BY <1>1, <1>2, Invariance, PTL DEF HSpec, RefinesDynamicReadMemorySize, Abstract!ASpec
=============================================================================
