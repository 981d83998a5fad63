-------------------------- MODULE CallStackProofs ---------------------------
(***************************************************************************)
(* Proofs about the call-stack tracker, for any code, any number of        *)
(* threads and any stack bounds: first under a program that may do         *)
(* anything, then under one that makes the moves of TrackedProgram.        *)
(***************************************************************************)
EXTENDS TrackedProgram, NaturalLemmas, SequenceTheorems, TLAPS

\* The stack pointers of a stack do not grow towards its top.
Ordered(st) == \A d, e \in DOMAIN st : d < e => st[d].sp >= st[e].sp
Good(st) == st \in Seq(Activation) /\ Ordered(st)

CapacityOK == \A t \in Thread : capacity[t] > 0

IInv == TypeOK /\ StackPointersOrdered /\ StackFits /\ CapacityOK

-----------------------------------------------------------------------------
(* What the operations do to a stack.                                      *)

\* The beginning of a sequence.
LEMMA Prefix ==
  ASSUME NEW S, NEW s \in Seq(S), NEW k \in 0..Len(s)
  PROVE  /\ SubSeq(s, 1, k) \in Seq(S) /\ Len(SubSeq(s, 1, k)) = k
         /\ DOMAIN SubSeq(s, 1, k) = 1..k
         /\ \A i \in 1..k : SubSeq(s, 1, k)[i] = s[i]
<1> DEFINE p == SubSeq(s, 1, k)
<1>1. /\ Len(s) \in Nat /\ DOMAIN s = 1..Len(s) /\ k \in Nat
      /\ \A i \in 1..k : s[i] \in S
  BY LenProperties, ElementOfSeq
<1>2. /\ p \in Seq(S) /\ Len(p) = IF 1 <= k THEN k - 1 + 1 ELSE 0
      /\ \A i \in 1..(k - 1 + 1) : p[i] = s[1 + i - 1]
  BY <1>1, SubSeqProperties
<1>3. k - 1 + 1 = k /\ \A i \in 1..k : 1 + i - 1 = i
  BY <1>1
<1>4. Len(p) = k
  BY <1>1, <1>2
<1> HIDE DEF p
<1>5. DOMAIN p = 1..k
  BY <1>2, <1>4, LenProperties
<1>6. p \in Seq(S) /\ Len(p) = k /\ DOMAIN p = 1..k /\ \A i \in 1..k : p[i] = s[i]
  BY <1>2, <1>3, <1>4, <1>5
<1> QED
  BY <1>6 DEF p

\* What is left of a stack when its top is popped.
LEMMA PrefixIsGood ==
  ASSUME NEW st, Good(st), NEW k \in 0..Len(st)
  PROVE  Good(SubSeq(st, 1, k)) /\ Len(SubSeq(st, 1, k)) = k
<1> DEFINE p == SubSeq(st, 1, k)
<1>1. /\ p \in Seq(Activation) /\ Len(p) = k /\ DOMAIN p = 1..k
      /\ \A i \in 1..k : p[i] = st[i]
  BY Prefix DEF Good
<1>2. DOMAIN st = 1..Len(st) /\ Len(st) \in Nat
  BY LenProperties DEF Good
<1> HIDE DEF p
<1>3. Ordered(p)
  BY <1>1, <1>2 DEF Ordered, Good
<1> QED
  BY <1>1, <1>3 DEF Good, p

\* pop_stack leaves a part of the stack.  If it leaves all of it, and has nothing to pop at
\* the stack pointer itself, nothing lies below the stack pointer.
LEMMA PopStops ==
  ASSUME NEW st, Good(st), NEW csp \in Int, NEW n
  PROVE  /\ Good(Popped(st, csp, n)) /\ Len(Popped(st, csp, n)) <= Len(st)
         /\ (n = 0 /\ Popped(st, csp, n) = st /\ st # <<>>) => csp <= Top(st).sp
<1> DEFINE keep == {d \in DOMAIN st : \/ csp < st[d].sp
                                      \/ csp = st[d].sp /\ n <= Len(st) - d}
           T == {0} \cup keep
<1>1. st \in Seq(Activation) /\ Len(st) \in Nat /\ DOMAIN st = 1..Len(st)
  BY LenProperties DEF Good
<1>2. Max(T) \in T /\ T \subseteq 0..Len(st)
  <2>1. T \in SUBSET (0..Len(st)) /\ T # {}
    BY <1>1
  <2> HIDE DEF T
  <2>2. \E x \in T : \A y \in T : x >= y
    BY <1>1, <2>1, GreatestNatural
  <2> QED
    BY <2>1, <2>2 DEF Max
<1>3. Popped(st, csp, n) = SubSeq(st, 1, Max(T))
  BY DEF Popped
<1> DEFINE k == Max(T)
<1>4. k \in 0..Len(st) /\ k \in {0} \cup keep
  BY <1>2
<1> HIDE DEF T, k
<1>5. Good(SubSeq(st, 1, k)) /\ Len(SubSeq(st, 1, k)) = k
  BY <1>4, PrefixIsGood
<1>6. ASSUME n = 0, SubSeq(st, 1, k) = st, st # <<>>
      PROVE  csp <= Top(st).sp
  <2>1. k = Len(st) /\ k # 0
    BY <1>1, <1>5, <1>6, EmptySeq
  <2>2. k \in keep
    BY <1>4, <2>1
  <2>3. k \in 1..Len(st) /\ st[k] \in Activation
    BY <1>1, <1>4, <2>1, ElementOfSeq
  <2>4. st[k].sp \in Int
    BY <2>3 DEF Activation, Sp
  <2>5. csp < st[k].sp \/ csp = st[k].sp
    BY <2>2
  <2> HIDE DEF keep
  <2> QED
    BY <2>1, <2>4, <2>5 DEF Top
<1> QED
  BY <1>1, <1>3, <1>4, <1>5, <1>6 DEF k

\* push_stack onto a stack whose top lies at the stack pointer or above it.
LEMMA PushIsGood ==
  ASSUME NEW st, Good(st), NEW bb \in Block, NEW csp \in Sp, lastBB[current] \in Block,
         st # <<>> => csp <= Top(st).sp
  PROVE  Good(Pushed(st, bb, csp)) /\ Len(Pushed(st, bb, csp)) = Len(st) + 1
<1> DEFINE n == Len(st)
           ret == Code[lastBB[current]].after
           called == st # <<>> /\ Code[lastBB[current]].exit = "BBCALL"
           caller == IF called THEN [st EXCEPT ![n].ret = ret] ELSE st
           new == [fn |-> Code[bb].fn, sp |-> csp, ret |-> NoBlock]
<1>1. /\ st \in Seq(Activation) /\ n \in Nat /\ DOMAIN st = 1..n
      /\ \A d \in 1..n : st[d] \in Activation
  BY LenProperties, ElementOfSeq DEF Good
<1>2. new \in Activation
  BY DEF Activation
<1>3. called => ret \in ReturnAddress
  BY DEF ReturnAddress
<1>4. /\ caller \in Seq(Activation) /\ Len(caller) = n
      /\ \A d \in 1..n : caller[d].sp = st[d].sp
  <2>1. CASE ~ called
    BY <1>1, <2>1
  <2>2. CASE called
    <3> DEFINE e == [st[n] EXCEPT !.ret = ret]
    <3>1. n \in 1..n
      BY <1>1, <2>2, EmptySeq
    <3>2. e \in Activation /\ e.sp = st[n].sp
      BY <1>1, <1>3, <2>2, <3>1 DEF Activation
    <3>3. caller = [st EXCEPT ![n] = e]
      BY <2>2
    <3> HIDE DEF e, caller
    <3>4. /\ caller \in Seq(Activation) /\ Len(caller) = n
          /\ \A d \in 1..n : caller[d] = IF d = n THEN e ELSE st[d]
      BY <1>1, <3>1, <3>2, <3>3, ExceptSeq
    <3> QED
      BY <3>2, <3>4
  <2> QED
    BY <2>1, <2>2
<1> DEFINE all == Append(caller, new)
<1>5. Pushed(st, bb, csp) = all
  BY DEF Pushed
<1> HIDE DEF caller, called
<1>6. new.sp = csp
  OBVIOUS
<1> HIDE DEF new
<1>7. /\ all \in Seq(Activation) /\ Len(all) = n + 1
      /\ \A d \in 1..n : all[d] = caller[d] /\ all[n + 1] = new
  BY <1>1, <1>2, <1>4, AppendProperties
<1>8. DOMAIN all = 1..(n + 1) /\ all[n + 1] = new
  BY <1>2, <1>4, <1>7, LenProperties, AppendProperties
<1> HIDE DEF all
<1>9. Ordered(all)
  <2> SUFFICES ASSUME NEW d \in 1..(n + 1), NEW e \in 1..(n + 1), d < e
               PROVE  all[d].sp >= all[e].sp
    BY <1>8 DEF Ordered
  <2>1. d \in 1..n /\ all[d].sp = st[d].sp
    BY <1>1, <1>4, <1>7
  <2>2. CASE e \in 1..n
    BY <1>1, <1>4, <1>7, <2>1, <2>2 DEF Good, Ordered
  <2>3. CASE e = n + 1
    <3>1. n # 0 /\ n \in 1..n /\ csp <= st[n].sp
      BY <1>1, <2>1, EmptySeq DEF Top
    <3>2. st[d].sp >= st[n].sp
      <4>1. CASE d = n
        BY <1>1, <4>1, <3>1 DEF Activation, Sp
      <4>2. CASE d # n
        <5> HIDE DEF n
        <5>1. n \in Int /\ d \in Int /\ d <= n
          BY <1>1, <2>1
        <5>2. d < n
          BY <4>2, <5>1
        <5> QED
          BY <1>1, <2>1, <3>1, <5>2 DEF Good, Ordered
      <4> QED
        BY <4>1, <4>2
    <3>3. st[d].sp \in Int /\ st[n].sp \in Int /\ csp \in Int
      BY <1>1, <2>1, <3>1 DEF Activation, Sp
    <3>4. all[e].sp = csp
      BY <1>6, <1>8, <2>3
    <3> QED
      BY <2>1, <3>1, <3>2, <3>3, <3>4
  <2> QED
    BY <1>1, <2>2, <2>3
<1> QED
  BY <1>5, <1>7, <1>9 DEF Good

-----------------------------------------------------------------------------
(* The steps.                                                              *)

\* The running thread's stack, and the array that holds it.
LEMMA RunningStack ==
  ASSUME IInv, Running
  PROVE  /\ current \in Thread /\ Good(stack[current])
         /\ capacity[current] \in Nat \ {0} /\ Len(stack[current]) <= capacity[current]
  BY DEF IInv, TypeOK, StackPointersOrdered, StackFits, CapacityOK, Running, Good, Ordered

\* A thread's stack is replaced by another one that fits.
LEMMA Replaced ==
  ASSUME IInv, NEW st, Good(st), NEW cap \in Nat \ {0}, Len(st) <= cap,
         NEW t \in Thread,
         stack' = [stack EXCEPT ![t] = st], capacity' = [capacity EXCEPT ![t] = cap]
  PROVE  /\ stack' \in [Thread -> Seq(Activation)] /\ capacity' \in [Thread -> Nat]
         /\ StackPointersOrdered' /\ StackFits' /\ CapacityOK'
<1>1. /\ stack \in [Thread -> Seq(Activation)] /\ capacity \in [Thread -> Nat]
      /\ StackPointersOrdered /\ StackFits /\ CapacityOK
  BY DEF IInv, TypeOK
<1>2. /\ \A u \in Thread : stack'[u] = IF u = t THEN st ELSE stack[u]
      /\ \A u \in Thread : capacity'[u] = IF u = t THEN cap ELSE capacity[u]
  BY <1>1
<1>3. stack' \in [Thread -> Seq(Activation)] /\ capacity' \in [Thread -> Nat]
  BY <1>1 DEF Good
<1>4. StackPointersOrdered'
  BY <1>1, <1>2 DEF StackPointersOrdered, Good, Ordered
<1>5. StackFits' /\ CapacityOK'
  BY <1>1, <1>2 DEF StackFits, CapacityOK
<1> QED
  BY <1>3, <1>4, <1>5

\* The block runs, with another stack.
LEMMA BlockRuns ==
  ASSUME IInv, Running, NEW bb \in Block, Runs(bb), Keeps, UNCHANGED halted,
         NEW st, Good(st), NEW cap \in Nat \ {0}, Len(st) <= cap,
         stack' = [stack EXCEPT ![current] = st],
         capacity' = [capacity EXCEPT ![current] = cap]
  PROVE  IInv'
<1>1. current \in Thread
  BY RunningStack
<1>2. /\ stack' \in [Thread -> Seq(Activation)] /\ capacity' \in [Thread -> Nat]
      /\ StackPointersOrdered' /\ StackFits' /\ CapacityOK'
  BY <1>1, Replaced
<1>3. lastExit' \in Jump \cup {"NONE"}
  BY CodeAssumption DEF Runs, Jump, BlockInfo
<1>4. lastBB' \in [Thread -> Block \cup {NoBlock}]
  BY DEF Runs, IInv, TypeOK
<1>5. TypeOK'
  BY <1>2, <1>3, <1>4 DEF IInv, TypeOK, Keeps
<1> QED
  BY <1>2, <1>5 DEF IInv

\* A call of a NULL activation, or the assertion: nothing else changes.
LEMMA HaltStep ==
  ASSUME IInv, halted' = TRUE,
         UNCHANGED <<current, lastExit, alive, saved, lastBB, stack, capacity>>
  PROVE  IInv'
  BY DEF IInv, TypeOK, StackPointersOrdered, StackFits, CapacityOK

\* What is left when a function that the resolver has found is entered.
LEMMA StackLeftIsGood ==
  ASSUME IInv, Running, NEW bb \in Block, NEW csp \in Sp, NEW stray
  PROVE  /\ Good(StackLeft(bb, csp, stray)) /\ SpLeft(bb, csp, stray) \in Sp
         /\ Len(StackLeft(bb, csp, stray)) <= Len(stack[current])
<1> DEFINE s == stack[current]
<1>1. Good(s) /\ Len(s) \in Nat /\ \A d \in 1..Len(s) : s[d] \in Activation
  BY RunningStack, LenProperties, ElementOfSeq DEF Good
<1>2. CASE ~ LeavesResolver(bb, csp, stray)
  BY <1>1, <1>2 DEF StackLeft, SpLeft
<1>3. CASE LeavesResolver(bb, csp, stray)
  <2>1. s # <<>>
    BY <1>3 DEF LeavesResolver
  <2>2. Len(s) \in 1..Len(s) /\ Len(s) - 1 \in 0..Len(s)
    BY <1>1, <2>1, EmptySeq DEF Good
  <2>3. StackLeft(bb, csp, stray) = SubSeq(s, 1, Len(s) - 1)
    BY <1>3 DEF StackLeft
  <2>4. Good(SubSeq(s, 1, Len(s) - 1)) /\ Len(SubSeq(s, 1, Len(s) - 1)) = Len(s) - 1
    BY <1>1, <2>2, PrefixIsGood
  <2>5. SpLeft(bb, csp, stray) \in Sp
    BY <1>1, <1>3, <2>2 DEF SpLeft, Top, Activation
  <2> QED
    BY <1>1, <2>3, <2>4, <2>5
<1> QED
  BY <1>2, <1>3

LEMMA ReturnStep ==
  ASSUME IInv, NEW bb \in Block, NEW csp \in Sp, NEW stray, Return(bb, csp, stray)
  PROVE  IInv'
<1> DEFINE k == ReturnPops(stack[current], bb, csp, stray)
           st == Popped(stack[current], csp, k)
<1>1. /\ Running /\ Runs(bb) /\ Keeps /\ UNCHANGED <<capacity, halted>>
      /\ stack' = [stack EXCEPT ![current] = st]
  BY DEF Return
<1>2. Good(stack[current]) /\ capacity[current] \in Nat \ {0} /\ current \in Thread
      /\ Len(stack[current]) <= capacity[current]
  BY <1>1, RunningStack
<1>3. Good(st) /\ Len(st) <= Len(stack[current]) /\ csp \in Int
  <2> HIDE DEF k
  <2>1. csp \in Int
    BY DEF Sp
  <2> QED
    BY <1>2, <2>1, PopStops
<1> HIDE DEF st, k
<1>4. Len(st) <= capacity[current]
  BY <1>2, <1>3, LenProperties DEF Good
<1>5. capacity' = [capacity EXCEPT ![current] = capacity[current]]
  BY <1>1 DEF IInv, TypeOK
<1> QED
  BY <1>1, <1>2, <1>3, <1>4, <1>5, BlockRuns

LEMMA ContinueStep ==
  ASSUME IInv, NEW bb \in Block, NEW csp \in Sp, NEW stray, Continue(bb, csp, stray)
  PROVE  IInv'
<1> DEFINE rest == StackLeft(bb, csp, stray)
           sp == SpLeft(bb, csp, stray)
           st == Popped(rest, sp, 0)
<1>1. /\ Running /\ Runs(bb) /\ Keeps /\ UNCHANGED <<capacity, halted>>
      /\ stack' = [stack EXCEPT ![current] = st]
  BY DEF Continue
<1>2. Good(stack[current]) /\ capacity[current] \in Nat \ {0} /\ current \in Thread
      /\ Len(stack[current]) <= capacity[current]
  BY <1>1, RunningStack
<1>3. Good(rest) /\ Len(rest) <= Len(stack[current]) /\ sp \in Int
  BY <1>1, StackLeftIsGood DEF Sp
<1> HIDE DEF rest, sp
<1>4. Good(st) /\ Len(st) <= Len(rest)
  BY <1>3, PopStops
<1> HIDE DEF st
<1>5. Len(st) <= capacity[current]
  BY <1>2, <1>3, <1>4, LenProperties DEF Good
<1>6. capacity' = [capacity EXCEPT ![current] = capacity[current]]
  BY <1>1 DEF IInv, TypeOK
<1> QED
  BY <1>1, <1>2, <1>4, <1>5, <1>6, BlockRuns

\* A push: nothing lies below the stack pointer, so it is not above that of the top.
LEMMA CallStep ==
  ASSUME IInv, NEW bb \in Block, NEW csp \in Sp, NEW stray, Call(bb, csp, stray)
  PROVE  IInv'
<1> DEFINE st == StackLeft(bb, csp, stray)
           sp == SpLeft(bb, csp, stray)
           at == IF Emulated(bb, csp, stray) /\ st # <<>> THEN Top(st).sp ELSE sp
           cap == Grown(capacity[current], Len(st) + 1)
           new == Pushed(st, bb, at)
<1>1. /\ Running /\ Runs(bb) /\ Keeps /\ UNCHANGED halted
      /\ Popped(st, sp, 0) = st
      /\ stack' = [stack EXCEPT ![current] = new]
      /\ capacity' = [capacity EXCEPT ![current] = cap]
  BY DEF Call
<1>2. Good(stack[current]) /\ capacity[current] \in Nat \ {0} /\ current \in Thread
      /\ Len(stack[current]) <= capacity[current]
  BY <1>1, RunningStack
<1>3. Good(st) /\ Len(st) <= Len(stack[current]) /\ sp \in Sp
  BY <1>1, StackLeftIsGood
<1>4. lastBB[current] \in Block
  <2>1. lastBB[current] # NoBlock
    BY DEF Call, Emulated, Arrived
  <2> QED
    BY <1>2, <2>1 DEF IInv, TypeOK
<1> HIDE DEF st, sp
<1>5. at \in Sp /\ (st # <<>> => at <= Top(st).sp)
  <2>1. sp \in Int /\ (st # <<>> => sp <= Top(st).sp)
    <3>1. sp \in Int
      BY <1>3 DEF Sp
    <3> QED
      BY <1>1, <1>3, <3>1, PopStops
  <2>2. st # <<>> => Top(st).sp \in Sp
    <3> SUFFICES ASSUME st # <<>> PROVE Top(st).sp \in Sp
      OBVIOUS
    <3>1. Len(st) \in 1..Len(st)
      BY <1>3, EmptySeq DEF Good
    <3>2. st[Len(st)] \in Activation
      BY <1>3, <3>1, ElementOfSeq DEF Good
    <3> QED
      BY <3>2 DEF Top, Activation
  <2> QED
    BY <1>3, <2>1, <2>2 DEF Sp
<1> HIDE DEF at
<1>6. Good(new) /\ Len(new) = Len(st) + 1
  BY <1>3, <1>4, <1>5, PushIsGood
<1> HIDE DEF new
<1>7. cap \in Nat \ {0} /\ Len(new) <= cap
  <2>1. Len(st) \in Nat /\ Len(stack[current]) \in Nat
    BY <1>2, <1>3, LenProperties DEF Good
  <2> QED
    BY <1>2, <1>3, <1>6, <2>1 DEF Grown
<1> HIDE DEF cap
<1> QED
  BY <1>1, <1>6, <1>7, BlockRuns

LEMMA ThreadStep ==
  ASSUME IInv, NEW t \in Thread, Create(t) \/ Switch(t) \/ CloneFails(t)
  PROVE  IInv'
<1>1. TypeOK'
  BY DEF IInv, TypeOK, Create, Switch, CloneFails
<1> QED
  BY <1>1 DEF IInv, StackPointersOrdered, StackFits, CapacityOK, Create, Switch, CloneFails

LEMMA ThreadExitStep ==
  ASSUME IInv, ThreadExit
  PROVE  IInv'
<1>1. current \in Thread
  BY RunningStack DEF ThreadExit
<1>2. Good(<<>>) /\ Len(<<>>) = 0 /\ StackSize \in Nat \ {0} /\ 0 <= StackSize
  BY EmptySeq, SizesAssumption DEF Good, Ordered
<1>3. /\ stack' \in [Thread -> Seq(Activation)] /\ capacity' \in [Thread -> Nat]
      /\ StackPointersOrdered' /\ StackFits' /\ CapacityOK'
  BY <1>1, <1>2, Replaced DEF ThreadExit
<1>4. TypeOK'
  BY <1>1, <1>3 DEF IInv, TypeOK, ThreadExit
<1> QED
  BY <1>3, <1>4 DEF IInv

-----------------------------------------------------------------------------
LEMMA IInvInit == Init => IInv
<1> SUFFICES ASSUME Init PROVE IInv
  OBVIOUS
<1>1. <<>> \in Seq(Activation) /\ Len(<<>>) = 0 /\ DOMAIN <<>> = {}
  BY EmptySeq
<1>2. TypeOK
  BY <1>1, SizesAssumption DEF Init, TypeOK
<1>3. StackPointersOrdered /\ StackFits /\ CapacityOK
  BY <1>1, SizesAssumption DEF Init, StackPointersOrdered, StackFits, CapacityOK
<1> QED
  BY <1>2, <1>3 DEF IInv

LEMMA IInvNext == IInv /\ [Next]_vars => IInv'
<1> SUFFICES ASSUME IInv, [Next]_vars PROVE IInv'
  OBVIOUS
<1>1. ASSUME NEW bb \in Block, NEW csp \in Sp, NEW stray \in BOOLEAN,
             BBStart(bb, csp, stray)
      PROVE  IInv'
  <2>1. CASE Return(bb, csp, stray)
    BY <2>1, ReturnStep
  <2>2. CASE ReturnToNobody(bb)
    BY <2>2, HaltStep DEF ReturnToNobody
  <2>3. CASE Call(bb, csp, stray)
    BY <2>3, CallStep
  <2>4. CASE CallTooDeep(bb, csp, stray)
    BY <2>4, HaltStep DEF CallTooDeep
  <2>5. CASE Continue(bb, csp, stray)
    BY <2>5, ContinueStep
  <2> QED
    BY <1>1, <2>1, <2>2, <2>3, <2>4, <2>5 DEF BBStart
<1>2. ASSUME NEW t \in Thread, Create(t) \/ Switch(t) \/ CloneFails(t)
      PROVE  IInv'
  BY <1>2, ThreadStep
<1>3. CASE ThreadExit
  BY <1>3, ThreadExitStep
<1>4. CASE UNCHANGED vars
  BY <1>4 DEF vars, IInv, TypeOK, StackPointersOrdered, StackFits, CapacityOK
<1> QED
  BY <1>1, <1>2, <1>3, <1>4 DEF Next

\* The inductive invariant.
THEOREM Invariance == Spec => []IInv
  BY IInvInit, IInvNext, PTL DEF Spec

\* BB_start keeps stack pointers in order, whatever blocks and stack pointers it is given:
\* it pushes only when nothing lies below the stack pointer, or with that of the top.
THEOREM SpOrdered == Spec => []StackPointersOrdered
<1>1. IInv => StackPointersOrdered
  BY DEF IInv
<1> QED
  BY <1>1, Invariance, PTL

\* resize_stack is called in time, for any initial size and any maximum.
THEOREM StackAlwaysFits == Spec => []StackFits
<1>1. IInv => StackFits
  BY DEF IInv
<1> QED
  BY <1>1, Invariance, PTL

-----------------------------------------------------------------------------
(* A program under the tracker.                                            *)

\* A function that is dl_runtime_resolve.
Resolves(fn) == \E b \in Block : Code[b].resolver /\ Code[b].fn = fn

\* The activations of a thread whose stack pointer is sp.  The resolver is never called: its
\* activation has the stack pointer of the one that jumped to it.
FramesOK(fr, sp) ==
  /\ fr \in Seq(Frame)
  /\ fr # <<>> => sp <= Top(fr).sp
  /\ \A d \in 1..Len(fr) : fr[d].ret # NoBlock => fr[d].sp < MaxSp
  /\ \A d \in 2..Len(fr) : Resolves(fr[d].fn) => fr[d].sp = fr[d - 1].sp

\* The tracker's stack names the activations.
Shadows(st, fr) ==
  /\ Len(st) = Len(fr)
  /\ \A d \in 1..Len(fr) : st[d].fn = fr[d].fn /\ st[d].sp = fr[d].sp

\* What the tracker has of a thread that it follows.
Followed(t) ==
  /\ FramesOK(frames[t], rsp[t])
  /\ Shadows(stack[t], frames[t])
  /\ lastBB[t] = NoBlock => left[t] = "NONE"
  /\ left[t] = "NONE" => lastBB[t] = NoBlock /\ frames[t] = <<>>

ProgramTypes ==
  /\ frames \in [Thread -> Seq(Frame)] /\ rsp \in [Thread -> Sp]
  /\ left \in [Thread -> Jump \cup {"NONE"}] /\ lost \in [Thread -> BOOLEAN]

\* The inductive invariant of the two together.
ProgramInv ==
  /\ IInv
  /\ ProgramTypes
  /\ \A t \in Thread : ~ lost[t] => left[t] = IF t = current THEN lastExit ELSE saved[t]
  /\ \A t \in Thread : (~ lost[t] /\ ~ halted) => Followed(t)

\* pop_stack pops nothing at or below the stack pointer of the top.
LEMMA PopsNothing ==
  ASSUME NEW st, Good(st), NEW csp \in Int, st # <<>> => csp <= Top(st).sp
  PROVE  Popped(st, csp, 0) = st
<1> DEFINE n == Len(st)
           keep == {d \in DOMAIN st : \/ csp < st[d].sp
                                      \/ csp = st[d].sp /\ 0 <= n - d}
           T == {0} \cup keep
<1>1. /\ st \in Seq(Activation) /\ n \in Nat /\ DOMAIN st = 1..n
      /\ \A d \in 1..n : st[d].sp \in Int
  <2>1. st \in Seq(Activation) /\ n \in Nat /\ DOMAIN st = 1..n
    BY LenProperties DEF Good
  <2>2. \A d \in 1..n : st[d] \in Activation
    BY <2>1, ElementOfSeq
  <2> QED
    BY <2>1, <2>2 DEF Activation, Sp
<1>2. n \in T
  <2>1. CASE n = 0
    BY <2>1
  <2>2. CASE n # 0
    <3>1. n \in 1..n /\ st # <<>>
      BY <1>1, <2>2, EmptySeq
    <3>2. csp <= st[n].sp /\ 0 <= n - n
      BY <1>1, <3>1 DEF Top
    <3>3. csp < st[n].sp \/ csp = st[n].sp
      BY <1>1, <3>1, <3>2
    <3> QED
      BY <1>1, <3>1, <3>2, <3>3
  <2> QED
    BY <2>1, <2>2
<1>3. \A x \in T : x \in 0..n
  BY <1>1
<1>4. Popped(st, csp, 0) = SubSeq(st, 1, Max(T))
  BY DEF Popped
<1> HIDE DEF keep, T
<1>5. \A x \in T : n >= x
  BY <1>1, <1>3
<1>6. Max(T) = n
  <2>1. \A x \in T : (\A y \in T : x >= y) => x = n
    BY <1>1, <1>2, <1>3
  <2> QED
    BY <1>2, <1>5, <2>1 DEF Max
<1> HIDE DEF n
<1>7. SubSeq(st, 1, n) = st
  <2> DEFINE p == SubSeq(st, 1, n)
  <2>1. n \in 0..Len(st) /\ n = Len(st)
    BY <1>1 DEF n
  <2>2. p \in Seq(Activation) /\ Len(p) = n /\ \A i \in 1..n : p[i] = st[i]
    BY <1>1, <2>1, Prefix
  <2> HIDE DEF p
  <2>3. p = st
    BY <1>1, <2>1, <2>2, SeqEqual
  <2> QED
    BY <2>3 DEF p
<1> QED
  BY <1>4, <1>6, <1>7

\* It pops the activations below the stack pointer, and no other one unless its stack
\* pointer is that of a top which n asks for.
LEMMA PopsTo ==
  ASSUME NEW st, Good(st), NEW csp \in Int, NEW n \in {0, 1},
         NEW d \in 0..(Len(st) - 1), csp > st[d + 1].sp, d > 0 => csp <= st[d].sp
  PROVE  Popped(st, csp, n) = SubSeq(st, 1, d)
<1> DEFINE l == Len(st)
           keep == {e \in DOMAIN st : \/ csp < st[e].sp
                                      \/ csp = st[e].sp /\ n <= l - e}
           T == {0} \cup keep
<1>1. /\ st \in Seq(Activation) /\ l \in Nat /\ DOMAIN st = 1..l
      /\ \A e \in 1..l : st[e].sp \in Int
  <2>1. st \in Seq(Activation) /\ l \in Nat /\ DOMAIN st = 1..l
    BY LenProperties DEF Good
  <2>2. \A e \in 1..l : st[e] \in Activation
    BY <2>1, ElementOfSeq
  <2> QED
    BY <2>1, <2>2 DEF Activation, Sp
<1>2. Popped(st, csp, n) = SubSeq(st, 1, Max(T))
  BY DEF Popped
<1>3. d \in 0..(l - 1)
  OBVIOUS
<1>4. d \in T
  <2>1. CASE d = 0
    BY <2>1
  <2>2. CASE d # 0
    <3> HIDE DEF l
    <3>1. d \in 1..l /\ d > 0 /\ n <= l - d
      BY <1>1, <1>3, <2>2
    <3>2. csp < st[d].sp \/ csp = st[d].sp
      BY <1>1, <3>1
    <3> QED
      BY <1>1, <3>1, <3>2
  <2> QED
    BY <2>1, <2>2
<1>5. ASSUME NEW x \in T PROVE x \in Nat /\ x <= d
  <2>1. CASE x = 0
    BY <2>1, <1>3
  <2>2. CASE x # 0
    <3>1. x \in 1..l /\ (csp < st[x].sp \/ csp = st[x].sp)
      BY <1>1, <2>2
    <3>2. csp <= st[x].sp
      BY <1>1, <3>1
    <3> HIDE DEF T, keep
    <3>3. \A e \in 1..l : d + 1 < e => st[d + 1].sp >= st[e].sp
      <4>1. d + 1 \in 1..l
        BY <1>1, <1>3 DEF l
      <4> QED
        BY <1>1, <4>1 DEF Good, Ordered
    <3>4. ~ (d + 1 < x) /\ x # d + 1
      <4> HIDE DEF l
      <4>1. d + 1 \in 1..l
        BY <1>1, <1>3
      <4>2. st[x].sp \in Int /\ st[d + 1].sp \in Int
        BY <1>1, <3>1, <4>1
      <4> QED
        BY <3>1, <3>2, <3>3, <4>2
    <3> HIDE DEF l
    <3> QED
      BY <1>1, <1>3, <3>1, <3>4
  <2> QED
    BY <2>1, <2>2
<1> HIDE DEF l, keep, T
<1>6. Max(T) = d
  <2>1. \A x \in T : d >= x
    BY <1>1, <1>3, <1>5
  <2>2. \A x \in T : (\A y \in T : x >= y) => x = d
    BY <1>1, <1>3, <1>4, <1>5
  <2> QED
    BY <1>4, <2>1, <2>2 DEF Max
<1> QED
  BY <1>2, <1>6

\* A stack and the activations it names are cut at the same place.
LEMMA CutShadows ==
  ASSUME NEW st \in Seq(Activation), NEW fr \in Seq(Frame), Shadows(st, fr),
         NEW d \in 0..Len(fr)
  PROVE  Shadows(SubSeq(st, 1, d), SubSeq(fr, 1, d))
<1>1. d \in 0..Len(st) /\ d \in Nat /\ Len(fr) \in Nat /\ d <= Len(fr)
  BY LenProperties DEF Shadows
<1>2. Len(SubSeq(st, 1, d)) = d /\ \A i \in 1..d : SubSeq(st, 1, d)[i] = st[i]
  BY <1>1, Prefix
<1>3. Len(SubSeq(fr, 1, d)) = d /\ \A i \in 1..d : SubSeq(fr, 1, d)[i] = fr[i]
  BY Prefix
<1> QED
  BY <1>1, <1>2, <1>3 DEF Shadows

\* push_stack names one activation more.
LEMMA PushShadows ==
  ASSUME NEW st, Good(st), NEW fr \in Seq(Frame), Shadows(st, fr),
         NEW bb \in Block, NEW at \in Sp, lastBB[current] \in Block,
         NEW new \in Frame, new.fn = Code[bb].fn, new.sp = at
  PROVE  Shadows(Pushed(st, bb, at), Append(fr, new))
<1> DEFINE n == Len(st)
           ret == Code[lastBB[current]].after
           called == st # <<>> /\ Code[lastBB[current]].exit = "BBCALL"
           caller == IF called THEN [st EXCEPT ![n].ret = ret] ELSE st
           act == [fn |-> Code[bb].fn, sp |-> at, ret |-> NoBlock]
<1>1. /\ st \in Seq(Activation) /\ n \in Nat /\ n = Len(fr)
      /\ \A d \in 1..n : st[d] \in Activation
  BY LenProperties, ElementOfSeq DEF Good, Shadows
<1>2. act \in Activation
  BY DEF Activation
<1>3. /\ caller \in Seq(Activation) /\ Len(caller) = n
      /\ \A d \in 1..n : caller[d].sp = st[d].sp /\ caller[d].fn = st[d].fn
  <2>1. CASE ~ called
    BY <1>1, <2>1
  <2>2. CASE called
    <3> DEFINE e == [st[n] EXCEPT !.ret = ret]
    <3>1. n \in 1..n
      BY <1>1, <2>2, EmptySeq
    <3>2. e \in Activation /\ e.sp = st[n].sp /\ e.fn = st[n].fn
      <4>1. ret \in ReturnAddress
        BY <2>2 DEF ReturnAddress
      <4> QED
        BY <1>1, <3>1, <4>1 DEF Activation
    <3>3. caller = [st EXCEPT ![n] = e]
      BY <2>2
    <3> HIDE DEF e, caller
    <3>4. /\ caller \in Seq(Activation) /\ Len(caller) = n
          /\ \A d \in 1..n : caller[d] = IF d = n THEN e ELSE st[d]
      BY <1>1, <3>1, <3>2, <3>3, ExceptSeq
    <3> QED
      BY <3>2, <3>4
  <2> QED
    BY <2>1, <2>2
<1> DEFINE all == Append(caller, act)
           hist == Append(fr, new)
<1>4. Pushed(st, bb, at) = all
  BY DEF Pushed
<1>5. act.fn = Code[bb].fn /\ act.sp = at
  OBVIOUS
<1> HIDE DEF caller, called, act
<1>6. Len(all) = n + 1 /\ (\A d \in 1..n : all[d] = caller[d]) /\ all[n + 1] = act
  BY <1>1, <1>2, <1>3, AppendProperties
<1>7. Len(hist) = n + 1 /\ (\A d \in 1..n : hist[d] = fr[d]) /\ hist[n + 1] = new
  BY <1>1, AppendProperties
<1> HIDE DEF all, hist
<1>8. \A d \in 1..n : st[d].fn = fr[d].fn /\ st[d].sp = fr[d].sp
  BY <1>1 DEF Shadows
<1>9. \A d \in 1..(n + 1) : d \in 1..n \/ d = n + 1
  BY <1>1
<1>10. Shadows(all, hist)
  BY <1>3, <1>5, <1>6, <1>7, <1>8, <1>9 DEF Shadows
<1> QED
  BY <1>4, <1>10 DEF hist

\* A thread leaves some of its activations.
LEMMA FramesCut ==
  ASSUME NEW fr, NEW sp, FramesOK(fr, sp), NEW d \in 0..Len(fr),
         NEW csp, d > 0 => csp <= fr[d].sp
  PROVE  FramesOK(SubSeq(fr, 1, d), csp)
<1> DEFINE p == SubSeq(fr, 1, d)
<1>1. fr \in Seq(Frame) /\ Len(fr) \in Nat
  BY LenProperties DEF FramesOK
<1>2. p \in Seq(Frame) /\ Len(p) = d /\ \A i \in 1..d : p[i] = fr[i]
  BY <1>1, Prefix
<1> HIDE DEF p
<1>3. p # <<>> => d \in 1..d /\ d > 0
  BY <1>1, <1>2, EmptySeq
<1>4. p # <<>> => csp <= Top(p).sp
  BY <1>2, <1>3 DEF Top
<1>5. \A e \in 1..d : p[e].ret # NoBlock => p[e].sp < MaxSp
  BY <1>1, <1>2 DEF FramesOK
<1>6. \A e \in 2..d : Resolves(p[e].fn) => p[e].sp = p[e - 1].sp
  <2> SUFFICES ASSUME NEW e \in 2..d, Resolves(p[e].fn) PROVE p[e].sp = p[e - 1].sp
    OBVIOUS
  <2>1. e \in 1..d /\ e - 1 \in 1..d /\ e \in 2..Len(fr)
    BY <1>1
  <2>2. p[e] = fr[e] /\ p[e - 1] = fr[e - 1]
    BY <1>2, <2>1
  <2> QED
    BY <2>1, <2>2 DEF FramesOK
<1>7. FramesOK(p, csp)
  BY <1>2, <1>4, <1>5, <1>6 DEF FramesOK
<1> QED
  BY <1>7 DEF p

\* A thread begins an activation.
LEMMA FramesPush ==
  ASSUME NEW fr, NEW sp, FramesOK(fr, sp), NEW new \in Frame, NEW csp, csp <= new.sp,
         new.ret # NoBlock => new.sp < MaxSp,
         fr # <<>> => (Resolves(new.fn) => new.sp = Top(fr).sp)
  PROVE  FramesOK(Append(fr, new), csp)
<1> DEFINE n == Len(fr)
           a == Append(fr, new)
<1>1. fr \in Seq(Frame) /\ n \in Nat
  BY LenProperties DEF FramesOK
<1>2. a \in Seq(Frame) /\ Len(a) = n + 1 /\ (\A i \in 1..n : a[i] = fr[i]) /\ a[n + 1] = new
  BY <1>1, AppendProperties
<1> HIDE DEF a
<1>3. csp <= Top(a).sp
  BY <1>2 DEF Top
<1>4. \A e \in 1..(n + 1) : a[e].ret # NoBlock => a[e].sp < MaxSp
  <2>1. \A e \in 1..(n + 1) : e \in 1..n \/ e = n + 1
    BY <1>1
  <2> QED
    BY <1>2, <2>1 DEF FramesOK
<1>5. \A e \in 2..(n + 1) : Resolves(a[e].fn) => a[e].sp = a[e - 1].sp
  <2> SUFFICES ASSUME NEW e \in 2..(n + 1), Resolves(a[e].fn) PROVE a[e].sp = a[e - 1].sp
    OBVIOUS
  <2>1. CASE e = n + 1
    <3>1. n \in 1..n /\ e - 1 = n /\ fr # <<>>
      BY <1>1, <2>1, EmptySeq
    <3>2. a[e] = new /\ a[e - 1] = fr[n]
      BY <1>2, <2>1, <3>1
    <3> QED
      BY <3>1, <3>2 DEF Top
  <2>2. CASE e # n + 1
    <3>1. e \in 2..n /\ e \in 1..n /\ e - 1 \in 1..n
      BY <1>1, <2>2
    <3>2. a[e] = fr[e] /\ a[e - 1] = fr[e - 1]
      BY <1>2, <3>1
    <3> QED
      BY <3>1, <3>2 DEF FramesOK
  <2> QED
    BY <2>1, <2>2
<1>6. FramesOK(a, csp)
  BY <1>2, <1>3, <1>4, <1>5 DEF FramesOK
<1> QED
  BY <1>6 DEF a

\* The top activation gives its place to another.
LEMMA TopReplaced ==
  ASSUME NEW fr \in Seq(Frame), fr # <<>>, NEW new \in Frame
  PROVE  [fr EXCEPT ![Len(fr)] = new] = Append(SubSeq(fr, 1, Len(fr) - 1), new)
<1> DEFINE n == Len(fr)
           p == SubSeq(fr, 1, n - 1)
           a == Append(p, new)
           b == [fr EXCEPT ![n] = new]
<1>1. n \in Nat /\ n \in 1..n /\ n - 1 \in 0..n /\ n # 0
  BY LenProperties, EmptySeq
<1>2. p \in Seq(Frame) /\ Len(p) = n - 1 /\ \A i \in 1..(n - 1) : p[i] = fr[i]
  BY <1>1, Prefix
<1>3. b \in Seq(Frame) /\ Len(b) = n /\ \A i \in 1..n : b[i] = IF i = n THEN new ELSE fr[i]
  BY <1>1, ExceptSeq
<1> HIDE DEF p, b
<1>4. /\ a \in Seq(Frame) /\ Len(a) = n - 1 + 1
      /\ (\A i \in 1..(n - 1) : a[i] = p[i]) /\ a[n - 1 + 1] = new
  BY <1>1, <1>2, AppendProperties
<1> HIDE DEF a
<1>5. n - 1 + 1 = n /\ \A i \in 1..n : i = n \/ i \in 1..(n - 1)
  BY <1>1
<1>6. \A i \in 1..n : a[i] = b[i]
  BY <1>2, <1>3, <1>4, <1>5
<1>7. Len(a) = n /\ Len(b) = n
  BY <1>3, <1>4, <1>5
<1>8. a = b
  BY <1>3, <1>4, <1>6, <1>7, SeqEqual
<1> QED
  BY <1>8 DEF a, b, p

-----------------------------------------------------------------------------
(* What BB_start makes of a block, by how the program has come to it.      *)

\* It is the running thread's affair alone, and the block that runs is known.
LEMMA BlockStarts ==
  ASSUME IInv, NEW bb \in Block, NEW csp \in Sp, NEW stray \in BOOLEAN,
         BBStart(bb, csp, stray)
  PROVE  /\ IInv' /\ current \in Thread /\ ~ halted
         /\ UNCHANGED <<current, alive, saved>>
         /\ \A t \in Thread : t # current => stack'[t] = stack[t] /\ lastBB'[t] = lastBB[t]
         /\ ~ halted' => lastBB'[current] = bb /\ lastExit' \in Jump
<1>1. Next
  BY DEF Next
<1>2. IInv'
  BY <1>1, IInvNext
<1>3. Running
  BY DEF BBStart, Return, ReturnToNobody, Call, CallTooDeep, Continue
<1>4. current \in Thread /\ ~ halted
  BY <1>3, RunningStack DEF Running
<1>5. /\ stack \in [Thread -> Seq(Activation)]
      /\ lastBB \in [Thread -> Block \cup {NoBlock}] /\ Code[bb].exit \in Jump
  BY CodeAssumption DEF IInv, TypeOK, BlockInfo
<1>6. \/ halted' = TRUE /\ UNCHANGED <<current, alive, saved, lastBB, stack>>
      \/ /\ UNCHANGED <<current, alive, saved>> /\ Runs(bb)
         /\ \E st : stack' = [stack EXCEPT ![current] = st]
  BY DEF BBStart, Return, ReturnToNobody, Call, CallTooDeep, Continue, Keeps
<1>7. CASE halted' = TRUE /\ UNCHANGED <<current, alive, saved, lastBB, stack>>
  BY <1>2, <1>4, <1>7
<1>8. CASE UNCHANGED <<current, alive, saved>> /\ Runs(bb)
           /\ \E st : stack' = [stack EXCEPT ![current] = st]
  <2>1. lastExit' \in Jump /\ lastBB'[current] = bb
    BY <1>4, <1>5, <1>8 DEF Runs, Jump
  <2>2. \A t \in Thread : t # current => stack'[t] = stack[t] /\ lastBB'[t] = lastBB[t]
    BY <1>5, <1>8 DEF Runs
  <2> QED
    BY <1>2, <1>4, <1>8, <2>1, <2>2
<1> QED
  BY <1>6, <1>7, <1>8

\* After a call.
LEMMA TracksCall ==
  ASSUME IInv, NEW bb \in Block, NEW csp \in Sp, BBStart(bb, csp, FALSE),
         Arrived = "BBCALL", stack[current] # <<>> => csp <= Top(stack[current]).sp
  PROVE  ~ halted' => stack'[current] = Pushed(stack[current], bb, csp)
<1>1. ~ Emulated(bb, csp, FALSE)
  BY DEF Emulated
<1>2. StackLeft(bb, csp, FALSE) = stack[current] /\ SpLeft(bb, csp, FALSE) = csp
  BY <1>1 DEF LeavesResolver, StackLeft, SpLeft
<1>3. Running
  BY DEF BBStart, Return, ReturnToNobody, Call, CallTooDeep, Continue
<1>4. Good(stack[current]) /\ current \in Thread /\ stack \in [Thread -> Seq(Activation)]
  BY <1>3, RunningStack DEF IInv, TypeOK
<1>5. Popped(stack[current], csp, 0) = stack[current]
  <2>1. csp \in Int
    BY DEF Sp
  <2> QED
    BY <1>4, <2>1, PopsNothing
<1>6. ~ Continue(bb, csp, FALSE)
  BY <1>2, <1>5 DEF Continue
<1>7. ~ Return(bb, csp, FALSE) /\ ~ ReturnToNobody(bb)
  BY DEF Return, ReturnToNobody
<1>8. CallTooDeep(bb, csp, FALSE) => halted'
  BY DEF CallTooDeep
<1>9. Call(bb, csp, FALSE) => stack' = [stack EXCEPT ![current] = Pushed(stack[current], bb, csp)]
  BY <1>1, <1>2 DEF Call
<1> QED
  BY <1>4, <1>6, <1>7, <1>8, <1>9 DEF BBStart

\* After a move that is taken for a call: the new activation gets the stack pointer of the
\* top, once the resolver has been popped.
LEMMA TracksEmulated ==
  ASSUME IInv, NEW bb \in Block, NEW csp \in Sp, BBStart(bb, csp, FALSE),
         Emulated(bb, csp, FALSE), NEW st, NEW sp, Good(st), sp \in Int,
         st = StackLeft(bb, csp, FALSE), sp = SpLeft(bb, csp, FALSE),
         st # <<>> => sp <= Top(st).sp
  PROVE  ~ halted' => stack'[current] = Pushed(st, bb, IF st # <<>> THEN Top(st).sp ELSE sp)
<1>1. Running
  BY DEF BBStart, Return, ReturnToNobody, Call, CallTooDeep, Continue
<1>2. current \in Thread /\ stack \in [Thread -> Seq(Activation)]
  BY <1>1, RunningStack DEF IInv, TypeOK
<1>3. Popped(st, sp, 0) = st
  BY PopsNothing
<1>4. ~ Continue(bb, csp, FALSE)
  BY <1>3 DEF Continue
<1>5. ~ Return(bb, csp, FALSE) /\ ~ ReturnToNobody(bb)
  <2>1. Arrived = "BBRET" =>
          stack[current] # <<>> /\ ReturnPops(stack[current], bb, csp, FALSE) = 0
    BY DEF Emulated
  <2>2. ~ (0 > 0)
    OBVIOUS
  <2> QED
    BY <2>1, <2>2, Zenon DEF Return, ReturnToNobody
<1>6. CallTooDeep(bb, csp, FALSE) => halted'
  BY DEF CallTooDeep
<1>7. Call(bb, csp, FALSE) =>
        stack' = [stack EXCEPT ![current] =
                    Pushed(st, bb, IF st # <<>> THEN Top(st).sp ELSE sp)]
  BY DEF Call
<1> QED
  BY <1>2, <1>4, <1>5, <1>6, <1>7 DEF BBStart

\* After a return to a stack pointer above that of the top.
LEMMA TracksReturn ==
  ASSUME IInv, NEW bb \in Block, NEW csp \in Sp, BBStart(bb, csp, FALSE),
         Arrived = "BBRET", stack[current] # <<>>, csp > Top(stack[current]).sp,
         Top(stack[current]).sp \in Int
  PROVE  ~ halted' => stack'[current] = Popped(stack[current], csp, 1)
<1>1. ReturnPops(stack[current], bb, csp, FALSE) = 1
  <2>1. csp \in Int
    BY DEF Sp
  <2>2. ~ (csp < Top(stack[current]).sp)
    BY <2>1
  <2> QED
    BY <2>2 DEF ReturnPops
<1>2. ~ Emulated(bb, csp, FALSE)
  <2>1. 1 # 0 /\ "BBRET" \in {"BBCALL", "BBRET"}
    OBVIOUS
  <2> QED
    BY <1>1, <2>1, Zenon DEF Emulated
<1>3. Running
  BY DEF BBStart, Return, ReturnToNobody, Call, CallTooDeep, Continue
<1>4. current \in Thread /\ stack \in [Thread -> Seq(Activation)]
  BY <1>3, RunningStack DEF IInv, TypeOK
<1>5. ~ Call(bb, csp, FALSE) /\ ~ CallTooDeep(bb, csp, FALSE) /\ ~ Continue(bb, csp, FALSE)
      /\ ~ ReturnToNobody(bb)
  BY <1>2 DEF Call, CallTooDeep, Continue, ReturnToNobody
<1>6. Return(bb, csp, FALSE) =>
        stack' = [stack EXCEPT ![current] = Popped(stack[current], csp, 1)]
  BY <1>1 DEF Return
<1> QED
  BY <1>4, <1>5, <1>6 DEF BBStart

\* After a move that is no call and no return, or one that leaves activations.
LEMMA TracksPop ==
  ASSUME IInv, NEW bb \in Block, NEW csp \in Sp, BBStart(bb, csp, FALSE),
         Arrived \notin {"BBCALL", "BBRET"}, ~ LeavesResolver(bb, csp, FALSE),
         \/ ~ Emulated(bb, csp, FALSE)
         \/ Popped(stack[current], csp, 0) # stack[current]
  PROVE  ~ halted' => stack'[current] = Popped(stack[current], csp, 0)
<1>1. StackLeft(bb, csp, FALSE) = stack[current] /\ SpLeft(bb, csp, FALSE) = csp
  BY DEF StackLeft, SpLeft
<1>2. Running
  BY DEF BBStart, Return, ReturnToNobody, Call, CallTooDeep, Continue
<1>3. current \in Thread /\ stack \in [Thread -> Seq(Activation)]
  BY <1>2, RunningStack DEF IInv, TypeOK
<1>4. ~ Call(bb, csp, FALSE) /\ ~ CallTooDeep(bb, csp, FALSE)
  BY <1>1 DEF Call, CallTooDeep
<1>5. ~ Return(bb, csp, FALSE) /\ ~ ReturnToNobody(bb)
  BY DEF Return, ReturnToNobody
<1>6. Continue(bb, csp, FALSE) =>
        stack' = [stack EXCEPT ![current] = Popped(stack[current], csp, 0)]
  BY <1>1 DEF Continue
<1> QED
  BY <1>3, <1>4, <1>5, <1>6 DEF BBStart

-----------------------------------------------------------------------------
(* The moves of the program.                                               *)

\* A thread that the tracker follows, before a move.
LEMMA BeforeMove ==
  ASSUME ProgramInv, NEW jump \in Jump, LeftBy(jump)
  PROVE  /\ IInv /\ Running /\ current \in Thread /\ ~ lost[current]
         /\ FramesOK(Mine, rsp[current]) /\ Shadows(stack[current], Mine)
         /\ Mine \in Seq(Frame) /\ rsp[current] \in Sp
         /\ Good(stack[current]) /\ stack[current] \in Seq(Activation)
         /\ lastBB[current] \in Block /\ Arrived = jump
         /\ Len(Mine) \in Nat /\ (Mine = <<>> <=> stack[current] = <<>>)
         /\ Mine # <<>> => /\ Len(Mine) > 0 /\ Top(Mine) \in Frame
                           /\ Top(stack[current]).sp = Top(Mine).sp
                           /\ rsp[current] <= Top(Mine).sp
                           /\ Top(Mine).ret # NoBlock => Top(Mine).sp < MaxSp
<1>1. IInv /\ Running /\ ~ lost[current] /\ left[current] = jump
  BY DEF ProgramInv, LeftBy, Running
<1>2. current \in Thread /\ Good(stack[current])
  BY <1>1, RunningStack
<1>3. Followed(current) /\ lastExit = jump
  BY <1>1, <1>2 DEF ProgramInv, Running
<1>4. jump # "NONE"
  BY DEF Jump
<1>5. lastBB[current] \in Block
  BY <1>1, <1>2, <1>3, <1>4 DEF Followed, IInv, TypeOK
<1>6. Arrived = jump
  BY <1>3, <1>5, NamesAssumption DEF Arrived
<1>7. /\ FramesOK(Mine, rsp[current]) /\ Shadows(stack[current], Mine)
      /\ Mine \in Seq(Frame) /\ stack[current] \in Seq(Activation) /\ rsp[current] \in Sp
  BY <1>2, <1>3 DEF Followed, FramesOK, Mine, Good, ProgramInv, ProgramTypes
<1>8. Len(Mine) \in Nat /\ Len(stack[current]) = Len(Mine)
  BY <1>7, LenProperties DEF Shadows
<1>9. Mine = <<>> <=> stack[current] = <<>>
  BY <1>7, <1>8, EmptySeq
<1>10. ASSUME Mine # <<>>
       PROVE  /\ Len(Mine) > 0 /\ Top(Mine) \in Frame
              /\ Top(stack[current]).sp = Top(Mine).sp
              /\ rsp[current] <= Top(Mine).sp
              /\ Top(Mine).ret # NoBlock => Top(Mine).sp < MaxSp
  <2>1. Len(Mine) \in 1..Len(Mine) /\ Len(Mine) > 0
    BY <1>7, <1>8, <1>10, EmptySeq
  <2>2. Top(Mine) \in Frame
    BY <1>7, <2>1, ElementOfSeq DEF Top
  <2>3. Top(stack[current]).sp = Top(Mine).sp
    BY <1>7, <1>8, <2>1 DEF Shadows, Top
  <2>4. rsp[current] <= Top(Mine).sp /\ (Top(Mine).ret # NoBlock => Top(Mine).sp < MaxSp)
    BY <1>7, <1>10, <2>1 DEF FramesOK, Top
  <2> QED
    BY <2>1, <2>2, <2>3, <2>4
<1> QED
  BY <1>1, <1>2, <1>5, <1>6, <1>7, <1>8, <1>9, <1>10

\* An activation in the place of the top one.
LEMMA InPlaceIs ==
  ASSUME ProgramInv, NEW jump \in Jump, LeftBy(jump), NEW bb \in Block
  PROVE  /\ InPlace(bb) \in Frame /\ InPlace(bb).fn = Code[bb].fn
         /\ InPlace(bb).sp = IF Mine = <<>> THEN rsp[current] ELSE Top(Mine).sp
         /\ InPlace(bb).ret # NoBlock => InPlace(bb).sp < MaxSp
<1>1. /\ rsp[current] \in Sp
      /\ Mine # <<>> => /\ Top(Mine) \in Frame
                        /\ Top(Mine).ret # NoBlock => Top(Mine).sp < MaxSp
  BY BeforeMove
<1>2. CASE Mine = <<>>
  <2>1. InPlace(bb) = [fn |-> Code[bb].fn, sp |-> rsp[current], ret |-> NoBlock]
    BY <1>2 DEF InPlace
  <2> QED
    BY <1>1, <1>2, <2>1 DEF Frame
<1>3. CASE Mine # <<>>
  <2>1. InPlace(bb) = [Top(Mine) EXCEPT !.fn = Code[bb].fn]
    BY <1>3 DEF InPlace
  <2> QED
    BY <1>1, <1>3, <2>1 DEF Frame
<1> QED
  BY <1>2, <1>3

\* A move after which the tracker's stack names the thread's activations again.
LEMMA AfterMove ==
  ASSUME ProgramInv, NEW bb \in Block, NEW csp \in Sp, NEW fr, ~ lost[current],
         GoOn(bb, csp, fr), FramesOK(fr, csp), ~ halted' => Shadows(stack'[current], fr)
  PROVE  ProgramInv'
<1>1. BBStart(bb, csp, FALSE) /\ IInv
  BY DEF GoOn, ProgramInv
<1>2. /\ IInv' /\ current \in Thread /\ ~ halted
      /\ UNCHANGED <<current, alive, saved>>
      /\ \A t \in Thread : t # current => stack'[t] = stack[t] /\ lastBB'[t] = lastBB[t]
      /\ ~ halted' => lastBB'[current] = bb /\ lastExit' \in Jump
  <2>1. FALSE \in BOOLEAN
    OBVIOUS
  <2> QED
    BY <1>1, <2>1, BlockStarts
<1>3. /\ frames \in [Thread -> Seq(Frame)] /\ rsp \in [Thread -> Sp]
      /\ left \in [Thread -> Jump \cup {"NONE"}] /\ lost \in [Thread -> BOOLEAN]
  BY DEF ProgramInv, ProgramTypes
<1>4. /\ frames' = [frames EXCEPT ![current] = fr]
      /\ rsp' = [rsp EXCEPT ![current] = csp]
      /\ left' = [left EXCEPT ![current] = lastExit'] /\ UNCHANGED lost
  BY DEF GoOn
<1>5. fr \in Seq(Frame) /\ lastExit' \in Jump \cup {"NONE"}
  BY <1>2 DEF FramesOK, IInv, TypeOK
<1>6. ProgramTypes'
  BY <1>3, <1>4, <1>5 DEF ProgramTypes
<1>7. ASSUME NEW t \in Thread, ~ lost'[t]
      PROVE  left'[t] = IF t = current' THEN lastExit' ELSE saved'[t]
  BY <1>2, <1>3, <1>4, <1>7 DEF ProgramInv
<1>8. ASSUME NEW t \in Thread, ~ lost'[t], ~ halted'
      PROVE  Followed(t)'
  <2>1. CASE t = current
    <3>1. /\ frames'[t] = fr /\ rsp'[t] = csp /\ left'[t] = lastExit'
          /\ lastBB'[t] = bb /\ lastExit' # "NONE" /\ bb # NoBlock
      BY <1>2, <1>3, <1>4, <1>8, <2>1, NamesAssumption DEF Jump
    <3> QED
      BY <1>8, <2>1, <3>1 DEF Followed
  <2>2. CASE t # current
    <3>1. /\ frames'[t] = frames[t] /\ rsp'[t] = rsp[t] /\ left'[t] = left[t]
          /\ lastBB'[t] = lastBB[t] /\ stack'[t] = stack[t]
      BY <1>2, <1>3, <1>4, <2>2
    <3>2. Followed(t)
      BY <1>2, <1>4, <1>8 DEF ProgramInv
    <3> QED
      BY <3>1, <3>2 DEF Followed
  <2> QED
    BY <2>1, <2>2
<1> QED
  BY <1>2, <1>6, <1>7, <1>8 DEF ProgramInv

\* A jump that debug information or sections give away is taken for a call.
LEMMA JumpIsEmulated ==
  ASSUME NEW bb \in Block, NEW csp, lastBB[current] \in Block, Arrived = "BBOTHER", Visible(bb)
  PROVE  Emulated(bb, csp, FALSE)
<1>1. Code[bb].home # Code[lastBB[current]].home \/ Code[bb].entry
  BY DEF Visible, Last
<1>2. lastBB[current] # NoBlock /\ "BBOTHER" \notin {"BBCALL", "BBRET"}
  BY NamesAssumption
<1> QED
  BY <1>1, <1>2, Zenon DEF Emulated

\* So is a RET that is used as a jump, since no activation expects to return to its target.
LEMMA RetIsEmulated ==
  ASSUME NEW bb \in Block, NEW csp \in Sp, lastBB[current] \in Block, Arrived = "BBRET",
         NEW st, st = stack[current], st \in Seq(Activation), st # <<>>,
         Top(st).sp \in Sp, csp <= Top(st).sp, Unexpected(bb)
  PROVE  Emulated(bb, csp, FALSE)
<1> DEFINE n == Len(st)
           level == {d \in 1..n : \A e \in d..n : st[e].sp = csp}
           match == {d \in level : st[d].ret = bb}
<1>1. match = {}
  <2>1. \A d \in 1..n : st[d] \in Activation
    BY LenProperties, ElementOfSeq
  <2>2. bb \notin ReturnAddress \cup {NoBlock}
    BY NamesAssumption DEF Unexpected
  <2>3. \A d \in 1..n : st[d].ret # bb
    BY <2>1, <2>2 DEF Activation
  <2> QED
    BY <2>3
<1>2. ~ (csp > Top(st).sp)
  BY DEF Sp
<1>3. ReturnPops(st, bb, csp, FALSE)
        = IF csp < Top(st).sp THEN 0
          ELSE IF csp > Top(st).sp THEN 1
          ELSE IF match # {} THEN n + 1 - Max(match)
          ELSE IF level = 1..n /\ FALSE THEN n + 1 ELSE 0
  BY Zenon DEF ReturnPops
<1> HIDE DEF match, level
<1>4. ReturnPops(st, bb, csp, FALSE) = 0
  BY <1>1, <1>2, <1>3
<1>5. lastBB[current] # NoBlock
  BY NamesAssumption
<1> QED
  BY <1>4, <1>5, Zenon DEF Emulated

\* The first block of a thread.
LEMMA MoveStart ==
  ASSUME ProgramInv, NEW bb \in Block, ProgramStart(bb)
  PROVE  ProgramInv'
<1>1. /\ IInv /\ Running /\ ~ lost[current] /\ left[current] = "NONE"
      /\ BBStart(bb, MaxSp, FALSE) /\ GoOn(bb, MaxSp, <<>>)
  BY DEF ProgramInv, ProgramStart, LeftBy, Running, GoOn
<1>2. current \in Thread /\ Good(stack[current])
  BY <1>1, RunningStack
<1>3. lastBB[current] = NoBlock /\ Mine = <<>> /\ Shadows(stack[current], Mine)
  BY <1>1, <1>2 DEF ProgramInv, Running, Followed, Mine
<1>4. stack[current] = <<>>
  BY <1>2, <1>3, EmptySeq DEF Shadows, Good
<1>5. Arrived = "NONE" /\ "NONE" \notin {"BBCALL", "BBRET"} /\ ~ Emulated(bb, MaxSp, FALSE)
  BY <1>3 DEF Arrived, Emulated
<1>6. MaxSp \in Sp /\ MaxSp \in Int
  BY SizesAssumption DEF Sp
<1>7. ~ LeavesResolver(bb, MaxSp, FALSE)
  BY <1>5 DEF LeavesResolver
<1>8. ~ halted' => stack'[current] = <<>>
  <2>1. Popped(stack[current], MaxSp, 0) = stack[current]
    BY <1>2, <1>4, <1>6, PopsNothing
  <2> QED
    BY <1>1, <1>4, <1>5, <1>6, <1>7, <2>1, TracksPop
<1>9. FramesOK(<<>>, MaxSp) /\ Shadows(<<>>, <<>>)
  BY EmptySeq DEF FramesOK, Shadows
<1> QED
  BY <1>1, <1>6, <1>8, <1>9, AfterMove

LEMMA MoveCall ==
  ASSUME ProgramInv, NEW bb \in Block, ProgramCall(bb)
  PROVE  ProgramInv'
<1> DEFINE sp == rsp[current] - 1
           new == [fn |-> Code[bb].fn, sp |-> sp, ret |-> Code[Last].after]
<1>1. /\ LeftBy("BBCALL") /\ "BBCALL" \in Jump /\ ~ Code[bb].resolver /\ rsp[current] > 1
      /\ GoOn(bb, sp, Append(Mine, new))
  BY DEF ProgramCall, Jump
<1>2. /\ IInv /\ current \in Thread /\ ~ lost[current]
      /\ FramesOK(Mine, rsp[current]) /\ Shadows(stack[current], Mine)
      /\ Mine \in Seq(Frame) /\ rsp[current] \in Sp
      /\ Good(stack[current]) /\ lastBB[current] \in Block /\ Arrived = "BBCALL"
      /\ (Mine = <<>> <=> stack[current] = <<>>)
      /\ Mine # <<>> => Top(stack[current]).sp = Top(Mine).sp /\ rsp[current] <= Top(Mine).sp
                        /\ Top(Mine) \in Frame
  BY <1>1, BeforeMove
<1>3. sp \in Sp /\ sp \in Int /\ sp < MaxSp /\ sp < rsp[current]
  BY <1>1, <1>2, SizesAssumption DEF Sp
<1>4. new \in Frame /\ new.fn = Code[bb].fn /\ new.sp = sp
  BY <1>2, <1>3, CodeAssumption DEF Frame, Last, BlockInfo
<1>5. ~ Resolves(new.fn)
  BY <1>1, <1>4, ResolverAssumption DEF Resolves
<1> HIDE DEF sp, new
<1>6. stack[current] # <<>> => sp <= Top(stack[current]).sp
  BY <1>2, <1>3 DEF Frame, Sp
<1>7. ~ halted' => stack'[current] = Pushed(stack[current], bb, sp)
  BY <1>1, <1>2, <1>3, <1>6, TracksCall DEF GoOn
<1>8. Shadows(Pushed(stack[current], bb, sp), Append(Mine, new))
  BY <1>2, <1>3, <1>4, PushShadows
<1>9. FramesOK(Append(Mine, new), sp)
  <2>1. sp <= new.sp /\ new.sp < MaxSp
    BY <1>3, <1>4
  <2> QED
    BY <1>2, <1>4, <1>5, <2>1, FramesPush
<1> QED
  BY <1>1, <1>2, <1>3, <1>7, <1>8, <1>9, AfterMove

LEMMA MoveReturn ==
  ASSUME ProgramInv, ProgramReturn
  PROVE  ProgramInv'
<1> DEFINE bb == Top(Mine).ret
           csp == Top(Mine).sp + 1
<1>1. PICK d \in 0..(Len(Mine) - 1) :
        /\ Mine[d + 1].sp = Top(Mine).sp /\ (d > 0 => Mine[d].sp > Top(Mine).sp)
        /\ GoOn(bb, csp, SubSeq(Mine, 1, d))
  BY DEF ProgramReturn
<1>2. LeftBy("BBRET") /\ "BBRET" \in Jump /\ Mine # <<>> /\ bb # NoBlock
  BY DEF ProgramReturn, Jump
<1>3. /\ IInv /\ current \in Thread /\ ~ lost[current]
      /\ FramesOK(Mine, rsp[current]) /\ Shadows(stack[current], Mine)
      /\ Mine \in Seq(Frame) /\ Len(Mine) \in Nat /\ Arrived = "BBRET"
      /\ Good(stack[current]) /\ stack[current] \in Seq(Activation)
      /\ stack[current] # <<>>
      /\ Top(Mine) \in Frame /\ Top(stack[current]).sp = Top(Mine).sp
      /\ Top(Mine).sp < MaxSp
  BY <1>2, BeforeMove
<1>4. bb \in Block /\ csp \in Sp /\ csp \in Int /\ csp > Top(Mine).sp /\ Top(Mine).sp \in Int
  BY <1>2, <1>3, SizesAssumption DEF Frame, Sp
<1>5. /\ d \in 0..(Len(stack[current]) - 1) /\ d \in 0..Len(Mine)
      /\ csp > stack[current][d + 1].sp
      /\ d > 0 => csp <= stack[current][d].sp
  <2>1. /\ d \in 0..(Len(stack[current]) - 1) /\ d \in 0..Len(Mine)
        /\ d + 1 \in 1..Len(Mine) /\ (d > 0 => d \in 1..Len(Mine))
    BY <1>3 DEF Shadows
  <2>2. csp > stack[current][d + 1].sp
    BY <1>1, <1>3, <1>4, <2>1 DEF Shadows
  <2>3. ASSUME d > 0 PROVE csp <= stack[current][d].sp
    <3>1. Mine[d] \in Frame /\ Mine[d].sp = stack[current][d].sp /\ Mine[d].sp > Top(Mine).sp
      BY <1>1, <1>3, <2>1, <2>3, ElementOfSeq DEF Shadows
    <3>2. Mine[d].sp \in Int /\ Top(Mine).sp \in Int
      BY <1>4, <3>1 DEF Frame, Sp
    <3> QED
      BY <3>1, <3>2
  <2> QED
    BY <2>1, <2>2, <2>3
<1> HIDE DEF bb, csp
<1>6. Popped(stack[current], csp, 1) = SubSeq(stack[current], 1, d)
  BY <1>3, <1>4, <1>5, PopsTo
<1>7. ~ halted' => stack'[current] = SubSeq(stack[current], 1, d)
  <2>1. BBStart(bb, csp, FALSE)
    BY <1>1 DEF GoOn
  <2> QED
    BY <1>3, <1>4, <1>6, <2>1, TracksReturn
<1>8. Shadows(SubSeq(stack[current], 1, d), SubSeq(Mine, 1, d))
  BY <1>3, <1>5, CutShadows
<1>9. FramesOK(SubSeq(Mine, 1, d), csp)
  <2>1. d > 0 => csp <= Mine[d].sp
    BY <1>3, <1>5 DEF Shadows
  <2> QED
    BY <1>3, <1>5, <2>1, FramesCut
<1> QED
  BY <1>1, <1>3, <1>4, <1>7, <1>8, <1>9, AfterMove

LEMMA MoveJump ==
  ASSUME ProgramInv, NEW bb \in Block, NEW csp \in Sp, ProgramJump(bb, csp)
  PROVE  ProgramInv'
<1>1. /\ LeftBy("BBOTHER") /\ "BBOTHER" \in Jump /\ ~ Code[Last].resolver
      /\ Code[bb].home = Code[Last].home /\ bb \notin FirstBlock /\ csp \in WithinTop
      /\ GoOn(bb, csp, Mine)
  BY DEF ProgramJump, Jump
<1>2. /\ IInv /\ current \in Thread /\ ~ lost[current]
      /\ FramesOK(Mine, rsp[current]) /\ Shadows(stack[current], Mine)
      /\ Mine \in Seq(Frame) /\ Good(stack[current])
      /\ lastBB[current] \in Block /\ Arrived = "BBOTHER"
      /\ (Mine = <<>> <=> stack[current] = <<>>)
      /\ Mine # <<>> => Top(stack[current]).sp = Top(Mine).sp /\ Top(Mine) \in Frame
  BY <1>1, BeforeMove
<1>3. ~ Code[bb].entry
  BY <1>1, FirstBlockAssumption
<1>4. "BBOTHER" \notin {"BBCALL", "BBRET"}
  OBVIOUS
<1>5. ~ Emulated(bb, csp, FALSE)
  BY <1>1, <1>2, <1>3, <1>4, Zenon DEF Emulated, Last
<1>6. ~ LeavesResolver(bb, csp, FALSE)
  BY <1>5 DEF LeavesResolver
<1>7. Mine # <<>> => csp <= Top(Mine).sp
  BY <1>1, <1>2 DEF WithinTop, Frame, Sp
<1>8. Popped(stack[current], csp, 0) = stack[current]
  <2>1. csp \in Int
    BY DEF Sp
  <2> QED
    BY <1>2, <1>7, <2>1, PopsNothing
<1>9. ~ halted' => stack'[current] = stack[current]
  <2>1. BBStart(bb, csp, FALSE)
    BY <1>1 DEF GoOn
  <2> QED
    BY <1>2, <1>4, <1>5, <1>6, <1>8, <2>1, TracksPop
<1>10. FramesOK(Mine, csp)
  BY <1>2, <1>7 DEF FramesOK
<1> QED
  BY <1>1, <1>2, <1>9, <1>10, AfterMove

\* An activation in the place of the top one, on top of it: a tail call, or a RET that is
\* used as a jump.
LEMMA MoveOnTop ==
  ASSUME ProgramInv, NEW jump \in Jump, LeftBy(jump), ~ Code[Last].resolver,
         NEW bb \in Block, NEW csp \in Sp,
         IF Mine = <<>> THEN csp = rsp[current] ELSE csp <= Top(Mine).sp,
         Emulated(bb, csp, FALSE), GoOn(bb, csp, Append(Mine, InPlace(bb)))
  PROVE  ProgramInv'
<1> DEFINE new == InPlace(bb)
           st == stack[current]
<1>1. /\ IInv /\ current \in Thread /\ ~ lost[current]
      /\ FramesOK(Mine, rsp[current]) /\ Shadows(st, Mine)
      /\ Mine \in Seq(Frame) /\ rsp[current] \in Sp
      /\ Good(st) /\ lastBB[current] \in Block
      /\ (Mine = <<>> <=> st = <<>>)
      /\ Mine # <<>> => Top(st).sp = Top(Mine).sp /\ Top(Mine) \in Frame
  BY BeforeMove
<1>2. /\ new \in Frame /\ new.fn = Code[bb].fn
      /\ new.sp = IF Mine = <<>> THEN rsp[current] ELSE Top(Mine).sp
      /\ new.ret # NoBlock => new.sp < MaxSp
  BY InPlaceIs
<1> HIDE DEF new
<1>3. ~ LeavesResolver(bb, csp, FALSE)
  BY DEF LeavesResolver, Last
<1>4. StackLeft(bb, csp, FALSE) = st /\ SpLeft(bb, csp, FALSE) = csp
  BY <1>3 DEF StackLeft, SpLeft
<1>5. new.sp = (IF st # <<>> THEN Top(st).sp ELSE csp) /\ new.sp \in Sp /\ csp <= new.sp
  BY <1>1, <1>2 DEF Frame, Sp
<1>6. ~ halted' => stack'[current] = Pushed(st, bb, new.sp)
  <2>1. BBStart(bb, csp, FALSE)
    BY DEF GoOn
  <2>2. csp \in Int
    BY DEF Sp
  <2>3. st # <<>> => csp <= Top(st).sp
    BY <1>5
  <2> HIDE DEF st
  <2>4. ~ halted' => stack'[current] = Pushed(st, bb, IF st # <<>> THEN Top(st).sp ELSE csp)
    BY <1>1, <1>4, <2>1, <2>2, <2>3, TracksEmulated
  <2> QED
    BY <1>5, <2>4
<1>7. Shadows(Pushed(st, bb, new.sp), Append(Mine, new))
  BY <1>1, <1>2, <1>5, PushShadows
<1>8. FramesOK(Append(Mine, new), csp)
  BY <1>1, <1>2, <1>5, FramesPush
<1> QED
  BY <1>1, <1>6, <1>7, <1>8, AfterMove DEF new

LEMMA MoveTailCall ==
  ASSUME ProgramInv, NEW bb \in Block, NEW csp \in Sp, ProgramTailCall(bb, csp)
  PROVE  ProgramInv'
<1>1. /\ LeftBy("BBOTHER") /\ "BBOTHER" \in Jump /\ ~ Code[Last].resolver /\ Visible(bb)
      /\ IF Mine = <<>> THEN csp = rsp[current] ELSE csp \in WithinTop
      /\ GoOn(bb, csp, Append(Mine, InPlace(bb)))
  BY DEF ProgramTailCall, Jump
<1>2. lastBB[current] \in Block /\ Arrived = "BBOTHER" /\ (Mine # <<>> => Top(Mine) \in Frame)
  BY <1>1, BeforeMove
<1>3. IF Mine = <<>> THEN csp = rsp[current] ELSE csp <= Top(Mine).sp
  BY <1>1, <1>2 DEF WithinTop, Frame, Sp
<1>4. Emulated(bb, csp, FALSE)
  BY <1>1, <1>2, JumpIsEmulated
<1> QED
  BY <1>1, <1>3, <1>4, MoveOnTop

LEMMA MovePushRet ==
  ASSUME ProgramInv, NEW bb \in Block, ProgramPushRet(bb)
  PROVE  ProgramInv'
<1> DEFINE csp == rsp[current]
<1>1. /\ LeftBy("BBRET") /\ "BBRET" \in Jump /\ ~ Code[Last].resolver
      /\ Mine # <<>> /\ Unexpected(bb)
      /\ GoOn(bb, csp, Append(Mine, InPlace(bb)))
  BY DEF ProgramPushRet, Jump
<1>2. /\ lastBB[current] \in Block /\ Arrived = "BBRET" /\ csp \in Sp
      /\ stack[current] \in Seq(Activation) /\ stack[current] # <<>>
      /\ Top(Mine) \in Frame /\ Top(stack[current]).sp = Top(Mine).sp
      /\ csp <= Top(Mine).sp
  BY <1>1, BeforeMove
<1>3. Top(stack[current]).sp \in Sp /\ csp <= Top(stack[current]).sp
  BY <1>2 DEF Frame
<1> HIDE DEF csp
<1>4. Emulated(bb, csp, FALSE)
  BY <1>1, <1>2, <1>3, RetIsEmulated
<1>5. IF Mine = <<>> THEN csp = rsp[current] ELSE csp <= Top(Mine).sp
  BY <1>1, <1>2
<1> QED
  BY <1>1, <1>2, <1>4, <1>5, MoveOnTop

LEMMA MoveLongjmp ==
  ASSUME ProgramInv, NEW bb \in Block, NEW csp \in Sp, ProgramLongjmp(bb, csp)
  PROVE  ProgramInv'
<1>1. LeftBy("BBOTHER") /\ "BBOTHER" \in Jump /\ ~ Code[Last].resolver
  BY DEF ProgramLongjmp, Jump
<1>2. PICK d \in 0..(Len(Mine) - 1) :
        /\ csp > Mine[d + 1].sp
        /\ d > 0 => csp <= Mine[d].sp
        /\ GoOn(bb, csp, SubSeq(Mine, 1, d))
  BY DEF ProgramLongjmp
<1>3. /\ IInv /\ current \in Thread /\ ~ lost[current]
      /\ FramesOK(Mine, rsp[current]) /\ Shadows(stack[current], Mine)
      /\ Mine \in Seq(Frame) /\ Len(Mine) \in Nat /\ Arrived = "BBOTHER"
      /\ Good(stack[current]) /\ stack[current] \in Seq(Activation)
  BY <1>1, BeforeMove
<1>4. /\ d \in 0..(Len(stack[current]) - 1) /\ d \in 0..Len(Mine) /\ csp \in Int
      /\ csp > stack[current][d + 1].sp
      /\ d > 0 => csp <= stack[current][d].sp
  <2>1. /\ d \in 0..(Len(stack[current]) - 1) /\ d \in 0..Len(Mine)
        /\ d + 1 \in 1..Len(Mine) /\ (d > 0 => d \in 1..Len(Mine))
    BY <1>3 DEF Shadows
  <2>2. csp \in Int
    BY DEF Sp
  <2> QED
    BY <1>2, <1>3, <2>1, <2>2 DEF Shadows
<1>5. Popped(stack[current], csp, 0) = SubSeq(stack[current], 1, d)
  BY <1>3, <1>4, PopsTo
<1>6. SubSeq(stack[current], 1, d) # stack[current]
  <2>1. d \in 0..Len(stack[current]) /\ Len(stack[current]) = Len(Mine)
    BY <1>3, <1>4 DEF Shadows
  <2>2. Len(SubSeq(stack[current], 1, d)) = d
    BY <1>3, <2>1, Prefix
  <2>3. d # Len(stack[current])
    BY <1>3, <1>4, <2>1
  <2> QED
    BY <2>2, <2>3
<1>7. ~ LeavesResolver(bb, csp, FALSE)
  BY <1>1 DEF LeavesResolver, Last
<1>8. ~ halted' => stack'[current] = SubSeq(stack[current], 1, d)
  <2>1. BBStart(bb, csp, FALSE) /\ Arrived \notin {"BBCALL", "BBRET"}
    BY <1>2, <1>3 DEF GoOn
  <2> QED
    BY <1>3, <1>5, <1>6, <1>7, <2>1, TracksPop
<1>9. Shadows(SubSeq(stack[current], 1, d), SubSeq(Mine, 1, d))
  BY <1>3, <1>4, CutShadows
<1>10. FramesOK(SubSeq(Mine, 1, d), csp)
  BY <1>2, <1>3, <1>4, FramesCut
<1> QED
  BY <1>2, <1>3, <1>8, <1>9, <1>10, AfterMove

\* The function that the resolver has found takes the resolver's place, whose stack pointer
\* is that of the activation below.
LEMMA MoveResolved ==
  ASSUME ProgramInv, NEW bb \in Block, ProgramResolved(bb)
  PROVE  ProgramInv'
<1> DEFINE n == Len(Mine)
           csp == Top(Mine).sp
           new == InPlace(bb)
           S == stack[current]
           st == SubSeq(S, 1, n - 1)
           rest == SubSeq(Mine, 1, n - 1)
<1>1. /\ Code[Last].resolver /\ ~ Code[bb].resolver /\ Mine # <<>>
      /\ Top(Mine).fn = Code[Last].fn /\ Visible(bb)
      /\ GoOn(bb, csp, [Mine EXCEPT ![n] = new])
  BY DEF ProgramResolved
<1>2. PICK jump \in {"BBOTHER", "BBRET"} : LeftBy(jump) /\ (jump = "BBRET" => Unexpected(bb))
  BY DEF ProgramResolved
<1>3. jump \in Jump
  BY DEF Jump
<1>4. /\ IInv /\ current \in Thread /\ ~ lost[current]
      /\ FramesOK(Mine, rsp[current]) /\ Shadows(S, Mine)
      /\ Mine \in Seq(Frame) /\ rsp[current] \in Sp
      /\ Good(S) /\ S \in Seq(Activation) /\ S # <<>>
      /\ lastBB[current] \in Block /\ Arrived = jump
      /\ n \in Nat /\ n > 0
      /\ Top(Mine) \in Frame /\ Top(S).sp = csp
  BY <1>1, <1>2, <1>3, BeforeMove
<1>5. /\ new \in Frame /\ new.fn = Code[bb].fn /\ new.sp = csp
      /\ new.ret # NoBlock => new.sp < MaxSp
  BY <1>1, <1>2, <1>3, InPlaceIs
<1>6. csp \in Sp /\ csp \in Int
  BY <1>4 DEF Frame, Sp
<1>7. Emulated(bb, csp, FALSE)
  <2>1. CASE jump = "BBOTHER"
    BY <1>1, <1>4, <2>1, JumpIsEmulated
  <2>2. CASE jump = "BBRET"
    <3>1. Top(S).sp \in Sp /\ csp <= Top(S).sp
      BY <1>4, <1>6
    <3> HIDE DEF csp
    <3> QED
      BY <1>2, <1>4, <1>6, <2>2, <3>1, RetIsEmulated
  <2> QED
    BY <2>1, <2>2
<1>8. StackLeft(bb, csp, FALSE) = st /\ SpLeft(bb, csp, FALSE) = csp
  <2>1. LeavesResolver(bb, csp, FALSE)
    BY <1>1, <1>4, <1>7, Zenon DEF LeavesResolver, Last
  <2>2. Len(S) = n
    BY <1>4 DEF Shadows
  <2> QED
    BY <1>4, <2>1, <2>2 DEF StackLeft, SpLeft
<1>9. /\ n - 1 \in 0..Len(S) /\ n - 1 \in 0..n
      /\ n - 1 > 0 => n - 1 \in 1..n /\ n \in 2..n
  BY <1>4 DEF Shadows
<1>10. Good(st) /\ Len(st) = n - 1 /\ Shadows(st, rest) /\ rest \in Seq(Frame)
       /\ Len(rest) = n - 1
  BY <1>4, <1>9, PrefixIsGood, CutShadows, Prefix
<1>11. n - 1 > 0 => Mine[n - 1].sp = csp
  <2> SUFFICES ASSUME n - 1 > 0 PROVE Mine[n - 1].sp = csp
    OBVIOUS
  <2>1. Resolves(Mine[n].fn)
    BY <1>1, <1>4 DEF Resolves, Top, Last
  <2> QED
    BY <1>4, <1>9, <2>1 DEF FramesOK, Top
<1>12. st # <<>> => Top(st).sp = csp
  <2> SUFFICES ASSUME st # <<>> PROVE Top(st).sp = csp
    OBVIOUS
  <2>1. n - 1 > 0
    <3>1. n - 1 # 0
      BY <1>10, EmptySeq DEF Good
    <3> QED
      BY <1>4, <3>1
  <2>2. n - 1 \in 1..(n - 1)
    BY <1>4, <2>1
  <2>3. st[n - 1] = S[n - 1]
    BY <1>4, <1>9, <2>2, Prefix
  <2>4. S[n - 1].sp = Mine[n - 1].sp
    BY <1>4, <1>9, <2>1 DEF Shadows
  <2> QED
    BY <1>10, <1>11, <2>1, <2>3, <2>4 DEF Top
<1> HIDE DEF st, rest, new
<1>13. ~ halted' => stack'[current] = Pushed(st, bb, csp)
  <2>1. BBStart(bb, csp, FALSE)
    BY <1>1 DEF GoOn
  <2>2. st # <<>> => csp <= Top(st).sp
    BY <1>6, <1>12
  <2>3. IInv /\ csp \in Sp /\ csp \in Int /\ Good(st)
    BY <1>4, <1>6, <1>10
  <2> HIDE DEF csp, S
  <2>4. ~ halted' => stack'[current] = Pushed(st, bb, IF st # <<>> THEN Top(st).sp ELSE csp)
    BY <1>7, <1>8, <2>1, <2>2, <2>3, TracksEmulated
  <2> QED
    BY <1>12, <2>4
<1>14. [Mine EXCEPT ![n] = new] = Append(rest, new)
  BY <1>1, <1>4, <1>5, TopReplaced DEF rest
<1>15. Shadows(Pushed(st, bb, csp), Append(rest, new))
  <2> HIDE DEF csp
  <2> QED
    BY <1>4, <1>5, <1>6, <1>10, PushShadows
<1>16. FramesOK(Append(rest, new), csp)
  <2>1. FramesOK(rest, csp)
    <3>1. n - 1 > 0 => csp <= Mine[n - 1].sp
      BY <1>6, <1>11
    <3> HIDE DEF csp
    <3> QED
      BY <1>4, <1>9, <3>1, FramesCut DEF rest
  <2>2. ~ Resolves(new.fn)
    BY <1>1, <1>5, ResolverAssumption DEF Resolves
  <2>3. csp <= new.sp
    BY <1>5, <1>6
  <2> HIDE DEF csp
  <2> QED
    BY <1>5, <2>1, <2>2, <2>3, FramesPush
<1> HIDE DEF csp
<1> QED
  BY <1>1, <1>4, <1>6, <1>13, <1>14, <1>15, <1>16, AfterMove

\* A thread that is no longer followed.
LEMMA MoveStray ==
  ASSUME ProgramInv, NEW bb \in Block, NEW csp \in Sp, NEW stray \in BOOLEAN,
         Stray(bb, csp, stray)
  PROVE  ProgramInv'
<1>1. BBStart(bb, csp, stray) /\ IInv
  BY DEF Stray, ProgramInv
<1>2. /\ IInv' /\ current \in Thread /\ ~ halted
      /\ UNCHANGED <<current, alive, saved>>
      /\ \A t \in Thread : t # current => stack'[t] = stack[t] /\ lastBB'[t] = lastBB[t]
  BY <1>1, BlockStarts
<1>3. /\ frames \in [Thread -> Seq(Frame)] /\ rsp \in [Thread -> Sp]
      /\ left \in [Thread -> Jump \cup {"NONE"}] /\ lost \in [Thread -> BOOLEAN]
  BY DEF ProgramInv, ProgramTypes
<1>4. /\ frames' = [frames EXCEPT ![current] = <<>>]
      /\ rsp' = [rsp EXCEPT ![current] = MaxSp]
      /\ left' = [left EXCEPT ![current] = lastExit']
      /\ lost' = [lost EXCEPT ![current] = TRUE]
  BY DEF Stray
<1>5. <<>> \in Seq(Frame) /\ MaxSp \in Sp /\ lastExit' \in Jump \cup {"NONE"}
  BY <1>2, SizesAssumption, EmptySeq DEF Sp, IInv, TypeOK
<1>6. ProgramTypes'
  BY <1>3, <1>4, <1>5 DEF ProgramTypes
<1>7. ASSUME NEW t \in Thread, ~ lost'[t]
      PROVE  t # current /\ ~ lost[t]
  BY <1>3, <1>4, <1>7
<1>8. ASSUME NEW t \in Thread, ~ lost'[t]
      PROVE  left'[t] = IF t = current' THEN lastExit' ELSE saved'[t]
  BY <1>2, <1>3, <1>4, <1>7, <1>8 DEF ProgramInv
<1>9. ASSUME NEW t \in Thread, ~ lost'[t], ~ halted'
      PROVE  Followed(t)'
  <2>1. t # current /\ ~ lost[t] /\ ~ halted
    BY <1>2, <1>7, <1>9
  <2>2. /\ frames'[t] = frames[t] /\ rsp'[t] = rsp[t] /\ left'[t] = left[t]
        /\ lastBB'[t] = lastBB[t] /\ stack'[t] = stack[t]
    BY <1>2, <1>3, <1>4, <2>1
  <2>3. Followed(t)
    BY <2>1 DEF ProgramInv
  <2> QED
    BY <2>2, <2>3 DEF Followed
<1> QED
  BY <1>2, <1>6, <1>8, <1>9 DEF ProgramInv

\* thread_create and thread_switch.
LEMMA MoveThread ==
  ASSUME ProgramInv, NEW t \in Thread, Create(t) \/ Switch(t), UNCHANGED programVars
  PROVE  ProgramInv'
<1>1. IInv' /\ ProgramTypes'
  BY ThreadStep DEF ProgramInv, ProgramTypes, programVars
<1>2. UNCHANGED <<frames, rsp, left, lost, lastBB, stack, halted>>
  BY DEF Create, Switch, programVars
<1>3. saved \in [Thread -> Jump \cup {"NONE"}] /\ current \in Thread \cup {NoThread}
  BY DEF ProgramInv, IInv, TypeOK
<1>4. ASSUME NEW u \in Thread, ~ lost'[u]
      PROVE  left'[u] = IF u = current' THEN lastExit' ELSE saved'[u]
  <2>1. left[u] = IF u = current THEN lastExit ELSE saved[u]
    BY <1>2, <1>4 DEF ProgramInv
  <2>2. CASE Create(t)
    BY <1>2, <2>1, <2>2 DEF Create
  <2>3. CASE Switch(t)
    <3>1. /\ t # current /\ lastExit' = saved[t] /\ current' = t
          /\ saved' = IF current = NoThread THEN saved ELSE [saved EXCEPT ![current] = lastExit]
      BY <2>3 DEF Switch
    <3>2. CASE u = t
      BY <1>2, <2>1, <3>1, <3>2
    <3>3. CASE u = current
      BY <1>2, <1>3, <2>1, <3>1, <3>3, NamesAssumption
    <3>4. CASE u # t /\ u # current
      BY <1>2, <1>3, <2>1, <3>1, <3>4
    <3> QED
      BY <3>2, <3>3, <3>4
  <2> QED
    BY <2>2, <2>3
<1>5. ASSUME NEW u \in Thread, ~ lost'[u], ~ halted' PROVE Followed(u)'
  BY <1>2, <1>5 DEF ProgramInv, Followed
<1> QED
  BY <1>1, <1>4, <1>5 DEF ProgramInv

\* A clone that fails: aprof forgets how the running thread left its block.
LEMMA MoveCloneFails ==
  ASSUME ProgramInv, NEW t \in Thread, ProgramCloneFails(t)
  PROVE  ProgramInv'
<1>1. /\ CloneFails(t) /\ Running /\ current \in Thread
      /\ frames' = [frames EXCEPT ![current] = <<>>]
      /\ rsp' = [rsp EXCEPT ![current] = MaxSp]
      /\ lost' = [lost EXCEPT ![current] = TRUE]
      /\ current' = NoThread
      /\ UNCHANGED <<left, lastExit, saved, lastBB, stack, halted>>
  BY RunningStack DEF ProgramCloneFails, CloneFails, ProgramInv
<1>2. IInv'
  BY <1>1, ThreadStep DEF ProgramInv
<1>3. /\ frames \in [Thread -> Seq(Frame)] /\ rsp \in [Thread -> Sp]
      /\ left \in [Thread -> Jump \cup {"NONE"}] /\ lost \in [Thread -> BOOLEAN]
  BY DEF ProgramInv, ProgramTypes
<1>4. <<>> \in Seq(Frame) /\ MaxSp \in Sp
  BY SizesAssumption, EmptySeq DEF Sp
<1>5. ProgramTypes'
  BY <1>1, <1>3, <1>4 DEF ProgramTypes
<1>6. ASSUME NEW u \in Thread, ~ lost'[u]
      PROVE  u # current /\ ~ lost[u] /\ frames'[u] = frames[u] /\ rsp'[u] = rsp[u]
  BY <1>1, <1>3, <1>6
<1>7. ASSUME NEW u \in Thread, ~ lost'[u]
      PROVE  left'[u] = IF u = current' THEN lastExit' ELSE saved'[u]
  BY <1>1, <1>6, <1>7, NamesAssumption DEF ProgramInv
<1>8. ASSUME NEW u \in Thread, ~ lost'[u], ~ halted' PROVE Followed(u)'
  BY <1>1, <1>6, <1>8 DEF ProgramInv, Followed
<1> QED
  BY <1>2, <1>5, <1>7, <1>8 DEF ProgramInv

\* The running thread ends.
LEMMA MoveExit ==
  ASSUME ProgramInv, ProgramExit
  PROVE  ProgramInv'
<1>1. /\ ThreadExit /\ Running /\ current \in Thread
      /\ frames' = [frames EXCEPT ![current] = <<>>]
      /\ rsp' = [rsp EXCEPT ![current] = MaxSp]
      /\ left' = [left EXCEPT ![current] = "NONE"]
      /\ lost' = [lost EXCEPT ![current] = FALSE]
      /\ current' = NoThread
      /\ saved' = [saved EXCEPT ![current] = "NONE"]
      /\ lastBB' = [lastBB EXCEPT ![current] = NoBlock]
      /\ stack' = [stack EXCEPT ![current] = <<>>]
      /\ UNCHANGED <<lastExit, halted>>
  BY RunningStack DEF ProgramExit, ThreadExit, ProgramInv
<1>2. IInv'
  BY <1>1, ThreadExitStep DEF ProgramInv
<1>3. /\ frames \in [Thread -> Seq(Frame)] /\ rsp \in [Thread -> Sp]
      /\ left \in [Thread -> Jump \cup {"NONE"}] /\ lost \in [Thread -> BOOLEAN]
      /\ saved \in [Thread -> Jump \cup {"NONE"}]
      /\ lastBB \in [Thread -> Block \cup {NoBlock}] /\ stack \in [Thread -> Seq(Activation)]
  BY DEF ProgramInv, ProgramTypes, IInv, TypeOK
<1>4. <<>> \in Seq(Frame) /\ MaxSp \in Sp
  BY SizesAssumption, EmptySeq DEF Sp
<1>5. ProgramTypes'
  BY <1>1, <1>3, <1>4 DEF ProgramTypes
<1>6. ASSUME NEW u \in Thread, ~ lost'[u]
      PROVE  left'[u] = IF u = current' THEN lastExit' ELSE saved'[u]
  <2>1. u # current'
    BY <1>1, NamesAssumption
  <2>2. CASE u = current
    BY <1>1, <1>3, <2>1, <2>2
  <2>3. CASE u # current
    BY <1>1, <1>3, <1>6, <2>1, <2>3 DEF ProgramInv
  <2> QED
    BY <2>2, <2>3
<1>7. ASSUME NEW u \in Thread, ~ lost'[u], ~ halted' PROVE Followed(u)'
  <2>1. CASE u = current
    <3>1. FramesOK(<<>>, MaxSp) /\ Shadows(<<>>, <<>>)
      BY EmptySeq DEF FramesOK, Shadows
    <3>2. /\ frames'[u] = <<>> /\ rsp'[u] = MaxSp /\ left'[u] = "NONE"
          /\ lastBB'[u] = NoBlock /\ stack'[u] = <<>>
      BY <1>1, <1>3, <2>1
    <3> QED
      BY <3>1, <3>2 DEF Followed
  <2>2. CASE u # current
    <3>1. /\ frames'[u] = frames[u] /\ rsp'[u] = rsp[u] /\ left'[u] = left[u]
          /\ lastBB'[u] = lastBB[u] /\ stack'[u] = stack[u] /\ lost'[u] = lost[u]
      BY <1>1, <1>3, <2>2
    <3>2. Followed(u)
      BY <1>1, <1>7, <3>1 DEF ProgramInv
    <3> QED
      BY <3>1, <3>2 DEF Followed
  <2> QED
    BY <2>1, <2>2
<1> QED
  BY <1>2, <1>5, <1>6, <1>7 DEF ProgramInv

-----------------------------------------------------------------------------
LEMMA ProgramInvInit == InitProgram => ProgramInv
<1> SUFFICES ASSUME InitProgram PROVE ProgramInv
  OBVIOUS
<1>1. IInv
  BY IInvInit DEF InitProgram
<1>2. /\ frames = [t \in Thread |-> <<>>] /\ rsp = [t \in Thread |-> MaxSp]
      /\ left = [t \in Thread |-> "NONE"] /\ lost = [t \in Thread |-> FALSE]
      /\ current = NoThread /\ saved = [t \in Thread |-> "NONE"]
      /\ lastBB = [t \in Thread |-> NoBlock] /\ stack = [t \in Thread |-> <<>>]
  BY DEF InitProgram, Init
<1>3. <<>> \in Seq(Frame) /\ MaxSp \in Sp
  BY SizesAssumption, EmptySeq DEF Sp
<1>4. ProgramTypes
  BY <1>2, <1>3 DEF ProgramTypes
<1>5. FramesOK(<<>>, MaxSp) /\ Shadows(<<>>, <<>>)
  BY EmptySeq DEF FramesOK, Shadows
<1>6. \A t \in Thread : Followed(t)
  BY <1>2, <1>5 DEF Followed
<1>7. \A t \in Thread : left[t] = IF t = current THEN lastExit ELSE saved[t]
  BY <1>2, NamesAssumption
<1> QED
  BY <1>1, <1>4, <1>6, <1>7 DEF ProgramInv

LEMMA ProgramInvNext == ProgramInv /\ [NextProgram]_allVars => ProgramInv'
<1> SUFFICES ASSUME ProgramInv, [NextProgram]_allVars PROVE ProgramInv'
  OBVIOUS
<1>1. CASE UNCHANGED allVars
  <2>1. UNCHANGED <<current, lastExit, saved, lastBB, stack, capacity, halted, alive>>
    BY <1>1 DEF allVars, vars
  <2>2. UNCHANGED <<frames, rsp, left, lost>>
    BY <1>1 DEF allVars, programVars
  <2>3. IInv'
    BY <2>1 DEF ProgramInv, IInv, TypeOK, StackPointersOrdered, StackFits, CapacityOK
  <2> QED
    BY <2>1, <2>2, <2>3 DEF ProgramInv, ProgramTypes, Followed
<1>2. CASE ProgramReturn
  BY <1>2, MoveReturn
<1>3. CASE ProgramExit
  BY <1>3, MoveExit
<1>4. ASSUME NEW bb \in Block,
             ProgramStart(bb) \/ ProgramCall(bb) \/ ProgramResolved(bb) \/ ProgramPushRet(bb)
      PROVE  ProgramInv'
  BY <1>4, MoveStart, MoveCall, MoveResolved, MovePushRet
<1>5. ASSUME NEW bb \in Block, NEW csp \in Sp,
             ProgramJump(bb, csp) \/ ProgramTailCall(bb, csp) \/ ProgramLongjmp(bb, csp)
      PROVE  ProgramInv'
  BY <1>5, MoveJump, MoveTailCall, MoveLongjmp
<1>6. ASSUME NEW bb \in Block, NEW csp \in Sp, NEW stray \in BOOLEAN, Stray(bb, csp, stray)
      PROVE  ProgramInv'
  BY <1>6, MoveStray
<1>7. ASSUME NEW t \in Thread, (Create(t) \/ Switch(t)) /\ UNCHANGED programVars
      PROVE  ProgramInv'
  BY <1>7, MoveThread
<1>8. ASSUME NEW t \in Thread, ProgramCloneFails(t)
      PROVE  ProgramInv'
  BY <1>8, MoveCloneFails
<1> QED
  BY <1>1, <1>2, <1>3, <1>4, <1>5, <1>6, <1>7, <1>8 DEF NextProgram

\* The inductive invariant of tracker and program.
THEOREM ProgramInvariance == SpecProgram => []ProgramInv
  BY ProgramInvInit, ProgramInvNext, PTL DEF SpecProgram

\* The fields of the tracker and the program's record keep their types: no return and no
\* longjmp takes the stack pointer out of its range.
THEOREM ProgramTypeCorrect == SpecProgram => []ProgramTypeOK
<1>1. ProgramInv => ProgramTypeOK
  BY DEF ProgramInv, IInv, ProgramTypes, ProgramTypeOK
<1> QED
  BY <1>1, ProgramInvariance, PTL

\* BB_start follows the program, for any code, any number of threads and any depth: the
\* activation stack of a thread that makes the moves its comments speak of names the
\* activations of the thread, with their stack pointers.
THEOREM FollowsProgram == SpecProgram => []ShadowFollowsProgram
<1>1. ASSUME ProgramInv PROVE ShadowFollowsProgram
  <2> SUFFICES ASSUME NEW t \in Thread, ~ lost[t], ~ halted
               PROVE  [d \in DOMAIN stack[t] |-> <<stack[t][d].fn, stack[t][d].sp>>]
                        = [d \in DOMAIN frames[t] |-> <<frames[t][d].fn, frames[t][d].sp>>]
    BY DEF ShadowFollowsProgram
  <2>1. Shadows(stack[t], frames[t]) /\ stack[t] \in Seq(Activation) /\ frames[t] \in Seq(Frame)
    BY <1>1 DEF ProgramInv, ProgramTypes, Followed, IInv, TypeOK
  <2>2. DOMAIN stack[t] = 1..Len(frames[t]) /\ DOMAIN frames[t] = 1..Len(frames[t])
    BY <2>1, LenProperties DEF Shadows
  <2> QED
    BY <2>1, <2>2 DEF Shadows
<1> QED
  BY <1>1, ProgramInvariance, PTL

\* thread_switch gives every thread that is followed the exit of its own last block back,
\* however many threads have run since.
THEOREM ExitFollowed == SpecProgram => []LastExitFollowed
<1>1. ASSUME ProgramInv PROVE LastExitFollowed
  BY <1>1 DEF ProgramInv, LastExitFollowed, IInv, TypeOK
<1> QED
  BY <1>1, ProgramInvariance, PTL
=============================================================================
