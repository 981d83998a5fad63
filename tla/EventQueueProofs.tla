-------------------------- MODULE EventQueueProofs --------------------------
(***************************************************************************)
(* Proofs about the event queue.  The promise and the queue are both       *)
(* flattened sequences of sequences; each statement adds to one what it    *)
(* adds to the other, and changes nothing before the last access.          *)
(***************************************************************************)
EXTENDS EventQueue, NaturalLemmas, SequenceTheorems

-----------------------------------------------------------------------------
(* Flattened sequences.                                                    *)

\* f has the concatenations of the first n of s.
Concatenated(f, s, i) == IF i = 1 THEN s[i] ELSE f[i - 1] \o s[i]
Concatenations(f, s, n) == f = [i \in 1..n |-> Concatenated(f, s, i)]

LEMMA ConcatenationsExist ==
  ASSUME NEW s, NEW n \in Nat
  PROVE  \E f : Concatenations(f, s, n)
<1> DEFINE S == {k \in Nat : \E f : Concatenations(f, s, k)}
<1>1. 0 \in S
  <2> DEFINE f == [i \in 1..0 |-> 0]
  <2>1. Concatenations(f, s, 0)
    BY SMT DEF Concatenations
  <2> QED
    BY <2>1
<1>2. ASSUME NEW k \in S PROVE k + 1 \in S
  <2>1. PICK f : f = [i \in 1..k |-> Concatenated(f, s, i)]
    BY DEF Concatenations
  <2> DEFINE g == [i \in 1..(k + 1) |-> IF i <= k THEN f[i] ELSE Concatenated(f, s, i)]
  <2>2. ASSUME NEW i \in 1..(k + 1) PROVE g[i] = Concatenated(f, s, i)
    <3>1. CASE i <= k
      <4>1. i \in 1..k
        BY <3>1
      <4>2. f[i] = Concatenated(f, s, i)
        BY <2>1, <4>1, Zenon
      <4> QED
        BY <3>1, <4>2
    <3>2. CASE ~ (i <= k)
      BY <3>2
    <3> QED
      BY <3>1, <3>2
  <2>3. ASSUME NEW i \in 1..(k + 1) PROVE Concatenated(f, s, i) = Concatenated(g, s, i)
    <3>1. CASE i = 1
      BY <3>1 DEF Concatenated
    <3>2. CASE i # 1
      <4>1. i - 1 \in 1..(k + 1) /\ i - 1 <= k
        BY <3>2
      <4>2. g[i - 1] = f[i - 1]
        BY <4>1
      <4> HIDE DEF g
      <4> QED
        BY <3>2, <4>2 DEF Concatenated
    <3> QED
      BY <3>1, <3>2
  <2>4. g = [i \in 1..(k + 1) |-> g[i]]
    OBVIOUS
  <2>5. Concatenations(g, s, k + 1)
    <3> HIDE DEF g
    <3> QED
      BY <2>2, <2>3, <2>4, Zenon DEF Concatenations
  <2> QED
    BY <2>5
<1> HIDE DEF S
<1>3. S \in SUBSET Nat
  BY DEF S
<1>4. \A k \in Nat : k \in S
  BY <1>1, <1>2, <1>3, SetInduction
<1> QED
  BY <1>4 DEF S

\* Concatenations of sequences that agree as far as they go.
LEMMA ConcatenationsAgree ==
  ASSUME NEW s, NEW r, NEW m \in Nat, NEW n \in Nat, m <= n,
         \A i \in 1..m : s[i] = r[i],
         NEW f, Concatenations(f, s, m), NEW g, Concatenations(g, r, n)
  PROVE  \A i \in 1..m : f[i] = g[i]
<1> DEFINE S == {k \in Nat : k \in 1..m => f[k] = g[k]}
<1>1. 0 \in S
  OBVIOUS
<1>2. ASSUME NEW k \in S PROVE k + 1 \in S
  <2> SUFFICES ASSUME k + 1 \in 1..m PROVE f[k + 1] = g[k + 1]
    OBVIOUS
  <2>1. k + 1 \in 1..n /\ s[k + 1] = r[k + 1]
    OBVIOUS
  <2>2. f[k + 1] = Concatenated(f, s, k + 1)
    BY Zenon DEF Concatenations
  <2>3. g[k + 1] = Concatenated(g, r, k + 1)
    BY <2>1, Zenon DEF Concatenations
  <2>4. k # 0 => f[k] = g[k] /\ (k + 1) - 1 = k /\ k + 1 # 1
    OBVIOUS
  <2> QED
    BY <2>1, <2>2, <2>3, <2>4 DEF Concatenated
<1> HIDE DEF S
<1>3. S \in SUBSET Nat
  BY DEF S
<1>4. \A k \in Nat : k \in S
  BY <1>1, <1>2, <1>3, SetInduction
<1> QED
  BY <1>4 DEF S

\* The definition of FlattenSeq, with the recursive function it has inside.
LEMMA FlattenedBy ==
  ASSUME NEW s, Len(s) \in Nat \ {0}
  PROVE  \E f : Concatenations(f, s, Len(s)) /\ FlattenSeq(s) = f[Len(s)]
<1>1. \E f : Concatenations(f, s, Len(s))
  BY ConcatenationsExist
<1> DEFINE flatten == CHOOSE f : Concatenations(f, s, Len(s))
<1>2. FlattenSeq(s) = flatten[Len(s)]
  BY Zenon DEF FlattenSeq, Concatenations, Concatenated
<1>3. Concatenations(flatten, s, Len(s))
  BY <1>1
<1> QED
  BY <1>2, <1>3

\* No elements come from nowhere.
LEMMA FlattenType ==
  ASSUME NEW E, NEW s \in Seq(Seq(E))
  PROVE  FlattenSeq(s) \in Seq(E)
<1>1. CASE Len(s) = 0
  <2>1. s = <<>> /\ FlattenSeq(s) = s
    BY <1>1 DEF FlattenSeq
  <2> QED
    BY <2>1, EmptySeq
<1>2. CASE Len(s) # 0
  <2>1. Len(s) \in Nat \ {0}
    BY <1>2
  <2>2. PICK f : Concatenations(f, s, Len(s)) /\ FlattenSeq(s) = f[Len(s)]
    BY <2>1, FlattenedBy
  <2> DEFINE n == Len(s)
             S == {k \in Nat : k \in 1..n => f[k] \in Seq(E)}
  <2>3. 0 \in S
    OBVIOUS
  <2>4. ASSUME NEW k \in S PROVE k + 1 \in S
    <3> SUFFICES ASSUME k + 1 \in 1..n PROVE f[k + 1] \in Seq(E)
      OBVIOUS
    <3>1. f[k + 1] = Concatenated(f, s, k + 1)
      BY <2>2, Zenon DEF Concatenations
    <3>2. s[k + 1] \in Seq(E)
      BY ElementOfSeq
    <3>3. k # 0 => f[k] \in Seq(E) /\ (k + 1) - 1 = k /\ k + 1 # 1
      BY <2>1
    <3>4. k # 0 => f[k] \o s[k + 1] \in Seq(E)
      BY <3>2, <3>3, ConcatProperties
    <3> QED
      BY <3>1, <3>2, <3>3, <3>4 DEF Concatenated
  <2> HIDE DEF S
  <2>5. S \in SUBSET Nat
    BY DEF S
  <2>6. n \in S
    BY <2>1, <2>3, <2>4, <2>5, SetInduction
  <2> QED
    BY <2>1, <2>2, <2>6 DEF S
<1> QED
  BY <1>1, <1>2

\* The last sequence comes last.
LEMMA FlattenAppend ==
  ASSUME NEW E, NEW s \in Seq(Seq(E)), NEW x \in Seq(E)
  PROVE  FlattenSeq(Append(s, x)) = FlattenSeq(s) \o x
<1> DEFINE r == Append(s, x)
           n == Len(s)
<1>1. /\ n \in Nat /\ Len(r) = n + 1 /\ Len(r) \in Nat \ {0}
      /\ r[n + 1] = x /\ \A i \in 1..n : s[i] = r[i]
  BY AppendProperties
<1> HIDE DEF r
<1>2. PICK g : Concatenations(g, r, Len(r)) /\ FlattenSeq(r) = g[Len(r)]
  BY <1>1, FlattenedBy
<1>3. FlattenSeq(r) = Concatenated(g, r, n + 1)
  <2>1. n + 1 \in 1..Len(r)
    BY <1>1
  <2> QED
    BY <1>1, <1>2, <2>1, Zenon DEF Concatenations
<1>4. CASE n = 0
  <2>1. FlattenSeq(s) = <<>>
    BY <1>4 DEF FlattenSeq
  <2>2. FlattenSeq(r) = x
    BY <1>1, <1>3, <1>4 DEF Concatenated
  <2> QED
    BY <2>1, <2>2, ConcatEmptySeq DEF r
<1>5. CASE n # 0
  <2>1. PICK f : Concatenations(f, s, n) /\ FlattenSeq(s) = f[n]
    BY <1>1, <1>5, FlattenedBy
  <2>2. f[n] = g[n]
    <3>1. \A i \in 1..n : f[i] = g[i]
      <4>1. n <= n + 1 /\ n + 1 \in Nat
        BY <1>1
      <4>2. Concatenations(f, s, n) /\ Concatenations(g, r, n + 1)
        BY <1>1, <1>2, <2>1
      <4> HIDE DEF n
      <4> QED
        BY <1>1, <4>1, <4>2, ConcatenationsAgree, SMT
    <3> QED
      BY <1>1, <1>5, <3>1
  <2>3. (n + 1) - 1 = n /\ n + 1 # 1
    BY <1>1, <1>5
  <2> QED
    BY <1>1, <1>3, <2>1, <2>2, <2>3 DEF Concatenated, r
<1> QED
  BY <1>4, <1>5

\* Sequences of at most one element flatten to no more elements than there are of them.
LEMMA FlattenLength ==
  ASSUME NEW E, NEW s \in Seq(Seq(E)), \A i \in 1..Len(s) : Len(s[i]) <= 1
  PROVE  Len(FlattenSeq(s)) <= Len(s)
<1>1. CASE Len(s) = 0
  BY <1>1 DEF FlattenSeq
<1>2. CASE Len(s) # 0
  <2>1. Len(s) \in Nat \ {0}
    BY <1>2
  <2>2. PICK f : Concatenations(f, s, Len(s)) /\ FlattenSeq(s) = f[Len(s)]
    BY <2>1, FlattenedBy
  <2> DEFINE n == Len(s)
             S == {k \in Nat : k \in 1..n => f[k] \in Seq(E) /\ Len(f[k]) <= k}
  <2>3. 0 \in S
    OBVIOUS
  <2>4. ASSUME NEW k \in S PROVE k + 1 \in S
    <3> SUFFICES ASSUME k + 1 \in 1..n PROVE f[k + 1] \in Seq(E) /\ Len(f[k + 1]) <= k + 1
      OBVIOUS
    <3>1. f[k + 1] = Concatenated(f, s, k + 1)
      BY <2>2, Zenon DEF Concatenations
    <3>2. s[k + 1] \in Seq(E) /\ Len(s[k + 1]) <= 1
      BY ElementOfSeq
    <3>3. k # 0 => /\ f[k] \in Seq(E) /\ Len(f[k]) <= k
                   /\ (k + 1) - 1 = k /\ k + 1 # 1
      BY <2>1
    <3>4. k # 0 => /\ f[k] \o s[k + 1] \in Seq(E)
                   /\ Len(f[k] \o s[k + 1]) = Len(f[k]) + Len(s[k + 1])
      BY <3>2, <3>3, ConcatProperties
    <3>5. CASE k = 0
      BY <3>1, <3>2, <3>5 DEF Concatenated
    <3>6. CASE k # 0
      <4>1. f[k + 1] = f[k] \o s[k + 1]
        BY <3>1, <3>3, <3>6 DEF Concatenated
      <4>2. Len(f[k]) \in Nat /\ Len(s[k + 1]) \in Nat
        BY <3>2, <3>3, <3>6
      <4>3. f[k + 1] \in Seq(E) /\ Len(f[k + 1]) = Len(f[k]) + Len(s[k + 1])
        BY <3>4, <3>6, <4>1, Zenon
      <4>4. Len(f[k]) <= k /\ Len(s[k + 1]) <= 1 /\ k \in Nat
        BY <3>2, <3>3, <3>6
      <4>5. \A a, b \in Nat : a <= k /\ b <= 1 => a + b <= k + 1
        BY <4>4
      <4> QED
        BY <4>2, <4>3, <4>4, <4>5, Zenon
    <3> QED
      BY <3>5, <3>6
  <2> HIDE DEF S
  <2>5. S \in SUBSET Nat
    BY DEF S
  <2>6. n \in S
    BY <2>1, <2>3, <2>4, <2>5, SetInduction
  <2> QED
    BY <2>1, <2>2, <2>6 DEF S
<1> QED
  BY <1>1, <1>2

-----------------------------------------------------------------------------
(* The queue and the promise, as flattened sequences.                      *)

InItem == Access({"load", "store"}) \cup {Instruction, SideExit}
Event == Access({"load", "store", "modify"}) \cup {Instruction}
OutItem == Access({"load", "store", "modify"}) \cup {SideExit}

\* The calls the queued events become.
Calls(es) == FlattenSeq([i \in DOMAIN es |-> HelperCalls(es[i])])

LEMMA HelperCallsType ==
  ASSUME NEW e \in Event \cup InItem
  PROVE  HelperCalls(e) \in Seq(OutItem) /\ Len(HelperCalls(e)) <= 1
<1>1. CASE e = Instruction
  BY <1>1, EmptySeq DEF HelperCalls
<1>2. CASE e # Instruction
  <2>1. e \in OutItem
    BY <1>2 DEF Event, InItem, OutItem, Access
  <2>2. HelperCalls(e) = <<e>>
    BY <1>2 DEF HelperCalls
  <2> HIDE DEF OutItem
  <2> QED
    BY <2>1, <2>2
<1> QED
  BY <1>1, <1>2

LEMMA CallsOfEach ==
  ASSUME NEW es \in Seq(Event)
  PROVE  /\ [i \in DOMAIN es |-> HelperCalls(es[i])] \in Seq(Seq(OutItem))
         /\ Len([i \in DOMAIN es |-> HelperCalls(es[i])]) = Len(es)
<1> DEFINE n == Len(es)
<1>1. n \in Nat /\ DOMAIN es = 1..n /\ \A i \in 1..n : es[i] \in Event
  BY LenProperties, ElementOfSeq
<1>2. \A i \in 1..n : HelperCalls(es[i]) \in Seq(OutItem)
  BY <1>1, HelperCallsType
<1> HIDE DEF n
<1>3. [i \in 1..n |-> HelperCalls(es[i])] \in [1..n -> Seq(OutItem)]
  BY <1>2
<1>4. \A f \in [1..n -> Seq(OutItem)] : f \in Seq(Seq(OutItem)) /\ Len(f) = n
  BY <1>1
<1> QED
  BY <1>1, <1>3, <1>4 DEF n

LEMMA CallsType ==
  ASSUME NEW es \in Seq(Event)
  PROVE  /\ Calls(es) \in Seq(OutItem)
         /\ Len(Calls(es)) <= Len(es)
<1> DEFINE c == [i \in DOMAIN es |-> HelperCalls(es[i])]
<1>1. c \in Seq(Seq(OutItem)) /\ Len(c) = Len(es)
  BY CallsOfEach
<1>2. \A i \in 1..Len(c) : Len(c[i]) <= 1
  <2> SUFFICES ASSUME NEW i \in 1..Len(c) PROVE Len(c[i]) <= 1
    OBVIOUS
  <2>1. i \in DOMAIN es /\ es[i] \in Event
    BY <1>1, LenProperties, ElementOfSeq
  <2>2. c[i] = HelperCalls(es[i])
    BY <2>1
  <2> QED
    BY <2>1, <2>2, HelperCallsType
<1> HIDE DEF c
<1>3. FlattenSeq(c) \in Seq(OutItem) /\ Len(FlattenSeq(c)) <= Len(c)
  BY <1>1, <1>2, FlattenType, FlattenLength
<1> QED
  BY <1>1, <1>3 DEF Calls, c

LEMMA CallsEmpty == Calls(<<>>) = <<>>
BY DEF Calls, FlattenSeq

LEMMA CallsAppend ==
  ASSUME NEW es \in Seq(Event), NEW e \in Event
  PROVE  Calls(Append(es, e)) = Calls(es) \o HelperCalls(e)
<1> DEFINE c == [i \in DOMAIN es |-> HelperCalls(es[i])]
           new == Append(es, e)
           d == [i \in DOMAIN new |-> HelperCalls(new[i])]
<1>1. c \in Seq(Seq(OutItem)) /\ Len(c) = Len(es)
  BY CallsOfEach
<1>2. /\ new \in Seq(Event) /\ Len(new) = Len(es) + 1
      /\ \A i \in 1..Len(es) : new[i] = es[i]
      /\ new[Len(es) + 1] = e
  BY AppendProperties
<1>3. d \in Seq(Seq(OutItem)) /\ Len(d) = Len(new)
  BY <1>2, CallsOfEach
<1>4. HelperCalls(e) \in Seq(OutItem)
  BY HelperCallsType
<1>5. /\ Append(c, HelperCalls(e)) \in Seq(Seq(OutItem))
      /\ Len(Append(c, HelperCalls(e))) = Len(es) + 1
      /\ \A i \in 1..Len(es) : Append(c, HelperCalls(e))[i] = c[i]
      /\ Append(c, HelperCalls(e))[Len(es) + 1] = HelperCalls(e)
  <2> HIDE DEF c
  <2> QED
    BY <1>1, <1>4, AppendProperties
<1>6. \A i \in 1..Len(d) : d[i] = Append(c, HelperCalls(e))[i]
  <2> SUFFICES ASSUME NEW i \in 1..Len(d) PROVE d[i] = Append(c, HelperCalls(e))[i]
    OBVIOUS
  <2>1. Len(es) \in Nat /\ DOMAIN es = 1..Len(es) /\ DOMAIN new = 1..Len(new)
    BY <1>2, LenProperties
  <2>2. d[i] = HelperCalls(new[i])
    BY <1>3, <2>1
  <2>3. CASE i \in 1..Len(es)
    <3>1. c[i] = HelperCalls(es[i])
      BY <2>1, <2>3
    <3> QED
      BY <1>2, <1>5, <2>2, <2>3, <3>1, Zenon
  <2>4. CASE i = Len(es) + 1
    BY <1>2, <1>5, <2>2, <2>4, Zenon
  <2> QED
    BY <1>2, <1>3, <2>1, <2>3, <2>4
<1> HIDE DEF c, d
<1>7. d = Append(c, HelperCalls(e))
  BY <1>2, <1>3, <1>5, <1>6, SeqEqual
<1>8. FlattenSeq(d) = FlattenSeq(c) \o HelperCalls(e)
  BY <1>1, <1>4, <1>7, FlattenAppend
<1> QED
  BY <1>8 DEF Calls, c, d

\* The last item of a sequence.
Ends(s, x) == s # <<>> /\ s[Len(s)] = x

\* The cases of Emitted exclude each other.
LEMMA PairKinds ==
  ASSUME NEW s, NEW i \in Int
  PROVE  /\ Pair(s, i) => s[i].kind = "load" /\ ~ Pair(s, i - 1) /\ s[i] # Instruction
         /\ Pair(s, i - 1) => s[i].kind = "store" /\ s[i] # Instruction
<1>1. Pair(s, i) => s[i].kind = "load"
  BY DEF Pair
<1>2. Pair(s, i - 1) => s[i].kind = "store"
  <2>1. (i - 1) + 1 = i
    OBVIOUS
  <2>2. Pair(s, i - 1) => s[i] = Item("store", s[i - 1].loc)
    BY <2>1, Zenon DEF Pair
  <2> QED
    BY <2>2 DEF Item
<1>3. Instruction.kind = "Ir"
  BY DEF Instruction, Item
<1> QED
  BY <1>1, <1>2, <1>3

LEMMA EmittedType ==
  ASSUME NEW s \in Seq(InItem), NEW i \in 1..Len(s)
  PROVE  Emitted(s, i) \in Seq(OutItem)
<1>1. s[i] \in InItem
  BY ElementOfSeq
<1>2. CASE s[i] = Instruction
  <2>1. Emitted(s, i) = <<>>
    BY <1>2, PairKinds DEF Emitted
  <2> QED
    BY <2>1, EmptySeq
<1>3. CASE s[i] # Instruction /\ Pair(s, i)
  <2>1. s[i].loc \in Location
    BY <1>1, <1>3 DEF InItem, Access, Pair, Item, SideExit
  <2>2. Item("modify", s[i].loc) \in OutItem
    BY <2>1 DEF OutItem, Access
  <2>3. Emitted(s, i) = <<Item("modify", s[i].loc)>>
    BY <1>3, PairKinds DEF Emitted
  <2> QED
    BY <2>2, <2>3
<1>4. CASE s[i] # Instruction /\ ~ Pair(s, i) /\ Pair(s, i - 1)
  <2>1. Emitted(s, i) = <<>>
    BY <1>4 DEF Emitted
  <2> QED
    BY <2>1, EmptySeq
<1>5. CASE s[i] # Instruction /\ ~ Pair(s, i) /\ ~ Pair(s, i - 1)
  <2>1. Emitted(s, i) = <<s[i]>>
    BY <1>5 DEF Emitted
  <2>2. s[i] \in OutItem
    BY <1>1, <1>5 DEF InItem, OutItem, Access
  <2> QED
    BY <2>1, <2>2
<1> QED
  BY <1>2, <1>3, <1>4, <1>5

LEMMA EmissionsType ==
  ASSUME NEW s \in Seq(InItem)
  PROVE  /\ [i \in 1..Len(s) |-> Emitted(s, i)] \in Seq(Seq(OutItem))
         /\ Len([i \in 1..Len(s) |-> Emitted(s, i)]) = Len(s)
<1> DEFINE n == Len(s)
<1>1. n \in Nat /\ \A i \in 1..n : Emitted(s, i) \in Seq(OutItem)
  BY LenProperties, EmittedType
<1> HIDE DEF n
<1>2. [i \in 1..n |-> Emitted(s, i)] \in [1..n -> Seq(OutItem)]
  BY <1>1
<1>3. \A f \in [1..n -> Seq(OutItem)] : f \in Seq(Seq(OutItem)) /\ Len(f) = n
  BY <1>1
<1> QED
  BY <1>2, <1>3 DEF n

LEMMA PromisedType ==
  ASSUME NEW s \in Seq(InItem)
  PROVE  Promised(s) \in Seq(OutItem)
BY EmissionsType, FlattenType DEF Promised

LEMMA PromisedEmpty == Promised(<<>>) = <<>>
BY DEF Promised, FlattenSeq

\* What comes later changes what is emitted for the last item at most.
LEMMA EmittedBefore ==
  ASSUME NEW s \in Seq(InItem), NEW e \in InItem, NEW i \in 1..Len(s),
         i < Len(s) \/ ~ Pair(Append(s, e), Len(s))
  PROVE  Emitted(Append(s, e), i) = Emitted(s, i)
<1>1. /\ Len(s) \in Nat /\ Len(Append(s, e)) = Len(s) + 1
      /\ \A j \in 1..Len(s) : Append(s, e)[j] = s[j]
  BY AppendProperties
<1>2. Pair(Append(s, e), i) = Pair(s, i)
  <2>1. CASE i < Len(s)
    <3>1. i \in 1..Len(s) /\ i + 1 \in 1..Len(s)
      BY <2>1
    <3>2. Append(s, e)[i] = s[i] /\ Append(s, e)[i + 1] = s[i + 1]
      BY <1>1, <3>1, Zenon
    <3>3. i \in 1..(Len(s) - 1) /\ i \in 1..(Len(Append(s, e)) - 1)
      BY <1>1, <2>1
    <3> QED
      BY <3>2, <3>3, Zenon DEF Pair
  <2>2. CASE ~ (i < Len(s))
    <3>1. i = Len(s) /\ i \notin 1..(Len(s) - 1)
      BY <2>2
    <3>2. ~ Pair(Append(s, e), i)
      BY <2>2, <3>1
    <3>3. ~ Pair(s, i)
      BY <3>1 DEF Pair
    <3> QED
      BY <3>2, <3>3, Zenon DEF Pair
  <2> QED
    BY <2>1, <2>2
<1>3. Pair(Append(s, e), i - 1) = Pair(s, i - 1)
  <2>1. CASE i = 1
    <3>1. ~ (i - 1 \in 1..(Len(s) - 1)) /\ ~ (i - 1 \in 1..(Len(Append(s, e)) - 1))
      BY <2>1
    <3> QED
      BY <3>1, Zenon DEF Pair
  <2>2. CASE i # 1
    <3>1. i - 1 \in 1..Len(s) /\ (i - 1) + 1 = i
      BY <2>2
    <3>2. Append(s, e)[i - 1] = s[i - 1] /\ Append(s, e)[(i - 1) + 1] = s[(i - 1) + 1]
      BY <1>1, <3>1
    <3>3. i - 1 \in 1..(Len(s) - 1) /\ i - 1 \in 1..(Len(Append(s, e)) - 1)
      BY <1>1, <2>2
    <3> QED
      BY <3>2, <3>3, Zenon DEF Pair
  <2> QED
    BY <2>1, <2>2
<1>4. Append(s, e)[i] = s[i]
  BY <1>1
<1> QED
  BY <1>2, <1>3, <1>4, Zenon DEF Emitted

\* An item that is not merged with the one before it.
LEMMA PromisedAppend ==
  ASSUME NEW s \in Seq(InItem), NEW e \in InItem, ~ Pair(Append(s, e), Len(s))
  PROVE  Promised(Append(s, e)) = Promised(s) \o HelperCalls(e)
<1> DEFINE r == Append(s, e)
           n == Len(s)
           c == [i \in 1..Len(s) |-> Emitted(s, i)]
           d == [i \in 1..Len(r) |-> Emitted(r, i)]
           x == HelperCalls(e)
<1>1. n \in Nat /\ r \in Seq(InItem) /\ Len(r) = n + 1 /\ r[n + 1] = e
  BY AppendProperties
<1>2. c \in Seq(Seq(OutItem)) /\ Len(c) = n
  BY EmissionsType
<1>3. d \in Seq(Seq(OutItem)) /\ Len(d) = n + 1
  BY <1>1, EmissionsType
<1>4. x \in Seq(OutItem)
  BY HelperCallsType
<1>5. Emitted(r, n + 1) = x
  <2>1. ~ Pair(r, n + 1)
    BY <1>1 DEF Pair
  <2>2. (n + 1) - 1 = n /\ ~ Pair(r, (n + 1) - 1)
    BY <1>1
  <2> HIDE DEF r, n
  <2> QED
    BY <1>1, <2>1, <2>2 DEF Emitted, HelperCalls
<1>6. \A i \in 1..n : d[i] = c[i]
  <2> SUFFICES ASSUME NEW i \in 1..n PROVE d[i] = c[i]
    OBVIOUS
  <2>1. Emitted(r, i) = Emitted(s, i)
    BY EmittedBefore
  <2>2. i \in 1..Len(r)
    BY <1>1
  <2> QED
    BY <2>1, <2>2
<1>7. d[n + 1] = x
  BY <1>1, <1>5
<1>8. d = Append(c, x)
  <2> HIDE DEF c, d, x, n
  <2>1. /\ Append(c, x) \in Seq(Seq(OutItem)) /\ Len(Append(c, x)) = n + 1
        /\ \A i \in 1..n : Append(c, x)[i] = c[i]
        /\ Append(c, x)[n + 1] = x
    BY <1>2, <1>4, AppendProperties
  <2>2. \A i \in 1..(n + 1) : i \in 1..n \/ i = n + 1
    BY <1>1
  <2>3. \A i \in 1..Len(d) : d[i] = Append(c, x)[i]
    BY <1>3, <1>6, <1>7, <2>1, <2>2, Zenon
  <2> QED
    BY <1>3, <2>1, <2>3, SeqEqual
<1> HIDE DEF c, d, x
<1>9. FlattenSeq(d) = FlattenSeq(c) \o x
  BY <1>2, <1>4, <1>8, FlattenAppend
<1> QED
  BY <1>9 DEF Promised, c, d, x

\* A load and the store that completes it.
LEMMA PromisedMerge ==
  ASSUME NEW s \in Seq(InItem), NEW l \in Location
  PROVE  Promised(Append(Append(s, Item("load", l)), Item("store", l)))
           = Promised(s) \o <<Item("modify", l)>>
<1> DEFINE a == Append(s, Item("load", l))
           b == Append(a, Item("store", l))
           n == Len(s)
           c == [i \in 1..Len(s) |-> Emitted(s, i)]
           d == [i \in 1..Len(b) |-> Emitted(b, i)]
           x == <<Item("modify", l)>>
<1>1. Item("load", l) \in InItem /\ Item("store", l) \in InItem /\ x \in Seq(OutItem)
  <2>1. Item("modify", l) \in OutItem
    BY DEF OutItem, Access
  <2> QED
    BY <2>1 DEF InItem, Access
<1>2. n \in Nat /\ a \in Seq(InItem) /\ Len(a) = n + 1 /\ a[n + 1] = Item("load", l)
  BY <1>1, AppendProperties
<1>3. /\ b \in Seq(InItem) /\ Len(b) = n + 2 /\ b[n + 1] = Item("load", l)
      /\ b[n + 2] = Item("store", l)
  <2>1. /\ b \in Seq(InItem) /\ Len(b) = Len(a) + 1 /\ \A i \in 1..Len(a) : b[i] = a[i]
        /\ b[Len(a) + 1] = Item("store", l)
    BY <1>1, <1>2, AppendProperties
  <2>2. n + 1 \in 1..Len(a) /\ Len(a) + 1 = n + 2
    BY <1>2
  <2> HIDE DEF a, b, n
  <2> QED
    BY <1>2, <2>1, <2>2
<1>4. c \in Seq(Seq(OutItem)) /\ Len(c) = n
  BY EmissionsType
<1>5. d \in Seq(Seq(OutItem)) /\ Len(d) = n + 2
  BY <1>3, EmissionsType
<1>6. Pair(b, n + 1) /\ ~ Pair(b, n + 2) /\ ~ Pair(a, n)
  <2> HIDE DEF a, b, n
  <2>1. (n + 1) + 1 = n + 2 /\ n + 1 \in 1..(Len(b) - 1) /\ n + 2 \notin 1..(Len(b) - 1)
    BY <1>2, <1>3
  <2>2. Item("load", l).kind = "load" /\ Item("load", l).loc = l
    BY DEF Item
  <2>3. \A m : Item("store", m) # Item("load", l)
    BY DEF Item
  <2> QED
    BY <1>2, <1>3, <2>1, <2>2, <2>3, Zenon DEF Pair
<1>7. Emitted(b, n + 1) = x
  <2> HIDE DEF a, b, n
  <2>1. b[n + 1].loc = l
    BY <1>3 DEF Item
  <2>2. b[n + 1] # Instruction /\ ~ Pair(b, (n + 1) - 1)
    BY <1>2, <1>6, PairKinds
  <2> QED
    BY <1>6, <2>1, <2>2 DEF Emitted
<1>8. Emitted(b, n + 2) = <<>>
  <2> HIDE DEF a, b, n
  <2>1. (n + 2) - 1 = n + 1
    BY <1>2
  <2>2. b[n + 2] # Instruction
    BY <1>3 DEF Item, Instruction
  <2> QED
    BY <1>6, <2>1, <2>2 DEF Emitted
<1>9. \A i \in 1..n : d[i] = c[i]
  <2> SUFFICES ASSUME NEW i \in 1..n PROVE d[i] = c[i]
    OBVIOUS
  <2>1. Emitted(a, i) = Emitted(s, i)
    BY <1>1, <1>6, EmittedBefore
  <2>2. Emitted(b, i) = Emitted(a, i)
    <3>1. i \in 1..Len(a) /\ i < Len(a)
      BY <1>2
    <3> HIDE DEF a
    <3> QED
      BY <1>1, <1>2, <3>1, EmittedBefore
  <2>3. i \in 1..Len(b)
    BY <1>2, <1>3
  <2> QED
    BY <2>1, <2>2, <2>3
<1>10. d[n + 1] = x /\ d[n + 2] = <<>>
  <2>1. n + 1 \in 1..Len(b) /\ n + 2 \in 1..Len(b)
    BY <1>2, <1>3
  <2> QED
    BY <1>7, <1>8, <2>1
<1>11. <<>> \in Seq(OutItem)
  BY EmptySeq
<1>12. Append(c, x) \in Seq(Seq(OutItem))
  BY <1>1, <1>4, AppendProperties
<1>13. d = Append(Append(c, x), <<>>)
  <2> HIDE DEF a, b, c, d, x, n
  <2>1. /\ Len(Append(c, x)) = n + 1
        /\ \A i \in 1..n : Append(c, x)[i] = c[i]
        /\ Append(c, x)[n + 1] = x
    BY <1>1, <1>4, AppendProperties
  <2> DEFINE f == Append(Append(c, x), <<>>)
  <2>2. /\ f \in Seq(Seq(OutItem)) /\ Len(f) = Len(Append(c, x)) + 1
        /\ \A i \in 1..Len(Append(c, x)) : f[i] = Append(c, x)[i]
        /\ f[Len(Append(c, x)) + 1] = <<>>
    BY <1>11, <1>12, AppendProperties
  <2> HIDE DEF f
  <2>3. /\ \A i \in 1..(n + 2) : i \in 1..n \/ i = n + 1 \/ i = n + 2
        /\ \A i \in 1..n : i \in 1..(n + 1)
        /\ n + 1 \in 1..(n + 1) /\ (n + 1) + 1 = n + 2
    BY <1>2
  <2>4. /\ \A i \in 1..n : f[i] = c[i]
        /\ f[n + 1] = x /\ f[n + 2] = <<>> /\ Len(f) = n + 2
    BY <2>1, <2>2, <2>3
  <2>5. \A i \in 1..Len(d) : d[i] = f[i]
    BY <1>5, <1>9, <1>10, <2>3, <2>4, Zenon
  <2>6. d = f
    BY <1>5, <2>2, <2>4, <2>5, SeqEqual
  <2> QED
    BY <2>6 DEF f
<1> HIDE DEF c, d, x
<1>14. FlattenSeq(d) = FlattenSeq(Append(c, x)) \o <<>>
  BY <1>11, <1>12, <1>13, FlattenAppend
<1>15. FlattenSeq(Append(c, x)) \in Seq(OutItem)
  BY <1>12, FlattenType
<1>16. FlattenSeq(d) = FlattenSeq(Append(c, x))
  BY <1>14, <1>15, ConcatEmptySeq
<1>17. FlattenSeq(Append(c, x)) = FlattenSeq(c) \o x
  BY <1>1, <1>4, FlattenAppend
<1> QED
  BY <1>16, <1>17 DEF Promised, c, d, x

-----------------------------------------------------------------------------
(* What each addition to the queue preserves.                              *)

\* At every exit, the accesses before it have been emitted.
ExitsOK(s, out) ==
  \A i \in Exits(s) : \E j \in Exits(out) : SubSeq(out, 1, j) = Promised(SubSeq(s, 1, i))

\* What is emitted and what is queued are the promise cut in two.
Reported(s, q) ==
  /\ s \in Seq(InItem)
  /\ q \in [events : Seq(Event), sbOut : Seq(OutItem)]
  /\ Len(q.events) <= N_EVENTS
  /\ q.sbOut \o Calls(q.events) = Promised(s)
  /\ ExitsOK(s, q.sbOut)

\* A store finds the load that it completes in the last slot.
EndsAgree(s, q) ==
  \A l \in Location : Ends(q.events, Item("load", l)) <=> Ends(s, Item("load", l))

\* Calls emitted later change nothing of what exits have found.
LEMMA ExitsLonger ==
  ASSUME NEW s, NEW out \in Seq(OutItem), NEW more \in Seq(OutItem), ExitsOK(s, out)
  PROVE  ExitsOK(s, out \o more)
<1> SUFFICES ASSUME NEW i \in Exits(s)
             PROVE  \E j \in Exits(out \o more) :
                      SubSeq(out \o more, 1, j) = Promised(SubSeq(s, 1, i))
  BY DEF ExitsOK
<1>1. PICK j \in Exits(out) : SubSeq(out, 1, j) = Promised(SubSeq(s, 1, i))
  BY DEF ExitsOK
<1>2. /\ Len(out) \in Nat /\ Len(more) \in Nat /\ Len(out \o more) = Len(out) + Len(more)
      /\ j \in 1..Len(out) /\ out[j] = SideExit /\ (out \o more)[j] = out[j]
  BY <1>1, ConcatProperties DEF Exits
<1>3. j \in Exits(out \o more)
  BY <1>2 DEF Exits
<1>4. SubSeq(out \o more, 1, j) = SubSeq(out, 1, j)
  <2>1. 1 \in 1..Len(out)
    BY <1>2
  <2> QED
    BY <1>2, <2>1, SubSeqOfConcat1
<1> QED
  BY <1>1, <1>3, <1>4

\* Events and exits added at the ends change nothing of what was there.
LEMMA ExitsKept ==
  ASSUME NEW s \in Seq(InItem), NEW e \in InItem, e # SideExit,
         NEW out \in Seq(OutItem), NEW more \in Seq(OutItem), ExitsOK(s, out)
  PROVE  ExitsOK(Append(s, e), out \o more)
<1> SUFFICES ASSUME NEW i \in Exits(Append(s, e))
             PROVE  \E j \in Exits(out \o more) :
                      SubSeq(out \o more, 1, j) = Promised(SubSeq(Append(s, e), 1, i))
  BY DEF ExitsOK
<1>1. /\ Len(Append(s, e)) = Len(s) + 1 /\ Len(s) \in Nat
      /\ \A k \in 1..Len(s) : Append(s, e)[k] = s[k]
      /\ Append(s, e)[Len(s) + 1] = e
  BY AppendProperties
<1>2. i \in 1..Len(s) /\ i \in Exits(s)
  BY <1>1 DEF Exits
<1>3. PICK j \in Exits(out) : SubSeq(out, 1, j) = Promised(SubSeq(s, 1, i))
  BY <1>2 DEF ExitsOK
<1>4. /\ Len(out) \in Nat /\ Len(more) \in Nat /\ Len(out \o more) = Len(out) + Len(more)
      /\ j \in 1..Len(out) /\ out[j] = SideExit /\ (out \o more)[j] = out[j]
  BY <1>3, ConcatProperties DEF Exits
<1>5. j \in Exits(out \o more)
  BY <1>4 DEF Exits
<1>6. SubSeq(out \o more, 1, j) = SubSeq(out, 1, j)
  <2>1. 1 \in 1..Len(out)
    BY <1>4
  <2> QED
    BY <1>4, <2>1, SubSeqOfConcat1
<1>7. SubSeq(Append(s, e), 1, i) = SubSeq(s, 1, i)
  <2>1. Append(s, e) = s \o <<e>> /\ <<e>> \in Seq(InItem) /\ 1 \in 1..Len(s)
    BY <1>2, AppendIsConcat
  <2> QED
    BY <1>2, <2>1, SubSeqOfConcat1
<1> QED
  BY <1>3, <1>5, <1>6, <1>7

\* flush_events empties the queue and changes nothing of the promise.
LEMMA FlushKeeps ==
  ASSUME NEW s, NEW q, Reported(s, q)
  PROVE  /\ Flush(q).events = <<>>
         /\ Flush(q).sbOut = q.sbOut \o Calls(q.events)
         /\ Flush(q).sbOut = Promised(s) /\ Flush(q).sbOut \in Seq(OutItem)
         /\ Flush(q) \in [events : Seq(Event), sbOut : Seq(OutItem)]
<1>1. q.sbOut \in Seq(OutItem) /\ q.events \in Seq(Event)
  BY DEF Reported
<1>2. Calls(q.events) \in Seq(OutItem)
  BY <1>1, CallsType
<1>3. q.sbOut \o Calls(q.events) \in Seq(OutItem)
  BY <1>1, <1>2, ConcatProperties
<1>4. Flush(q) = [events |-> <<>>, sbOut |-> q.sbOut \o Calls(q.events)]
  BY Zenon DEF Flush, Calls
<1>5. <<>> \in Seq(Event)
  BY EmptySeq
<1> QED
  BY <1>3, <1>4, <1>5 DEF Reported

\* With room made, there is a free slot, and more may have been emitted.
LEMMA RoomMade ==
  ASSUME NEW s, NEW q, Reported(s, q)
  PROVE  /\ MakeRoom(q) \in [events : Seq(Event), sbOut : Seq(OutItem)]
         /\ Len(MakeRoom(q).events) < N_EVENTS
         /\ MakeRoom(q).sbOut \o Calls(MakeRoom(q).events) = Promised(s)
         /\ \E more \in Seq(OutItem) : MakeRoom(q).sbOut = q.sbOut \o more
<1>1. q.sbOut \in Seq(OutItem) /\ q.events \in Seq(Event) /\ Len(q.events) \in Nat
  BY DEF Reported
<1>2. CASE Len(q.events) = N_EVENTS
  <2>1. MakeRoom(q) = Flush(q)
    BY <1>2 DEF MakeRoom
  <2>2. Calls(q.events) \in Seq(OutItem)
    BY <1>1, CallsType
  <2>3. Len(<<>>) = 0 /\ 0 < N_EVENTS
    BY CapacityAssumption
  <2>4. Flush(q).sbOut \o Calls(Flush(q).events) = Promised(s)
    <3> DEFINE o == Flush(q).sbOut
               p == Promised(s)
    <3>1. /\ Flush(q).events = <<>> /\ Flush(q).sbOut = Promised(s)
          /\ Flush(q).sbOut \in Seq(OutItem)
      BY FlushKeeps
    <3>2. Calls(Flush(q).events) = <<>>
      BY <3>1, CallsEmpty
    <3>3. o \in Seq(OutItem) /\ o = p
      BY <3>1
    <3> HIDE DEF o, p
    <3>4. o \o <<>> = p
      BY <3>3, ConcatEmptySeq
    <3> QED
      BY <3>2, <3>4 DEF o, p
  <2> QED
    BY <2>1, <2>2, <2>3, <2>4, FlushKeeps
<1>3. CASE Len(q.events) # N_EVENTS
  <2>1. MakeRoom(q) = q
    BY <1>3 DEF MakeRoom
  <2>2. Len(q.events) < N_EVENTS
    BY <1>1, <1>3, CapacityAssumption DEF Reported
  <2>3. q.sbOut = q.sbOut \o <<>> /\ <<>> \in Seq(OutItem)
    BY <1>1, ConcatEmptySeq, EmptySeq
  <2> QED
    BY <2>1, <2>2, <2>3 DEF Reported
<1> QED
  BY <1>2, <1>3

\* An event in a new slot stands for an item that completes nothing.
LEMMA Enqueued ==
  ASSUME NEW s, NEW q, Reported(s, q), NEW e \in Event \cap InItem,
         ~ Pair(Append(s, e), Len(s))
  PROVE  Reported(Append(s, e), Enqueue(q, e)) /\ EndsAgree(Append(s, e), Enqueue(q, e))
<1> DEFINE room == MakeRoom(q)
           new == Append(room.events, e)
<1>1. /\ room \in [events : Seq(Event), sbOut : Seq(OutItem)]
      /\ Len(room.events) < N_EVENTS
      /\ room.sbOut \o Calls(room.events) = Promised(s)
  BY RoomMade
<1>2. PICK more \in Seq(OutItem) : room.sbOut = q.sbOut \o more
  BY RoomMade
<1> HIDE DEF room
<1>3. Enqueue(q, e) = [events |-> new, sbOut |-> room.sbOut]
  <2> HIDE DEF new
  <2>1. PICK ev \in Seq(Event), out \in Seq(OutItem) : room = [events |-> ev, sbOut |-> out]
    BY <1>1
  <2>2. [room EXCEPT !.events = new] = [events |-> new, sbOut |-> out] /\ room.sbOut = out
    BY <2>1
  <2>3. [room EXCEPT !.events = new] = [events |-> new, sbOut |-> room.sbOut]
    BY <2>2
  <2> QED
    BY <2>3, Zenon DEF Enqueue, room, new
<1>4. /\ room.events \in Seq(Event) /\ room.sbOut \in Seq(OutItem) /\ s \in Seq(InItem)
      /\ q.sbOut \in Seq(OutItem)
  BY <1>1 DEF Reported
<1>5. /\ new \in Seq(Event) /\ Len(new) = Len(room.events) + 1 /\ new # <<>>
      /\ new[Len(new)] = e
  BY <1>4, AppendProperties
<1>6. /\ Append(s, e) \in Seq(InItem) /\ Append(s, e) # <<>>
      /\ Append(s, e)[Len(Append(s, e))] = e
  BY <1>4, AppendProperties
<1>7. Len(new) <= N_EVENTS
  BY <1>1, <1>4, <1>5, CapacityAssumption
<1>8. room.sbOut \o Calls(new) = Promised(Append(s, e))
  <2>1. Calls(new) = Calls(room.events) \o HelperCalls(e)
    BY <1>4, CallsAppend
  <2>2. Promised(Append(s, e)) = Promised(s) \o HelperCalls(e)
    BY <1>4, PromisedAppend
  <2>3. Calls(room.events) \in Seq(OutItem) /\ HelperCalls(e) \in Seq(OutItem)
    BY <1>4, CallsType, HelperCallsType
  <2>4. (room.sbOut \o Calls(room.events)) \o HelperCalls(e)
          = room.sbOut \o (Calls(room.events) \o HelperCalls(e))
    <3> DEFINE y == Calls(room.events)
               z == HelperCalls(e)
               o == room.sbOut
    <3>1. y \in Seq(OutItem) /\ z \in Seq(OutItem) /\ o \in Seq(OutItem)
      BY <1>4, <2>3
    <3> HIDE DEF y, z, o
    <3>2. (o \o y) \o z = o \o (y \o z)
      BY <3>1, ConcatAssociative, SMTT(30)
    <3> QED
      BY <3>2 DEF y, z, o
  <2> QED
    BY <1>1, <2>1, <2>2, <2>4
<1>9. ExitsOK(Append(s, e), room.sbOut)
  <2>1. e # SideExit
    BY DEF Event, Access, Item, Instruction, SideExit
  <2>2. ExitsOK(s, q.sbOut)
    BY DEF Reported
  <2>3. ExitsOK(Append(s, e), q.sbOut \o more)
    BY <1>4, <2>1, <2>2, ExitsKept
  <2> QED
    BY <1>2, <2>3
<1> HIDE DEF new
<1>10. Reported(Append(s, e), Enqueue(q, e))
  <2>1. Enqueue(q, e).events = new /\ Enqueue(q, e).sbOut = room.sbOut
    BY <1>3
  <2>2. Enqueue(q, e) \in [events : Seq(Event), sbOut : Seq(OutItem)]
    BY <1>3, <1>4, <1>5
  <2> QED
    BY <1>6, <1>7, <1>8, <1>9, <2>1, <2>2, Zenon DEF Reported
<1>11. EndsAgree(Append(s, e), Enqueue(q, e))
  BY <1>3, <1>5, <1>6 DEF EndsAgree, Ends
<1> QED
  BY <1>10, <1>11

\* A sequence that ends with an element, without it.
LEMMA WithoutEnd ==
  ASSUME NEW E, NEW s \in Seq(E), NEW x, Ends(s, x)
  PROVE  x \in E /\ Front(s) \in Seq(E) /\ s = Append(Front(s), x)
<1>1. PICK r \in Seq(E), e \in E : s = Append(r, e)
  BY SequenceEmptyOrAppend DEF Ends
<1>2. /\ Len(s) = Len(r) + 1 /\ Len(r) \in Nat /\ s[Len(s)] = e
      /\ \A i \in 1..Len(r) : s[i] = r[i]
  BY <1>1, AppendProperties
<1>3. e = x
  BY <1>2 DEF Ends
<1>4. Front(s) = r
  <2> DEFINE f == SubSeq(s, 1, Len(s) - 1)
  <2>1. \A i \in 1..(Len(s) - 1) : s[i] \in E
    BY <1>2, ElementOfSeq
  <2>2. Len(s) - 1 = Len(r)
    BY <1>2
  <2>3. f \in Seq(E) /\ Len(f) = Len(r) /\ \A i \in 1..Len(r) : f[i] = s[i]
    <3>1. /\ f \in Seq(E) /\ Len(f) = IF 1 <= Len(s) - 1 THEN Len(s) - 1 - 1 + 1 ELSE 0
          /\ \A i \in 1..(Len(s) - 1 - 1 + 1) : f[i] = s[1 + i - 1]
      BY <1>2, <2>1, SubSeqProperties
    <3> HIDE DEF f
    <3> QED
      BY <1>2, <3>1
  <2> HIDE DEF f
  <2>4. f = r
    BY <1>2, <2>3, SeqEqual
  <2> QED
    BY <2>4 DEF f, Front
<1> QED
  BY <1>1, <1>3, <1>4

\* addEvent_Dw with the load it completes in the last slot.
LEMMA Merged ==
  ASSUME NEW s, NEW q, Reported(s, q), EndsAgree(s, q), NEW l \in Location,
         Ends(q.events, Item("load", l)),
         NEW p, p = [q EXCEPT !.events = Front(@) \o <<Item("modify", l)>>]
  PROVE  /\ Reported(Append(s, Item("store", l)), p)
         /\ EndsAgree(Append(s, Item("store", l)), p)
<1> DEFINE load == Item("load", l)
           store == Item("store", l)
           modify == Item("modify", l)
           es == Front(q.events)
           s0 == Front(s)
           next == Append(s, store)
           new == Append(es, modify)
<1>1. /\ s \in Seq(InItem) /\ q.events \in Seq(Event) /\ q.sbOut \in Seq(OutItem)
      /\ Len(q.events) <= N_EVENTS
  BY DEF Reported
<1>2. es \in Seq(Event) /\ q.events = Append(es, load)
  BY <1>1, WithoutEnd
<1>3. s0 \in Seq(InItem) /\ s = Append(s0, load)
  <2>1. Ends(s, load)
    BY DEF EndsAgree
  <2> QED
    BY <1>1, <2>1, WithoutEnd
<1>4. /\ load \in InItem \cap Event /\ store \in InItem /\ modify \in Event
      /\ HelperCalls(load) = <<load>> /\ HelperCalls(modify) = <<modify>>
      /\ <<load>> \in Seq(OutItem) /\ <<modify>> \in Seq(OutItem)
  <2>1. load \in OutItem /\ modify \in OutItem
    BY DEF OutItem, Access
  <2>2. load \in InItem \cap Event /\ store \in InItem /\ modify \in Event
    BY DEF InItem, Event, Access
  <2>3. load # Instruction /\ modify # Instruction
    BY DEF Item, Instruction
  <2> HIDE DEF load, modify, store
  <2>4. <<load>> \in Seq(OutItem) /\ <<modify>> \in Seq(OutItem)
    BY <2>1
  <2> QED
    BY <2>2, <2>3, <2>4 DEF HelperCalls
<1>5. /\ load # store /\ load # modify /\ store # SideExit
      /\ \A m : /\ Item("load", m) # store
               /\ Item("load", m) # modify
               /\ Item("store", m) # load
  BY DEF Item, SideExit
<1>6. Promised(next) = Promised(s0) \o <<modify>>
  BY <1>3, PromisedMerge
<1> HIDE DEF load, store, modify, es, s0
<1>7. p.events = new /\ p.sbOut = q.sbOut /\ p = [events |-> new, sbOut |-> q.sbOut]
  <2>1. PICK ev \in Seq(Event), out \in Seq(OutItem) : q = [events |-> ev, sbOut |-> out]
    BY DEF Reported
  <2>2. Front(q.events) \o <<Item("modify", l)>> = new
    <3>1. es \o <<modify>> = new
      BY <1>2, <1>4, AppendIsConcat
    <3> QED
      BY <3>1 DEF es, modify
  <2>3. Front(ev) \o <<Item("modify", l)>> = new
    BY <2>1, <2>2
  <2>4. p = [events |-> Front(ev) \o <<Item("modify", l)>>, sbOut |-> out]
    BY <2>1
  <2> HIDE DEF new
  <2> QED
    BY <2>1, <2>3, <2>4
<1>8. /\ new \in Seq(Event) /\ Len(new) = Len(es) + 1 /\ new # <<>> /\ new[Len(new)] = modify
      /\ Len(q.events) = Len(es) + 1
  BY <1>2, <1>4, AppendProperties
<1>9. /\ next \in Seq(InItem) /\ next # <<>> /\ next[Len(next)] = store
  BY <1>1, <1>4, AppendProperties
<1>10. q.sbOut \o Calls(new) = Promised(next)
  <2> DEFINE c == Calls(es)
             o == q.sbOut
             p0 == Promised(s0)
  <2>1. c \in Seq(OutItem) /\ p0 \in Seq(OutItem) /\ o \in Seq(OutItem)
    BY <1>1, <1>2, <1>3, CallsType, PromisedType
  <2>2. Calls(q.events) = c \o <<load>> /\ Calls(new) = c \o <<modify>>
    BY <1>2, <1>4, CallsAppend
  <2>3. Promised(s) = p0 \o <<load>>
    <3>1. ~ Pair(s, Len(s0))
      <4>1. Len(s0) \in Nat /\ s[Len(s0) + 1] = load
        BY <1>3, <1>4, AppendProperties
      <4> QED
        BY <1>5, <4>1, Zenon DEF Pair
    <3> QED
      BY <1>3, <1>4, <3>1, PromisedAppend
  <2>4. o \o (c \o <<load>>) = p0 \o <<load>>
    BY <2>2, <2>3 DEF Reported
  <2> HIDE DEF c, o, p0
  <2>5. /\ o \o (c \o <<load>>) = (o \o c) \o <<load>>
        /\ o \o (c \o <<modify>>) = (o \o c) \o <<modify>>
    BY <1>4, <2>1, ConcatAssociative
  <2>6. o \o c \in Seq(OutItem)
    BY <2>1, ConcatProperties
  <2>7. o \o c = p0
    <3>1. \A a, b, v \in Seq(OutItem) : a \o v = b \o v => a = b
      BY ConcatSimplifications
    <3> QED
      BY <1>4, <2>1, <2>4, <2>5, <2>6, <3>1
  <2>8. o \o (c \o <<modify>>) = p0 \o <<modify>>
    BY <2>5, <2>7
  <2> QED
    BY <1>6, <2>2, <2>8 DEF o, p0
<1>11. ExitsOK(next, q.sbOut)
  <2>1. <<>> \in Seq(OutItem) /\ q.sbOut \o <<>> = q.sbOut
    BY <1>1, EmptySeq, ConcatEmptySeq
  <2>2. ExitsOK(s, q.sbOut)
    BY DEF Reported
  <2>3. ExitsOK(next, q.sbOut \o <<>>)
    BY <1>1, <1>4, <1>5, <2>1, <2>2, ExitsKept
  <2> QED
    BY <2>1, <2>3
<1> HIDE DEF next, new
<1>12. Reported(next, p)
  <2>1. p \in [events : Seq(Event), sbOut : Seq(OutItem)]
    BY <1>1, <1>7, <1>8
  <2>2. Len(new) <= N_EVENTS
    BY <1>1, <1>8
  <2> QED
    BY <1>7, <1>9, <1>10, <1>11, <2>1, <2>2 DEF Reported
<1>13. EndsAgree(next, p)
  BY <1>5, <1>7, <1>8, <1>9 DEF EndsAgree, Ends
<1> QED
  BY <1>12, <1>13 DEF next, store

\* A queue and the statements it stands for.
InStep(s, q) == Reported(s, q) /\ EndsAgree(s, q)

LEMMA IrAdded ==
  ASSUME NEW s, NEW q, InStep(s, q)
  PROVE  InStep(Append(s, Instruction), addEvent_Ir(q))
<1>1. Instruction \in Event \cap InItem /\ \A m : Instruction # Item("store", m)
  BY DEF Event, InItem, Instruction, Item
<1>2. s \in Seq(InItem)
  BY DEF InStep, Reported
<1>3. ~ Pair(Append(s, Instruction), Len(s))
  <2>1. Append(s, Instruction)[Len(s) + 1] = Instruction
    BY <1>1, <1>2, AppendProperties
  <2> QED
    BY <1>1, <2>1, Zenon DEF Pair
<1> QED
  BY <1>1, <1>3, Enqueued DEF InStep, addEvent_Ir

LEMMA LoadAdded ==
  ASSUME NEW s, NEW q, InStep(s, q), NEW l \in Location
  PROVE  InStep(Append(s, Item("load", l)), addEvent_Dr(q, l))
<1> DEFINE load == Item("load", l)
<1>1. load \in Event \cap InItem /\ \A m : load # Item("store", m)
  BY DEF Event, InItem, Access, Item
<1>2. s \in Seq(InItem)
  BY DEF InStep, Reported
<1> HIDE DEF load
<1>3. ~ Pair(Append(s, load), Len(s))
  <2>1. Append(s, load)[Len(s) + 1] = load
    BY <1>1, <1>2, AppendProperties
  <2> QED
    BY <1>1, <2>1, Zenon DEF Pair
<1>4. Reported(s, q)
  BY DEF InStep
<1>5. Reported(Append(s, load), Enqueue(q, load)) /\ EndsAgree(Append(s, load), Enqueue(q, load))
  BY <1>1, <1>3, <1>4, Enqueued
<1> QED
  BY <1>5 DEF InStep, addEvent_Dr, load

LEMMA StoreAdded ==
  ASSUME NEW s, NEW q, InStep(s, q), NEW l \in Location
  PROVE  InStep(Append(s, Item("store", l)), addEvent_Dw(q, l))
<1> DEFINE store == Item("store", l)
<1>1. store \in Event \cap InItem
  BY DEF Event, InItem, Access
<1>2. s \in Seq(InItem) /\ Reported(s, q) /\ EndsAgree(s, q)
  BY DEF InStep, Reported
<1>3. (q.events # <<>> /\ Last(q.events) = Item("load", l)) <=> Ends(q.events, Item("load", l))
  BY DEF Ends, Last
<1>4. CASE Ends(q.events, Item("load", l))
  <2>1. addEvent_Dw(q, l) = [q EXCEPT !.events = Front(@) \o <<Item("modify", l)>>]
    BY <1>3, <1>4 DEF addEvent_Dw
  <2> QED
    BY <1>2, <1>4, <2>1, Merged DEF InStep
<1>5. CASE ~ Ends(q.events, Item("load", l))
  <2>1. addEvent_Dw(q, l) = Enqueue(q, store)
    BY <1>3, <1>5 DEF addEvent_Dw
  <2>2. ~ Ends(s, Item("load", l))
    BY <1>2, <1>5 DEF EndsAgree
  <2>3. ~ Pair(Append(s, store), Len(s))
    <3> DEFINE r == Append(s, store)
               n == Len(s)
    <3>1. n \in Nat /\ r[n + 1] = store /\ \A i \in 1..n : r[i] = s[i]
      BY <1>1, <1>2, AppendProperties
    <3> SUFFICES ASSUME Pair(r, n) PROVE FALSE
      OBVIOUS
    <3> HIDE DEF r
    <3>2. n \in 1..(Len(r) - 1) /\ r[n].kind = "load" /\ r[n + 1] = Item("store", r[n].loc)
      BY Zenon DEF Pair
    <3>3. n \in 1..n /\ r[n] = s[n] /\ s # <<>>
      BY <1>2, <3>1, <3>2, EmptySeq
    <3>4. r[n].loc = l
      BY <3>1, <3>2 DEF Item
    <3>5. s[n] \in InItem
      BY <1>2, <3>3, ElementOfSeq
    <3>6. s[n] = Item("load", l)
      BY <3>2, <3>3, <3>4, <3>5 DEF InItem, Access, Item, Instruction, SideExit
    <3> QED
      BY <2>2, <3>3, <3>6 DEF Ends
  <2> HIDE DEF store
  <2>4. InStep(Append(s, store), Enqueue(q, store))
    BY <1>1, <1>2, <2>3, Enqueued DEF InStep
  <2> QED
    BY <2>1, <2>4 DEF store
<1> QED
  BY <1>4, <1>5

\* The exit comes after everything that was queued.
LEMMA ExitAdded ==
  ASSUME NEW s, NEW q, InStep(s, q),
         NEW p, p = [Flush(q) EXCEPT !.sbOut = Append(@, SideExit)]
  PROVE  InStep(Append(s, SideExit), p)
<1> DEFINE out == Flush(q).sbOut
           new == Append(out, SideExit)
           next == Append(s, SideExit)
<1>1. s \in Seq(InItem) /\ Reported(s, q) /\ q.sbOut \in Seq(OutItem) /\ q.events \in Seq(Event)
  BY DEF InStep, Reported
<1>2. /\ Flush(q).events = <<>> /\ out = q.sbOut \o Calls(q.events)
      /\ out = Promised(s) /\ out \in Seq(OutItem)
      /\ Flush(q) \in [events : Seq(Event), sbOut : Seq(OutItem)]
  BY <1>1, FlushKeeps
<1>3. /\ SideExit \in InItem /\ SideExit \in OutItem /\ HelperCalls(SideExit) = <<SideExit>>
      /\ \A m : SideExit # Item("store", m) /\ SideExit # Item("load", m)
  BY DEF InItem, OutItem, HelperCalls, SideExit, Instruction, Item
<1> HIDE DEF out
<1>4. p.events = <<>> /\ p.sbOut = new /\ p = [events |-> <<>>, sbOut |-> new]
  <2>1. PICK ev \in Seq(Event), o \in Seq(OutItem) : Flush(q) = [events |-> ev, sbOut |-> o]
    BY <1>2
  <2>2. ev = <<>> /\ o = out
    BY <1>2, <2>1 DEF out
  <2> DEFINE f == Flush(q)
  <2>3. p = [f EXCEPT !.sbOut = new]
    BY Zenon DEF out
  <2> HIDE DEF f, new
  <2>4. f = [events |-> ev, sbOut |-> o]
    BY <2>1 DEF f
  <2>5. p = [events |-> ev, sbOut |-> new]
    BY <2>3, <2>4
  <2>6. p = [events |-> <<>>, sbOut |-> new]
    BY <2>2, <2>5, Zenon
  <2>7. \A o1, o2 : /\ [events |-> o1, sbOut |-> o2].events = o1
                   /\ [events |-> o1, sbOut |-> o2].sbOut = o2
    OBVIOUS
  <2> QED
    BY <2>6, <2>7, Zenon
<1>5. /\ new \in Seq(OutItem) /\ new = out \o <<SideExit>> /\ Len(new) = Len(out) + 1
      /\ \A i \in 1..Len(out) : new[i] = out[i] 
      /\ new[Len(out) + 1] = SideExit /\ Len(out) \in Nat
  BY <1>2, <1>3, AppendProperties, AppendIsConcat
<1>6. /\ next \in Seq(InItem) /\ Len(next) = Len(s) + 1 /\ Len(s) \in Nat /\ next # <<>>
      /\ \A i \in 1..Len(s) : next[i] = s[i]
      /\ next[Len(s) + 1] = SideExit /\ next = s \o <<SideExit>> /\ <<SideExit>> \in Seq(InItem)
  BY <1>1, <1>3, AppendProperties, AppendIsConcat
<1>7. Promised(next) = new
  <2>1. ~ Pair(next, Len(s))
    BY <1>3, <1>6, Zenon DEF Pair
  <2>2. Promised(next) = Promised(s) \o <<SideExit>>
    BY <1>1, <1>3, <2>1, PromisedAppend
  <2> QED
    BY <1>2, <1>5, <2>2
<1>8. new \o Calls(<<>>) = Promised(next)
  BY <1>5, <1>7, CallsEmpty, ConcatEmptySeq
<1> HIDE DEF new, next
<1>9. ExitsOK(next, new)
  <2> SUFFICES ASSUME NEW i \in Exits(next)
               PROVE  \E j \in Exits(new) : SubSeq(new, 1, j) = Promised(SubSeq(next, 1, i))
    BY DEF ExitsOK
  <2>1. CASE i = Len(s) + 1
    <3>1. SubSeq(next, 1, i) = next /\ SubSeq(new, 1, Len(new)) = new
      BY <1>5, <1>6, <2>1, SubSeqFull
    <3>2. Len(new) \in Exits(new)
      BY <1>5 DEF Exits
    <3> QED
      BY <1>7, <3>1, <3>2
  <2>2. CASE i # Len(s) + 1
    <3>1. i \in 1..Len(s) /\ i \in Exits(s)
      BY <1>6, <2>2 DEF Exits
    <3>2. PICK j \in Exits(q.sbOut) : SubSeq(q.sbOut, 1, j) = Promised(SubSeq(s, 1, i))
      BY <1>1, <3>1 DEF Reported, ExitsOK
    <3> DEFINE o == q.sbOut
               more == Calls(q.events) \o <<SideExit>>
    <3>3. Calls(q.events) \in Seq(OutItem) /\ <<SideExit>> \in Seq(OutItem)
      BY <1>1, <1>3, CallsType
    <3>4. more \in Seq(OutItem) /\ new = o \o more
      <4> DEFINE c == Calls(q.events)
                 x == <<SideExit>>
      <4>1. c \in Seq(OutItem) /\ x \in Seq(OutItem) /\ o \in Seq(OutItem)
        BY <1>1, <3>3
      <4>2. new = (o \o c) \o x
        BY <1>2, <1>5
      <4> HIDE DEF c, x, o
      <4>3. c \o x \in Seq(OutItem) /\ (o \o c) \o x = o \o (c \o x)
        BY <4>1, ConcatProperties, ConcatAssociative, SMTT(30)
      <4> QED
        BY <4>2, <4>3 DEF c, x
    <3>5. o \in Seq(OutItem) /\ j \in 1..Len(o) /\ o[j] = SideExit
      BY <1>1, <3>2 DEF Exits
    <3> HIDE DEF o, more
    <3>6. /\ Len(o) \in Nat /\ Len(more) \in Nat /\ Len(new) = Len(o) + Len(more)
          /\ new[j] = o[j]
      BY <3>4, <3>5, ConcatProperties
    <3>7. j \in Exits(new)
      BY <3>5, <3>6 DEF Exits
    <3>8. SubSeq(new, 1, j) = SubSeq(o, 1, j)
      <4>1. 1 \in 1..Len(o)
        BY <3>5, <3>6
      <4> QED
        BY <3>4, <3>5, <4>1, SubSeqOfConcat1
    <3>9. SubSeq(next, 1, i) = SubSeq(s, 1, i)
      <4>1. 1 \in 1..Len(s)
        BY <1>6, <3>1
      <4> QED
        BY <1>1, <1>6, <3>1, <4>1, SubSeqOfConcat1
    <3> QED
      BY <3>2, <3>7, <3>8, <3>9 DEF o
  <2> QED
    BY <2>1, <2>2
<1>10. Reported(next, p)
  <2>1. p \in [events : Seq(Event), sbOut : Seq(OutItem)]
    BY <1>4, <1>5, EmptySeq
  <2>2. Len(<<>>) <= N_EVENTS
    BY CapacityAssumption
  <2> QED
    BY <1>4, <1>6, <1>8, <1>9, <2>1, <2>2 DEF Reported
<1>11. EndsAgree(next, p)
  BY <1>3, <1>4, <1>6 DEF EndsAgree, Ends
<1> QED
  BY <1>10, <1>11 DEF InStep, next

-----------------------------------------------------------------------------
(* The inductive invariant.                                                *)

IInv ==
  /\ ended \in BOOLEAN
  /\ Reported(sbIn, Queue)
  /\ IF ended THEN events = <<>> ELSE EndsAgree(sbIn, Queue)

LEMMA EmptyQueue ==
  ASSUME NEW q, q = [events |-> <<>>, sbOut |-> <<>>]
  PROVE  InStep(<<>>, q)
<1>1. q.events = <<>> /\ q.sbOut = <<>>
  OBVIOUS
<1>2. <<>> \in Seq(InItem) /\ <<>> \in Seq(Event) /\ <<>> \in Seq(OutItem)
  BY EmptySeq
<1>3. q \in [events : Seq(Event), sbOut : Seq(OutItem)]
  BY <1>2
<1>4. Len(q.events) <= N_EVENTS
  BY <1>1, CapacityAssumption
<1>5. q.sbOut \o Calls(q.events) = Promised(<<>>)
  <2>1. <<>> \o <<>> = <<>>
    BY <1>2, ConcatEmptySeq
  <2> QED
    BY <1>1, <2>1, CallsEmpty, PromisedEmpty
<1>6. ExitsOK(<<>>, q.sbOut)
  BY DEF ExitsOK, Exits
<1> QED
  BY <1>1, <1>2, <1>3, <1>4, <1>5, <1>6 DEF InStep, Reported, EndsAgree, Ends

LEMMA Initially == Init => IInv
<1> SUFFICES ASSUME Init PROVE IInv
  OBVIOUS
<1>1. Queue = [events |-> <<>>, sbOut |-> <<>>] /\ sbIn = <<>> /\ ended = FALSE
  BY DEF Init, Queue
<1>2. InStep(sbIn, Queue)
  BY <1>1, EmptyQueue
<1> QED
  BY <1>1, <1>2 DEF IInv, InStep

\* The next state when a statement leaves the queue as q.
Leaves(s, q) ==
  InStep(s, q) /\ sbIn' = s /\ events' = q.events /\ sbOut' = q.sbOut /\ ended' = FALSE

LEMMA OneItem ==
  ASSUME NEW s \in Seq(InItem), NEW x \in InItem
  PROVE  s \o <<x>> = Append(s, x)
BY AppendIsConcat

LEMMA TwoItems ==
  ASSUME NEW s \in Seq(InItem), NEW x \in InItem, NEW y \in InItem
  PROVE  s \o (<<x>> \o <<y>>) = Append(Append(s, x), y)
<1>1. <<x>> \in Seq(InItem) /\ <<y>> \in Seq(InItem)
  OBVIOUS
<1>2. s \o (<<x>> \o <<y>>) = (s \o <<x>>) \o <<y>>
  BY <1>1, ConcatAssociative
<1>3. s \o <<x>> = Append(s, x) /\ Append(s, x) \in Seq(InItem)
  BY AppendIsConcat, AppendProperties
<1>4. Append(s, x) \o <<y>> = Append(Append(s, x), y)
  BY <1>3, AppendIsConcat
<1> QED
  BY <1>2, <1>3, <1>4

\* Every case of instrument adds to the promise what it adds to the queue.
LEMMA Statements ==
  ASSUME IInv,
         \/ IMark \/ Exit
         \/ \E l \in Location :
              \/ WrTmpLoad(l) \/ Store(l) \/ CAS(l) \/ LoadLinked(l) \/ StoreConditional(l)
              \/ \E reads, writes \in BOOLEAN : Dirty(reads, writes, l)
  PROVE  \E s, q : Leaves(s, q)
<1>1. ASSUME ~ ended PROVE InStep(sbIn, Queue) /\ sbIn \in Seq(InItem) /\ ended = FALSE
  BY <1>1 DEF IInv, InStep, Reported
<1>2. \A l \in Location : Item("load", l) \in InItem /\ Item("store", l) \in InItem
  BY DEF InItem, Access
<1>3. Instruction \in InItem /\ SideExit \in InItem
  BY DEF InItem
<1>4. ASSUME IMark PROVE \E s, q : Leaves(s, q)
  <2>1. InStep(sbIn, Queue) /\ sbIn \in Seq(InItem) /\ ended = FALSE
    BY <1>1, <1>4 DEF IMark, Statement
  <2>2. InStep(Append(sbIn, Instruction), addEvent_Ir(Queue))
    BY <2>1, IrAdded
  <2>3. sbIn \o <<Instruction>> = Append(sbIn, Instruction)
    BY <1>3, <2>1, OneItem
  <2>4. Leaves(Append(sbIn, Instruction), addEvent_Ir(Queue))
    BY <1>4, <2>1, <2>2, <2>3, Zenon DEF IMark, Statement, Leaves
  <2> QED
    BY <2>4
<1>5. ASSUME Exit PROVE \E s, q : Leaves(s, q)
  <2>1. InStep(sbIn, Queue) /\ sbIn \in Seq(InItem) /\ ended = FALSE
    BY <1>1, <1>5 DEF Exit, Statement
  <2> DEFINE q == [Flush(Queue) EXCEPT !.sbOut = Append(@, SideExit)]
  <2>2. InStep(Append(sbIn, SideExit), q)
    BY <2>1, ExitAdded
  <2>3. sbIn \o <<SideExit>> = Append(sbIn, SideExit)
    BY <1>3, <2>1, OneItem
  <2>4. Statement(<<SideExit>>, q)
    BY <1>5, Zenon DEF Exit
  <2> HIDE DEF q
  <2>5. Leaves(Append(sbIn, SideExit), q)
    BY <2>1, <2>2, <2>3, <2>4, Zenon DEF Statement, Leaves
  <2> QED
    BY <2>5
<1>6. ASSUME NEW l \in Location, WrTmpLoad(l) \/ LoadLinked(l) PROVE \E s, q : Leaves(s, q)
  <2>1. Statement(<<Item("load", l)>>, addEvent_Dr(Queue, l))
    BY <1>6, Zenon DEF WrTmpLoad, LoadLinked
  <2>2. InStep(sbIn, Queue) /\ sbIn \in Seq(InItem) /\ ended = FALSE
    BY <1>1, <2>1 DEF Statement
  <2>3. InStep(Append(sbIn, Item("load", l)), addEvent_Dr(Queue, l))
    BY <2>2, LoadAdded
  <2>4. sbIn \o <<Item("load", l)>> = Append(sbIn, Item("load", l))
    BY <1>2, <2>2, OneItem
  <2>5. Leaves(Append(sbIn, Item("load", l)), addEvent_Dr(Queue, l))
    BY <2>1, <2>2, <2>3, <2>4, Zenon DEF Statement, Leaves
  <2> QED
    BY <2>5
<1>7. ASSUME NEW l \in Location, Store(l) \/ StoreConditional(l) PROVE \E s, q : Leaves(s, q)
  <2>1. Statement(<<Item("store", l)>>, addEvent_Dw(Queue, l))
    BY <1>7, Zenon DEF Store, StoreConditional
  <2>2. InStep(sbIn, Queue) /\ sbIn \in Seq(InItem) /\ ended = FALSE
    BY <1>1, <2>1 DEF Statement
  <2>3. InStep(Append(sbIn, Item("store", l)), addEvent_Dw(Queue, l))
    BY <2>2, StoreAdded
  <2>4. sbIn \o <<Item("store", l)>> = Append(sbIn, Item("store", l))
    BY <1>2, <2>2, OneItem
  <2>5. Leaves(Append(sbIn, Item("store", l)), addEvent_Dw(Queue, l))
    BY <2>1, <2>2, <2>3, <2>4, Zenon DEF Statement, Leaves
  <2> QED
    BY <2>5
<1>8. ASSUME NEW l \in Location,
             Statement(<<Item("load", l)>> \o <<Item("store", l)>>,
                       addEvent_Dw(addEvent_Dr(Queue, l), l))
      PROVE  \E s, q : Leaves(s, q)
  <2> DEFINE s0 == Append(sbIn, Item("load", l))
             s == Append(s0, Item("store", l))
             q == addEvent_Dw(addEvent_Dr(Queue, l), l)
  <2>1. InStep(sbIn, Queue) /\ sbIn \in Seq(InItem) /\ ended = FALSE
    BY <1>1, <1>8 DEF Statement
  <2>2. InStep(s0, addEvent_Dr(Queue, l))
    BY <2>1, LoadAdded
  <2>3. InStep(s, q)
    <3> HIDE DEF s0
    <3> QED
      BY <2>2, StoreAdded
  <2>4. sbIn \o (<<Item("load", l)>> \o <<Item("store", l)>>) = s
    BY <1>2, <2>1, TwoItems
  <2>5. Statement(<<Item("load", l)>> \o <<Item("store", l)>>, q)
    BY <1>8
  <2> HIDE DEF s, q
  <2>6. Leaves(s, q)
    BY <2>1, <2>3, <2>4, <2>5, Zenon DEF Statement, Leaves
  <2> QED
    BY <2>6
<1>9. ASSUME NEW l \in Location, CAS(l) PROVE \E s, q : Leaves(s, q)
  <2>1. <<Item("load", l), Item("store", l)>> = <<Item("load", l)>> \o <<Item("store", l)>>
    OBVIOUS
  <2>2. Statement(<<Item("load", l)>> \o <<Item("store", l)>>,
                  addEvent_Dw(addEvent_Dr(Queue, l), l))
    BY <1>9, <2>1, Zenon DEF CAS
  <2> QED
    BY <1>8, <2>2
<1>10. ASSUME NEW l \in Location, NEW reads \in BOOLEAN, NEW writes \in BOOLEAN,
              Dirty(reads, writes, l)
       PROVE  \E s, q : Leaves(s, q)
  <2>1. <<Item("load", l)>> \in Seq(InItem) /\ <<Item("store", l)>> \in Seq(InItem)
    <3>1. Item("load", l) \in InItem /\ Item("store", l) \in InItem
      BY <1>2
    <3> QED
      BY <3>1, OneItem, EmptySeq
  <2>2. /\ <<Item("load", l)>> \o <<>> = <<Item("load", l)>>
        /\ <<>> \o <<Item("store", l)>> = <<Item("store", l)>>
        /\ \A s \in Seq(InItem) : s \o (<<>> \o <<>>) = s
    BY <2>1, ConcatEmptySeq, EmptySeq
  <2>3. CASE reads /\ writes
    <3>1. Statement(<<Item("load", l)>> \o <<Item("store", l)>>,
                    addEvent_Dw(addEvent_Dr(Queue, l), l))
      BY <1>10, <2>3 DEF Dirty
    <3> QED
      BY <1>8, <3>1
  <2>4. CASE reads /\ ~ writes
    <3>1. Statement(<<Item("load", l)>>, addEvent_Dr(Queue, l))
      BY <1>10, <2>2, <2>4 DEF Dirty
    <3> QED
      BY <1>6, <3>1, Zenon DEF WrTmpLoad
  <2>5. CASE ~ reads /\ writes
    <3>1. Statement(<<Item("store", l)>>, addEvent_Dw(Queue, l))
      BY <1>10, <2>2, <2>5 DEF Dirty
    <3> QED
      BY <1>7, <3>1, Zenon DEF Store
  <2>6. CASE ~ reads /\ ~ writes
    <3>1. Statement(<<>> \o <<>>, Queue)
      BY <1>10, <2>6 DEF Dirty
    <3>2. InStep(sbIn, Queue) /\ sbIn \in Seq(InItem) /\ ended = FALSE
      BY <1>1, <3>1 DEF Statement
    <3>3. Leaves(sbIn, Queue)
      BY <2>2, <3>1, <3>2, Zenon DEF Statement, Leaves
    <3> QED
      BY <3>3
  <2> QED
    BY <2>3, <2>4, <2>5, <2>6
<1> QED
  BY <1>4, <1>5, <1>6, <1>7, <1>9, <1>10

LEMMA NextStep == IInv /\ [Next]_vars => IInv'
<1> SUFFICES ASSUME IInv, [Next]_vars PROVE IInv'
  OBVIOUS
<1>1. ASSUME \E s, q : Leaves(s, q) PROVE IInv'
  <2>1. PICK s, q : Leaves(s, q)
    BY <1>1
  <2>2. q \in [events : Seq(Event), sbOut : Seq(OutItem)]
    BY <2>1 DEF Leaves, InStep, Reported
  <2>3. Queue' = [events |-> q.events, sbOut |-> q.sbOut]
    BY <2>1 DEF Queue, Leaves
  <2>4. Queue' = q
    BY <2>2, <2>3
  <2>5. ended' = FALSE
    BY <2>1 DEF Leaves
  <2> QED
    BY <2>1, <2>4, <2>5 DEF IInv, Leaves, InStep
<1>2. CASE End
  <2>1. Reported(sbIn, Queue)
    BY DEF IInv
  <2>2. /\ Flush(Queue).events = <<>> /\ Flush(Queue).sbOut = Promised(sbIn)
        /\ Flush(Queue).sbOut = sbOut \o Calls(events)
        /\ Flush(Queue).sbOut \in Seq(OutItem)
    <3>1. Queue.events = events /\ Queue.sbOut = sbOut
      BY DEF Queue
    <3> QED
      BY <2>1, <3>1, FlushKeeps
  <2>3. /\ events' = <<>> /\ sbOut' = Promised(sbIn) /\ sbIn' = sbIn /\ ended' = TRUE
        /\ sbOut' \in Seq(OutItem) /\ sbOut' = sbOut \o Calls(events)
    BY <1>2, <2>2 DEF End
  <2>4. Queue' = [events |-> <<>>, sbOut |-> sbOut']
    BY <2>3 DEF Queue
  <2>5. ExitsOK(sbIn, sbOut')
    <3>1. /\ sbIn \in Seq(InItem) /\ sbOut \in Seq(OutItem) /\ events \in Seq(Event)
          /\ ExitsOK(sbIn, sbOut)
      BY <2>1 DEF Reported, Queue
    <3>2. Calls(events) \in Seq(OutItem)
      BY <3>1, CallsType
    <3> QED
      BY <2>3, <3>1, <3>2, ExitsLonger
  <2>6. Reported(sbIn', Queue')
    <3>1. Queue'.events = <<>> /\ Queue'.sbOut = sbOut'
      BY <2>4
    <3>2. Queue' \in [events : Seq(Event), sbOut : Seq(OutItem)]
      BY <2>3, <2>4, EmptySeq
    <3>3. Len(<<>>) <= N_EVENTS
      BY CapacityAssumption
    <3>4. sbOut' \o Calls(<<>>) = Promised(sbIn)
      BY <2>3, CallsEmpty, ConcatEmptySeq
    <3>5. sbIn \in Seq(InItem)
      BY <2>1 DEF Reported
    <3> QED
      BY <2>3, <2>5, <3>1, <3>2, <3>3, <3>4, <3>5, Zenon DEF Reported
  <2> QED
    BY <2>3, <2>6 DEF IInv
<1>3. CASE NextBlock
  <2>1. Queue' = [events |-> <<>>, sbOut |-> <<>>] /\ sbIn' = <<>> /\ ended' = FALSE
    BY <1>3 DEF NextBlock, Queue
  <2>2. InStep(sbIn', Queue')
    BY <2>1, EmptyQueue
  <2> QED
    BY <2>1, <2>2 DEF IInv, InStep
<1>4. CASE UNCHANGED vars
  BY <1>4 DEF vars, IInv, Queue
<1> QED
  BY <1>1, <1>2, <1>3, <1>4, Statements DEF Next

\* The inductive invariant holds of every block, however long.
THEOREM Invariance == Spec => []IInv
<1> QED
  BY Initially, NextStep, PTL DEF Spec

\* What addEvent_Ir, addEvent_Dr and addEvent_Dw write to runtime.events stays inside its
\* N_EVENTS slots, and only accesses and exits reach the block.
THEOREM TypeCorrect == Spec => []TypeOK
<1>1. IInv => TypeOK
  BY DEF IInv, Reported, Queue, TypeOK, InItem, Event, OutItem
<1> QED
  BY <1>1, Invariance, PTL

\* Wherever control leaves a block, exactly the accesses made until then have been
\* reported, in order and each once: flush_events comes before every exit that instrument
\* copies, and before it returns the block.
THEOREM ExitsComplete == Spec => []ExitsFindEverythingReported
<1>1. ASSUME IInv PROVE ExitsFindEverythingReported
  <2>1. ExitsOK(sbIn, sbOut) /\ sbOut \o Calls(events) = Promised(sbIn) /\ sbOut \in Seq(OutItem)
    BY <1>1 DEF IInv, Reported, Queue
  <2>2. ASSUME ended PROVE sbOut = Promised(sbIn)
    <3>1. events = <<>>
      BY <1>1, <2>2 DEF IInv
    <3> QED
      BY <2>1, <3>1, CallsEmpty, ConcatEmptySeq
  <2> QED
    BY <2>1, <2>2 DEF ExitsFindEverythingReported, ExitsOK
<1> QED
  BY <1>1, Invariance, PTL

\* What an exception inside the block loses is the end of the promise, and no more of it
\* than N_EVENTS events (the argument of the comment before flush_events).
THEOREM FaultsLoseTheTail == Spec => []AFaultLosesTheTailOnly
<1>1. ASSUME IInv PROVE AFaultLosesTheTailOnly
  <2>1. /\ Reported(sbIn, Queue) /\ sbOut \in Seq(OutItem) /\ events \in Seq(Event)
        /\ Len(events) <= N_EVENTS /\ sbOut \o Calls(events) = Promised(sbIn)
    BY <1>1 DEF IInv, Reported, Queue
  <2>2. Flush(Queue).sbOut = Promised(sbIn)
    BY <2>1, FlushKeeps
  <2>3. Calls(events) \in Seq(OutItem) /\ Len(Calls(events)) <= Len(events)
    BY <2>1, CallsType
  <2>4. Len(Promised(sbIn)) = Len(sbOut) + Len(Calls(events))
    BY <2>1, <2>3, ConcatProperties
  <2>5. Len(sbOut) \in Nat /\ Len(Calls(events)) \in Nat /\ Len(events) \in Nat
    BY <2>1, <2>3
  <2> DEFINE p == Len(Promised(sbIn))
             o == Len(sbOut)
             c == Len(Calls(events))
             e == Len(events)
  <2>6. p - o <= N_EVENTS
    <3>1. p = o + c /\ c <= e /\ e <= N_EVENTS /\ o \in Nat /\ c \in Nat /\ e \in Nat
      BY <2>1, <2>3, <2>4, <2>5
    <3> HIDE DEF p, o, c, e
    <3> QED
      BY <3>1, CapacityAssumption
  <2> QED
    BY <2>2, <2>6 DEF AFaultLosesTheTailOnly
<1> QED
  BY <1>1, Invariance, PTL
=============================================================================
