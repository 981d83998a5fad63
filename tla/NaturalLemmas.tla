--------------------------- MODULE NaturalLemmas ----------------------------
(***************************************************************************)
(* Searches that go up or down a stack stop: least and greatest elements.  *)
(* Sets of cells are counted in parts.  Sums over finite sets do not       *)
(* depend on the order of their terms, and clocks that wrap are added      *)
(* modulo their span.                                                      *)
(***************************************************************************)
EXTENDS Integers, FiniteSets, NaturalsInduction, WellFoundedInduction, FiniteSetTheorems,
        TLAPS

\* Every non-empty set of naturals has a least element.
LEMMA LeastNatural ==
  ASSUME NEW T \in SUBSET Nat, T # {}
  PROVE  \E x \in T : \A y \in T : x <= y
<1> DEFINE R == OpToRel(<, Nat)
<1>1. IsWellFoundedOn(R, Nat)
  BY NatLessThanWellFounded
<1>2. \A x, y \in Nat : x < y => <<x, y>> \in R
  BY SMT DEF OpToRel
<1> HIDE DEF R
<1>3. PICK x \in T : \A y \in T : ~ (<<y, x>> \in R)
  BY <1>1, WFMin
<1>4. \A y \in T : ~ (y < x)
  BY <1>2, <1>3
<1>5. \A y \in T : x <= y
  BY <1>4
<1> QED
  BY <1>5

\* One of naturals up to n has a greatest element.
LEMMA GreatestNatural ==
  ASSUME NEW n \in Nat, NEW T \in SUBSET (0..n), T # {}
  PROVE  \E x \in T : \A y \in T : x >= y
<1> DEFINE U == {n - x : x \in T}
<1>1. U \in SUBSET Nat /\ U # {}
  <2>1. \A x \in T : n - x \in Nat
    OBVIOUS
  <2>2. PICK x : x \in T
    OBVIOUS
  <2>3. n - x \in U
    BY <2>2
  <2> QED
    BY <2>1, <2>3
<1>2. PICK u \in U : \A v \in U : u <= v
  <2> HIDE DEF U
  <2> QED
    BY <1>1, LeastNatural
<1>3. PICK x \in T : u = n - x
  OBVIOUS
<1>4. ASSUME NEW y \in T PROVE x >= y
  <2>1. n - x <= n - y
    BY <1>2, <1>3
  <2> QED
    BY <2>1
<1> QED
  BY <1>4

\* A finite set splits into the part inside another set and the part outside it.
LEMMA CardinalitySplit ==
  ASSUME NEW S, IsFiniteSet(S), NEW T
  PROVE  /\ Cardinality(S) = Cardinality(S \cap T) + Cardinality(S \ T)
         /\ Cardinality(S \cap T) \in Nat
         /\ Cardinality(S \ T) \in Nat
<1>1. IsFiniteSet(S \cap T) /\ IsFiniteSet(S \ T)
  BY FS_Subset
<1>2. /\ (S \cap T) \cup (S \ T) = S
      /\ (S \cap T) \cap (S \ T) = {}
  OBVIOUS
<1>3. Cardinality((S \cap T) \cup (S \ T))
        = Cardinality(S \cap T) + Cardinality(S \ T) - Cardinality((S \cap T) \cap (S \ T))
  BY <1>1, FS_Union
<1>4. Cardinality(S \cap T) \in Nat /\ Cardinality(S \ T) \in Nat
  BY <1>1, FS_CardinalityType
<1>5. Cardinality((S \cap T) \cap (S \ T)) = 0
  BY <1>2, FS_EmptySet
<1>6. Cardinality(S) = Cardinality(S \cap T) + Cardinality(S \ T) - 0
  BY <1>2, <1>3, <1>5, Zenon
<1> QED
  BY <1>4, <1>6

\* Induction: a set of naturals that has 0 and the successor of each of its elements.
LEMMA SetInduction ==
  ASSUME NEW S \in SUBSET Nat, 0 \in S, \A n \in S : n + 1 \in S
  PROVE  \A n \in Nat : n \in S
<1> SUFFICES ASSUME Nat \ S # {} PROVE FALSE
  OBVIOUS
<1>1. PICK x \in Nat \ S : \A y \in Nat \ S : x <= y
  BY LeastNatural
<1>2. x - 1 \in Nat /\ x - 1 \in S /\ (x - 1) + 1 = x
  BY <1>1
<1> QED
  BY <1>1, <1>2

-----------------------------------------------------------------------------
(* Sums over finite sets, as the folds of the community modules make them. *)

Some(s) == CHOOSE x \in s : TRUE

\* g has the sum of f over every subset of D.
SumsUp(f, D, g) ==
  g = [s \in SUBSET D |-> IF s = {} THEN 0 ELSE f[Some(s)] + g[s \ {Some(s)}]]

\* f and h have the same values in S.
Agree(f, h, S) == \A x \in S : f[x] = h[x]

Integral(f, S) == \A x \in S : f[x] \in Int

Total(f, S) == (CHOOSE g : SumsUp(f, S, g))[S]

\* Induction: what holds of a set if it holds of the set without any one of its elements.
LEMMA SubsetInduction ==
  ASSUME NEW D, IsFiniteSet(D), NEW G \in SUBSET SUBSET D, {} \in G,
         \A s \in SUBSET D : s # {} /\ (\A x \in s : s \ {x} \in G) => s \in G
  PROVE  \A s \in SUBSET D : s \in G
<1> DEFINE Good == {n \in Nat : \A s \in SUBSET D : Cardinality(s) = n => s \in G}
<1>1. \A s \in SUBSET D : /\ IsFiniteSet(s) /\ Cardinality(s) \in Nat
                          /\ Cardinality(s) = 0 <=> s = {}
  BY FS_Subset, FS_CardinalityType, FS_EmptySet
<1>2. 0 \in Good
  BY <1>1
<1>3. ASSUME NEW n \in Nat, n \in Good
      PROVE  n + 1 \in Good
  <2>1. ASSUME NEW s \in SUBSET D, Cardinality(s) = n + 1
        PROVE  s \in G
    <3>1. s # {} /\ IsFiniteSet(s)
      BY <1>1, <2>1
    <3>2. ASSUME NEW x \in s PROVE s \ {x} \in G
      <4>1. Cardinality(s \ {x}) = Cardinality(s) - 1
        BY <3>1, FS_RemoveElement
      <4>2. Cardinality(s \ {x}) = n
        BY <2>1, <4>1
      <4> QED
        BY <1>3, <4>2
    <3> QED
      BY <3>1, <3>2
  <2> QED
    BY <2>1
<1>4. Good \in SUBSET Nat
  OBVIOUS
<1>5. \A n \in Nat : n \in Good
  <2> HIDE DEF Good
  <2> QED
    BY <1>2, <1>3, <1>4, SetInduction
<1> QED
  BY <1>1, <1>5

\* Sums agree where what is summed agrees, in whatever larger set they are formed.
LEMMA SumsAgree ==
  ASSUME NEW D, NEW E, NEW S \in SUBSET D, S \subseteq E, IsFiniteSet(S),
         NEW f, NEW h, Agree(f, h, S),
         NEW a, SumsUp(f, D, a), NEW b, SumsUp(h, E, b)
  PROVE  a[S] = b[S]
<1> DEFINE G == {s \in SUBSET S : a[s] = b[s]}
<1>1. \A s \in SUBSET S : /\ s \in SUBSET D /\ s \in SUBSET E
                          /\ s # {} => Some(s) \in s
  BY DEF Some
<1>2. /\ \A s \in SUBSET D : a[s] = IF s = {} THEN 0 ELSE f[Some(s)] + a[s \ {Some(s)}]
      /\ \A s \in SUBSET E : b[s] = IF s = {} THEN 0 ELSE h[Some(s)] + b[s \ {Some(s)}]
  BY DEF SumsUp
<1>3. {} \in G
  BY <1>1, <1>2
<1>4. ASSUME NEW s \in SUBSET S, s # {}, \A x \in s : s \ {x} \in G
      PROVE  s \in G
  <2>1. Some(s) \in s /\ f[Some(s)] = h[Some(s)]
    BY <1>1, <1>4 DEF Agree
  <2>2. a[s \ {Some(s)}] = b[s \ {Some(s)}]
    BY <1>4, <2>1
  <2> QED
    BY <1>1, <1>2, <1>4, <2>1, <2>2
<1>5. G \in SUBSET SUBSET S
  OBVIOUS
<1> HIDE DEF G
<1>6. S \in G
  BY <1>3, <1>4, <1>5, SubsetInduction
<1> QED
  BY <1>6 DEF G

\* The sums over the subsets of a finite set exist.
LEMMA SumsExist ==
  ASSUME NEW D, IsFiniteSet(D), NEW f
  PROVE  \E g : SumsUp(f, D, g)
<1> DEFINE step(g, s) == IF s = {} THEN 0 ELSE f[Some(s)] + g[s \ {Some(s)}]
           ok(g, s) == DOMAIN g = SUBSET s /\ g = [u \in SUBSET s |-> step(g, u)]
           G == {s \in SUBSET D : \E g : ok(g, s)}
<1>1. \A s \in SUBSET D : IsFiniteSet(s) /\ (s # {} => Some(s) \in s)
  BY FS_Subset DEF Some
<1>2. {} \in G
  <2> DEFINE g == [u \in SUBSET {} |-> 0]
  <2>1. ok(g, {})
    OBVIOUS
  <2> QED
    BY <2>1
<1>3. ASSUME NEW s \in SUBSET D, s # {}, \A x \in s : s \ {x} \in G
      PROVE  s \in G
  <2> DEFINE part(x) == CHOOSE g : ok(g, s \ {x})
             val(u) == IF u = {} THEN 0
                       ELSE f[Some(u)] + part(Some(u))[u \ {Some(u)}]
             h == [u \in SUBSET s |-> val(u)]
  <2>1. \A x \in s : ok(part(x), s \ {x})
    BY <1>3
  <2> HIDE DEF part
  <2>2. ASSUME NEW x \in s, NEW u \in SUBSET (s \ {x})
        PROVE  val(u) = part(x)[u]
    <3>1. CASE u = {}
      BY <2>1, <3>1
    <3>2. CASE u # {}
      <4> DEFINE y == Some(u)
      <4>1. y \in u /\ y \in s
        BY <1>1, <3>2
      <4>2. part(x)[u] = f[y] + part(x)[u \ {y}]
        BY <2>1, <3>2
      <4>3. SumsUp(f, s \ {x}, part(x)) /\ SumsUp(f, s \ {y}, part(y))
        BY <2>1, <4>1 DEF SumsUp
      <4> DEFINE w == u \ {y}
      <4>4. w \in SUBSET (s \ {x}) /\ w \subseteq s \ {y} /\ IsFiniteSet(w)
        BY <1>1
      <4>5. part(x)[w] = part(y)[w]
        <5> HIDE DEF w, y
        <5> QED
          BY <4>3, <4>4, SumsAgree DEF Agree
      <4> QED
        BY <3>2, <4>2, <4>5
    <3> QED
      BY <3>1, <3>2
  <2>3. ASSUME NEW u \in SUBSET s
        PROVE  val(u) = step(h, u)
    <3>1. CASE u = {}
      BY <3>1
    <3>2. CASE u # {}
      <4>1. Some(u) \in u /\ Some(u) \in s
        BY <1>1, <3>2
      <4>2. val(u \ {Some(u)}) = part(Some(u))[u \ {Some(u)}]
        BY <2>2, <4>1
      <4> QED
        BY <3>2, <4>2
    <3> QED
      BY <3>1, <3>2
  <2>4. ok(h, s)
    BY <2>3
  <2> QED
    BY <2>4
<1>4. G \in SUBSET SUBSET D
  OBVIOUS
<1>5. D \in G
  <2> HIDE DEF G
  <2> QED
    BY <1>2, <1>3, <1>4, SubsetInduction
<1> QED
  BY <1>5 DEF SumsUp

\* A sum is that of any function with the same values.
LEMMA TotalIs ==
  ASSUME NEW D, IsFiniteSet(D), NEW S \in SUBSET D, NEW f, NEW h, Agree(f, h, S),
         NEW g, SumsUp(h, D, g)
  PROVE  Total(f, S) = g[S]
<1> DEFINE sums == CHOOSE s : SumsUp(f, S, s)
<1>1. IsFiniteSet(S)
  BY FS_Subset
<1>2. SumsUp(f, S, sums)
  BY <1>1, SumsExist
<1> HIDE DEF sums
<1>3. sums[S] = g[S]
  BY <1>1, <1>2, SumsAgree
<1> QED
  BY <1>3 DEF Total, sums

LEMMA TotalSame ==
  ASSUME NEW S, IsFiniteSet(S), NEW f, NEW h, Agree(f, h, S)
  PROVE  Total(f, S) = Total(h, S)
<1> DEFINE a == CHOOSE g : SumsUp(f, S, g)
           b == CHOOSE g : SumsUp(h, S, g)
<1>1. SumsUp(f, S, a) /\ SumsUp(h, S, b)
  BY SumsExist
<1> HIDE DEF a, b
<1>2. a[S] = b[S]
  BY <1>1, SumsAgree
<1> QED
  BY <1>2 DEF Total, a, b

\* Sums of integers, one element at a time and in any order.
LEMMA TotalSteps ==
  ASSUME NEW D, IsFiniteSet(D), NEW f, Integral(f, D)
  PROVE  /\ Total(f, {}) = 0
         /\ \A S \in SUBSET D : Total(f, S) \in Int
         /\ \A S \in SUBSET D : \A x \in S : Total(f, S) = f[x] + Total(f, S \ {x})
<1>0. \A x \in D : f[x] \in Int
  BY DEF Integral
<1>1. PICK g : SumsUp(f, D, g)
  BY SumsExist
<1>2. \A S \in SUBSET D : Total(f, S) = g[S]
  BY <1>1, TotalIs DEF Agree
<1>3. \A S \in SUBSET D : g[S] = IF S = {} THEN 0 ELSE f[Some(S)] + g[S \ {Some(S)}]
  BY <1>1 DEF SumsUp
<1>4. \A S \in SUBSET D : g[S] \in Int
  <2> DEFINE G == {S \in SUBSET D : g[S] \in Int}
  <2>1. {} \in G
    <3>1. {} \in SUBSET D
      OBVIOUS
    <3>2. g[{}] = 0
      BY <1>3, <3>1
    <3> QED
      BY <3>1, <3>2
  <2>2. ASSUME NEW S \in SUBSET D, S # {}, \A x \in S : S \ {x} \in G
        PROVE  S \in G
    <3>1. Some(S) \in S
      BY <2>2 DEF Some
    <3>2. g[S \ {Some(S)}] \in Int /\ f[Some(S)] \in Int
      BY <1>0, <2>2, <3>1
    <3>3. g[S] = f[Some(S)] + g[S \ {Some(S)}]
      BY <1>3, <2>2
    <3>4. g[S] \in Int
      BY <3>2, <3>3
    <3> QED
      BY <3>4
  <2>3. G \in SUBSET SUBSET D
    OBVIOUS
  <2> HIDE DEF G
  <2>4. \A S \in SUBSET D : S \in G
    BY <2>1, <2>2, <2>3, SubsetInduction
  <2> QED
    BY <2>4 DEF G
<1> DEFINE G == {S \in SUBSET D : \A x \in S : g[S] = f[x] + g[S \ {x}]}
<1>5. {} \in G
  OBVIOUS
<1>6. ASSUME NEW S \in SUBSET D, S # {}, \A x \in S : S \ {x} \in G
      PROVE  S \in G
  <2> DEFINE p == Some(S)
  <2>1. p \in S
    BY <1>6 DEF Some
  <2>2. g[S] = f[p] + g[S \ {p}]
    BY <1>3, <1>6
  <2>3. ASSUME NEW x \in S
        PROVE  g[S] = f[x] + g[S \ {x}]
    <3>1. CASE x = p
      BY <2>2, <3>1
    <3>2. CASE x # p
      <4> HIDE DEF p
      <4> DEFINE rest == g[S \ {p, x}]
      <4>1. (S \ {p}) \ {x} = S \ {p, x} /\ (S \ {x}) \ {p} = S \ {p, x}
        OBVIOUS
      <4>2. g[S \ {p}] = f[x] + g[(S \ {p}) \ {x}]
        BY <1>6, <2>1, <3>2
      <4>3. g[S \ {x}] = f[p] + g[(S \ {x}) \ {p}]
        BY <1>6, <2>1, <3>2
      <4>4. g[S \ {p}] = f[x] + rest /\ g[S \ {x}] = f[p] + rest
        BY <4>1, <4>2, <4>3
      <4>5. rest \in Int /\ f[x] \in Int /\ f[p] \in Int
        BY <1>0, <1>4, <2>1
      <4> HIDE DEF rest
      <4> QED
        BY <2>2, <4>4, <4>5
    <3> QED
      BY <3>1, <3>2
  <2> QED
    BY <2>3
<1>7. G \in SUBSET SUBSET D
  OBVIOUS
<1>8. \A S \in SUBSET D : S \in G
  <2> HIDE DEF G
  <2> QED
    BY <1>5, <1>6, <1>7, SubsetInduction
<1> QED
  BY <1>2, <1>3, <1>4, <1>8

LEMMA TotalInsert ==
  ASSUME NEW S, IsFiniteSet(S), NEW x, x \notin S, NEW f, Integral(f, S \cup {x})
  PROVE  Total(f, S \cup {x}) = Total(f, S) + f[x] /\ Total(f, S) \in Int
<1> DEFINE D == S \cup {x}
<1>1. IsFiniteSet(D)
  BY FS_AddElement
<1>2. D \ {x} = S /\ x \in D
  OBVIOUS
<1> HIDE DEF D
<1>3. /\ Total(f, D) = f[x] + Total(f, D \ {x}) /\ Total(f, D \ {x}) \in Int
      /\ f[x] \in Int
  <2>1. Integral(f, D) /\ f[x] \in Int
    BY DEF D, Integral
  <2> QED
    <3> HIDE DEF D
    <3>1. D \in SUBSET D /\ D \ {x} \in SUBSET D
      OBVIOUS
    <3> QED
      BY <1>1, <1>2, <2>1, <3>1, TotalSteps
<1>4. Total(f, D) = f[x] + Total(f, S) /\ Total(f, S) \in Int /\ f[x] \in Int
  BY <1>2, <1>3
<1>5. Total(f, D) = Total(f, S) + f[x]
  BY <1>4
<1> QED
  BY <1>4, <1>5 DEF D

\* Only the value of x changes.
LEMMA TotalUpdate ==
  ASSUME NEW S, IsFiniteSet(S), NEW x \in S, NEW f, NEW h,
         Integral(f, S), Integral(h, S), Agree(f, h, S \ {x})
  PROVE  Total(h, S) = Total(f, S) - f[x] + h[x] /\ Total(f, S) \in Int
<1>1. /\ Total(f, S) = f[x] + Total(f, S \ {x}) /\ Total(f, S \ {x}) \in Int
      /\ Total(h, S) = h[x] + Total(h, S \ {x})
      /\ f[x] \in Int /\ h[x] \in Int /\ Total(f, S) \in Int
  <2>1. S \in SUBSET S /\ S \ {x} \in SUBSET S
    OBVIOUS
  <2> QED
    BY <2>1, TotalSteps DEF Integral
<1>2. IsFiniteSet(S \ {x})
  BY FS_Subset
<1>3. Total(f, S \ {x}) = Total(h, S \ {x})
  BY <1>2, TotalSame
<1> QED
  BY <1>1, <1>3

LEMMA TotalUnion ==
  ASSUME NEW S, IsFiniteSet(S), NEW T, IsFiniteSet(T), S \cap T = {}, NEW f,
         Integral(f, S \cup T)
  PROVE  Total(f, S \cup T) = Total(f, S) + Total(f, T)
         /\ Total(f, S) \in Int /\ Total(f, T) \in Int
<1> DEFINE D == S \cup T
           G == {U \in SUBSET T : Total(f, S \cup U) = Total(f, S) + Total(f, U)}
<1>1. IsFiniteSet(D)
  BY FS_Union
<1>2. /\ Total(f, {}) = 0
      /\ \A U \in SUBSET D : Total(f, U) \in Int
      /\ \A U \in SUBSET D : \A x \in U : Total(f, U) = f[x] + Total(f, U \ {x})
  <2> HIDE DEF D
  <2>1. Integral(f, D)
    BY DEF D
  <2> QED
    BY <1>1, <2>1, TotalSteps
<1>3. S \in SUBSET D /\ T \in SUBSET D /\ S \cup {} = S
  OBVIOUS
<1>4. {} \in G
  BY <1>2, <1>3
<1>5. ASSUME NEW U \in SUBSET T, U # {}, \A x \in U : U \ {x} \in G
      PROVE  U \in G
  <2>1. PICK x \in U : TRUE
    BY <1>5
  <2>2. (S \cup U) \ {x} = S \cup (U \ {x}) /\ x \in S \cup U /\ S \cup U \in SUBSET D
        /\ U \in SUBSET D /\ U \ {x} \in SUBSET D
    BY <2>1
  <2>3. Total(f, S \cup U) = f[x] + Total(f, S \cup (U \ {x}))
    BY <1>2, <2>2
  <2>4. Total(f, S \cup (U \ {x})) = Total(f, S) + Total(f, U \ {x})
    BY <1>5, <2>1
  <2>5. Total(f, U) = f[x] + Total(f, U \ {x}) /\ Total(f, U \ {x}) \in Int
        /\ Total(f, S) \in Int /\ f[x] \in Int
    BY <1>2, <1>3, <2>1, <2>2 DEF Integral
  <2>6. Total(f, S \cup U) = Total(f, S) + Total(f, U)
    BY <2>3, <2>4, <2>5
  <2> QED
    BY <2>6
<1>6. G \in SUBSET SUBSET T
  OBVIOUS
<1>7. T \in G
  <2> HIDE DEF G
  <2> QED
    BY <1>4, <1>5, <1>6, SubsetInduction
<1> QED
  BY <1>2, <1>3, <1>7

\* The sum over the image of an injection.
LEMMA TotalImage ==
  ASSUME NEW S, IsFiniteSet(S), NEW m, \A x, y \in S : m[x] = m[y] => x = y,
         NEW f, NEW h, \A x \in S : f[x] \in Int /\ h[m[x]] = f[x]
  PROVE  IsFiniteSet({m[x] : x \in S}) /\ Total(h, {m[x] : x \in S}) = Total(f, S)
<1> DEFINE I(U) == {m[x] : x \in U}
           G == {U \in SUBSET S : Total(h, I(U)) = Total(f, U)}
<1>1. IsFiniteSet(I(S))
  <2> DEFINE F == {U \in SUBSET S : IsFiniteSet(I(U))}
  <2>1. {} \in F
    <3>1. I({}) = {}
      OBVIOUS
    <3> QED
      BY <3>1, FS_EmptySet
  <2>2. ASSUME NEW U \in SUBSET S, U # {}, \A x \in U : U \ {x} \in F
        PROVE  U \in F
    <3>1. PICK x \in U : TRUE
      BY <2>2
    <3>2. IsFiniteSet(I(U \ {x})) /\ I(U) = I(U \ {x}) \cup {m[x]}
      BY <2>2, <3>1
    <3>3. IsFiniteSet(I(U \ {x}) \cup {m[x]})
      <4> DEFINE J == I(U \ {x})
                 y == m[x]
      <4>1. IsFiniteSet(J)
        BY <3>2
      <4> HIDE DEF J, y
      <4>2. IsFiniteSet(J \cup {y})
        BY <4>1, FS_AddElement
      <4> QED
        BY <4>2 DEF J, y
    <3> QED
      BY <3>2, <3>3
  <2>3. F \in SUBSET SUBSET S
    OBVIOUS
  <2>4. S \in F
    <3> HIDE DEF F
    <3> QED
      BY <2>1, <2>2, <2>3, SubsetInduction
  <2> QED
    BY <2>4
<1>2. \A x \in I(S) : h[x] \in Int
  OBVIOUS
<1>3. /\ Total(f, {}) = 0 /\ Total(h, {}) = 0
      /\ \A U \in SUBSET S : \A x \in U : Total(f, U) = f[x] + Total(f, U \ {x})
      /\ \A U \in SUBSET I(S) : \A x \in U : Total(h, U) = h[x] + Total(h, U \ {x})
  <2> DEFINE J == I(S)
  <2>1. IsFiniteSet(J) /\ Integral(h, J) /\ Integral(f, S)
    BY <1>1, <1>2 DEF Integral
  <2> HIDE DEF J
  <2>2. /\ Total(h, {}) = 0
        /\ \A U \in SUBSET J : \A x \in U : Total(h, U) = h[x] + Total(h, U \ {x})
    BY <2>1, TotalSteps
  <2>3. /\ Total(f, {}) = 0
        /\ \A U \in SUBSET S : \A x \in U : Total(f, U) = f[x] + Total(f, U \ {x})
    BY <2>1, TotalSteps
  <2> QED
    BY <2>2, <2>3 DEF J
<1>4. {} \in G
  <2>1. I({}) = {}
    OBVIOUS
  <2> QED
    BY <1>3, <2>1
<1>5. ASSUME NEW U \in SUBSET S, U # {}, \A x \in U : U \ {x} \in G
      PROVE  U \in G
  <2>1. PICK x \in U : TRUE
    BY <1>5
  <2>2. I(U) \ {m[x]} = I(U \ {x}) /\ m[x] \in I(U) /\ I(U) \in SUBSET I(S)
    BY <2>1
  <2>3. Total(h, I(U)) = h[m[x]] + Total(h, I(U) \ {m[x]})
    <3> HIDE DEF I
    <3> QED
      BY <1>3, <2>2
  <2>4. Total(f, U) = f[x] + Total(f, U \ {x})
    BY <1>3, <2>1
  <2>5. Total(h, I(U \ {x})) = Total(f, U \ {x})
    BY <1>5, <2>1
  <2>6. h[m[x]] = f[x]
    BY <2>1
  <2> HIDE DEF I
  <2> QED
    BY <2>2, <2>3, <2>4, <2>5, <2>6
<1>6. G \in SUBSET SUBSET S
  OBVIOUS
<1>7. S \in G
  <2> HIDE DEF G
  <2> QED
    BY <1>4, <1>5, <1>6, SubsetInduction
<1> QED
  BY <1>1, <1>7

\* What is in one of the parts, the fibres of w, is summed part by part.
Fibre(D, w, i) == {x \in D : w[x] = i}
LEMMA TotalFibres ==
  ASSUME NEW D, IsFiniteSet(D), NEW I, IsFiniteSet(I), NEW w, \A x \in D : w[x] \in I,
         NEW f, Integral(f, D), NEW h, \A i \in I : h[i] = Total(f, Fibre(D, w, i))
  PROVE  Total(h, I) = Total(f, D)
<1> DEFINE P(J) == {x \in D : w[x] \in J}
           G == {J \in SUBSET I : Total(h, J) = Total(f, P(J))}
<1>1. \A S \in SUBSET D : IsFiniteSet(S) /\ Integral(f, S) /\ Total(f, S) \in Int
  BY FS_Subset, TotalSteps DEF Integral
<1>2. Integral(h, I)
  BY <1>1 DEF Integral, Fibre
<1>3. {} \in G
  <2>1. P({}) = {} /\ Total(h, {}) = 0 /\ Total(f, {}) = 0
    BY <1>2, TotalSteps
  <2> QED
    BY <2>1
<1>4. ASSUME NEW J \in SUBSET I, J # {}, \A i \in J : J \ {i} \in G
      PROVE  J \in G
  <2>1. PICK i \in J : TRUE
    BY <1>4
  <2> DEFINE rest == P(J \ {i})
             fibre == {x \in D : w[x] = i}
  <2>2. /\ P(J) = rest \cup fibre /\ rest \cap fibre = {}
        /\ rest \in SUBSET D /\ fibre \in SUBSET D
    BY <2>1
  <2>3. Total(h, J) = h[i] + Total(h, J \ {i})
    BY <1>2, <2>1, TotalSteps
  <2>4. h[i] = Total(f, fibre) /\ Total(h, J \ {i}) = Total(f, rest)
    BY <1>4, <2>1 DEF Fibre
  <2>5. Total(f, P(J)) = Total(f, rest) + Total(f, fibre)
        /\ Total(f, rest) \in Int /\ Total(f, fibre) \in Int
    <3> HIDE DEF rest, fibre
    <3>1. /\ IsFiniteSet(rest) /\ IsFiniteSet(fibre) /\ rest \cup fibre \in SUBSET D
          /\ Integral(f, rest \cup fibre)
      BY <1>1, <2>2
    <3>2. Total(f, rest \cup fibre) = Total(f, rest) + Total(f, fibre)
          /\ Total(f, rest) \in Int /\ Total(f, fibre) \in Int
      BY <2>2, <3>1, TotalUnion
    <3> QED
      BY <2>2, <3>2
  <2> HIDE DEF rest, fibre
  <2>6. Total(h, J) = Total(f, P(J))
    BY <2>3, <2>4, <2>5
  <2> QED
    BY <2>6
<1>5. G \in SUBSET SUBSET I
  OBVIOUS
<1>6. I \in G
  <2> HIDE DEF G
  <2> QED
    BY <1>3, <1>4, <1>5, SubsetInduction
<1>7. P(I) = D
  OBVIOUS
<1> QED
  BY <1>6, <1>7

\* No part is more than the sum of naturals.
LEMMA TotalBounds ==
  ASSUME NEW S, IsFiniteSet(S), NEW f, \A x \in S : f[x] \in Nat
  PROVE  Total(f, S) \in Nat /\ \A x \in S : f[x] <= Total(f, S)
<1> DEFINE G == {U \in SUBSET S : Total(f, U) \in Nat}
<1>1. /\ Total(f, {}) = 0
      /\ \A U \in SUBSET S : Total(f, U) \in Int
      /\ \A U \in SUBSET S : \A x \in U : Total(f, U) = f[x] + Total(f, U \ {x})
  <2>1. Integral(f, S)
    BY DEF Integral
  <2> QED
    BY <2>1, TotalSteps
<1>2. {} \in G
  BY <1>1
<1>3. ASSUME NEW U \in SUBSET S, U # {}, \A x \in U : U \ {x} \in G
      PROVE  U \in G
  <2>1. PICK x \in U : TRUE
    BY <1>3
  <2>2. Total(f, U) = f[x] + Total(f, U \ {x}) /\ Total(f, U \ {x}) \in Nat /\ f[x] \in Nat
    BY <1>1, <1>3, <2>1
  <2> QED
    BY <2>2
<1>4. G \in SUBSET SUBSET S
  OBVIOUS
<1>5. \A U \in SUBSET S : U \in G
  <2> HIDE DEF G
  <2> QED
    BY <1>2, <1>3, <1>4, SubsetInduction
<1>6. ASSUME NEW x \in S
      PROVE  f[x] <= Total(f, S)
  <2>1. Total(f, S) = f[x] + Total(f, S \ {x}) /\ Total(f, S \ {x}) \in Nat /\ f[x] \in Nat
    BY <1>1, <1>5
  <2> QED
    BY <2>1
<1> QED
  BY <1>5, <1>6

\* v more at x, which may be new.
LEMMA TotalMore ==
  ASSUME NEW S, IsFiniteSet(S), NEW x, NEW f, NEW h, NEW v \in Int,
         Integral(f, S), Agree(f, h, S \ {x}), h[x] = (IF x \in S THEN f[x] ELSE 0) + v
  PROVE  Total(h, S \cup {x}) = Total(f, S) + v
<1>1. CASE x \in S
  <2>1. f[x] \in Int /\ \A y \in S : f[y] \in Int
    BY <1>1 DEF Integral
  <2>2. h[x] = f[x] + v /\ h[x] \in Int /\ S \cup {x} = S
    BY <1>1, <2>1
  <2>3. Integral(h, S) /\ Agree(f, h, S \ {x}) /\ x \in S
    BY <1>1, <2>1, <2>2 DEF Integral, Agree
  <2>4. Total(h, S) = Total(f, S) - f[x] + h[x] /\ Total(f, S) \in Int
    BY <2>3, TotalUpdate
  <2> DEFINE p == Total(f, S)
             q == f[x]
  <2>5. Total(h, S) = p - q + (q + v) /\ p \in Int /\ q \in Int
    BY <2>1, <2>2, <2>4
  <2> HIDE DEF p, q
  <2>6. Total(h, S) = p + v
    BY <2>5
  <2> QED
    BY <2>2, <2>6 DEF p
<1>2. CASE x \notin S
  <2>1. Agree(f, h, S) /\ h[x] = v
    BY <1>2 DEF Agree
  <2>2. Integral(h, S \cup {x}) /\ Agree(h, f, S)
    BY <1>2, <2>1 DEF Integral, Agree
  <2>3. Total(h, S \cup {x}) = Total(h, S) + h[x]
    BY <1>2, <2>2, TotalInsert
  <2>4. Total(h, S) = Total(f, S)
    BY <2>2, TotalSame
  <2> QED
    BY <2>1, <2>3, <2>4
<1> QED
  BY <1>1, <1>2

-----------------------------------------------------------------------------
(* Clocks that wrap.                                                        *)

LEMMA ModuloIs ==
  ASSUME NEW n \in Nat \ {0}, NEW x \in Int
  PROVE  x = n * (x \div n) + (x % n) /\ x % n \in 0..(n - 1) /\ x \div n \in Int
  OBVIOUS

LEMMA ModuloOnly ==
  ASSUME NEW n \in Nat \ {0}, NEW q \in Int, NEW p \in Int, NEW r \in 0..(n - 1), NEW s \in 0..(n - 1),
         n * q + r = n * p + s
  PROVE  r = s
<1> DEFINE d == q - p
           nd == n * d
<1>1. nd = s - r /\ d \in Int
  <2>1. nd = n * q - n * p /\ n * q \in Int /\ n * p \in Int
    OBVIOUS
  <2> QED
    BY <2>1
<1>2. d >= 1 => nd >= n
  <2> HIDE DEF d
  <2> QED
    BY <1>1
<1>3. d <= -1 => nd <= -n
  <2> HIDE DEF d
  <2> QED
    BY <1>1
<1>4. d = 0 => nd = 0
  OBVIOUS
<1> HIDE DEF d, nd
<1> QED
  BY <1>1, <1>2, <1>3, <1>4

LEMMA ModuloOfSum ==
  ASSUME NEW n \in Nat \ {0}, NEW x \in Int, NEW y \in Int
  PROVE  ((x % n) + y) % n = (x + y) % n
<1> DEFINE a == x % n
           b == x \div n
           z == a + y
           w == x + y
           c == z % n
           d == z \div n
           e == w % n
           g == w \div n
<1>1. x = n * b + a /\ a \in Int /\ b \in Int
  BY ModuloIs
<1> HIDE DEF a, b
<1>2. z = n * d + c /\ c \in 0..(n - 1) /\ d \in Int
  BY <1>1, ModuloIs
<1>0. w \in Int
  BY <1>1
<1> HIDE DEF w
<1>3. w = n * g + e /\ e \in 0..(n - 1) /\ g \in Int
  BY <1>0, ModuloIs
<1>4. n * (b + d) + c = n * g + e
  <2>1. n * (b + d) = n * b + n * d
    <3> HIDE DEF d
    <3> QED
      BY <1>1, <1>2
  <2> DEFINE nb == n * b
             nd == n * d
             ng == n * g
  <2>2. nb \in Int /\ nd \in Int /\ ng \in Int /\ c \in Int /\ e \in Int
    BY <1>1, <1>2, <1>3
  <2>3. x = nb + a /\ z = nd + c /\ w = ng + e /\ z = a + y /\ w = x + y
    BY <1>1, <1>2, <1>3 DEF w
  <2> HIDE DEF nb, nd, ng, c, e, z, w
  <2>4. (nb + nd) + c = ng + e
    BY <1>1, <2>2, <2>3
  <2> QED
    BY <2>1, <2>4 DEF nb, nd, ng
<1> HIDE DEF c, d, e, g, z, w
<1>5. c = e
  <2>1. b + d \in Int
    BY <1>1, <1>2
  <2> QED
    BY <1>2, <1>3, <1>4, <2>1, ModuloOnly
<1> QED
  BY <1>5 DEF c, e, z, w, a

LEMMA ModuloSmall ==
  ASSUME NEW n \in Nat \ {0}, NEW x \in 0..(n - 1)
  PROVE  x % n = x
<1>1. x \in Int /\ x \div n \in Int /\ x = n * (x \div n) + (x % n) /\ x % n \in 0..(n - 1)
  BY ModuloIs
<1>2. n * 0 + x = n * (x \div n) + (x % n)
  BY <1>1
<1> DEFINE q == x \div n
           r == x % n
<1> HIDE DEF q, r
<1>3. n * 0 + x = n * q + r /\ q \in Int /\ r \in 0..(n - 1) /\ 0 \in Int
  BY <1>1, <1>2 DEF q, r
<1>4. x = r
  BY <1>3, ModuloOnly
<1> QED
  BY <1>4 DEF r
=============================================================================
