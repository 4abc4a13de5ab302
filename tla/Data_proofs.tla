----------------------------- MODULE Data_proofs ------------------------------
(***************************************************************************)
(* Facts about natural numbers, finite sets and sequences that the proofs  *)
(* of several components use.  Induction is stated on sets of numbers, so  *)
(* that no operator has to be instantiated.                                *)
(***************************************************************************)
EXTENDS Integers, FiniteSetsExt, FiniteSetTheorems, FunctionTheorems,
        SequenceTheorems, WellFoundedInduction, TLAPS

(* A set of numbers has a least element: what a counter runs down to.      *)
LEMMA LeastNatural ==
    ASSUME NEW B, B \subseteq Nat, B # {}
    PROVE  \E m \in B : \A k \in B : m <= k
<1>1. \E m \in B : \A k \in B : ~ (<<k, m>> \in OpToRel(<, Nat))
  BY NatLessThanWellFounded, WFMin
<1>2. PICK m \in B : \A k \in B : ~ (<<k, m>> \in OpToRel(<, Nat))
  BY <1>1
<1>3. \A k \in B : ~ (k < m)
  BY <1>2 DEF OpToRel
<1>. QED  BY <1>3

(* A set with 0 and with the successor of each of its elements holds all   *)
(* numbers: what a loop reaches from its first round.                      *)
LEMMA NatSet ==
    ASSUME NEW S, 0 \in S, \A n \in Nat : n \in S => n + 1 \in S
    PROVE  Nat \subseteq S
<1>. DEFINE B == Nat \ S
<1>1. SUFFICES ASSUME B # {} PROVE FALSE
  OBVIOUS
<1>2. PICK m \in B : \A k \in B : m <= k
  <2>1. B \subseteq Nat
    OBVIOUS
  <2>. QED  BY <1>1, <2>1, LeastNatural
<1>3. m \in Nat \ {0}
  OBVIOUS
<1>4. m - 1 \in Nat /\ m - 1 \in S
  BY <1>2, <1>3
<1>. QED  BY <1>3, <1>4

(* The longest script: a finite set of numbers has a largest element.      *)
LEMMA FiniteMax ==
    ASSUME NEW S \in SUBSET Nat, IsFiniteSet(S), S # {}
    PROVE  Max(S) \in S /\ \A s \in S : s <= Max(S)
<1>. DEFINE HasMax(T) == \E m \in T : \A s \in T : m >= s
            N == {n \in Nat : \A T \in SUBSET Nat :
                      IsFiniteSet(T) /\ Cardinality(T) = n /\ T # {} => HasMax(T)}
<1>1. 0 \in N
  BY FS_EmptySet
<1>2. ASSUME NEW n \in Nat, n \in N
      PROVE  n + 1 \in N
  <2>1. SUFFICES ASSUME NEW T \in SUBSET Nat, IsFiniteSet(T),
                        Cardinality(T) = n + 1, T # {}
                 PROVE  HasMax(T)
    OBVIOUS
  <2>2. PICK t \in T : TRUE
    BY <2>1
  <2>3. IsFiniteSet(T \ {t}) /\ Cardinality(T \ {t}) = n
    <3>1. /\ IsFiniteSet(T \ {t})
          /\ Cardinality(T \ {t}) =
                 IF t \in T THEN Cardinality(T) - 1 ELSE Cardinality(T)
      BY <2>1, FS_RemoveElement, Zenon
    <3>. QED  BY <2>1, <3>1
  <2>4. CASE T \ {t} = {}
    BY <2>4
  <2>5. CASE T \ {t} # {}
    <3>1. PICK m \in T \ {t} : \A s \in T \ {t} : m >= s
      <4>1. T \ {t} \in SUBSET Nat
        OBVIOUS
      <4>. QED  BY <1>2, <2>3, <2>5, <4>1
    <3>2. CASE m >= t
      BY <3>1, <3>2
    <3>3. CASE t > m
      <4>1. \A s \in T : t >= s
        BY <3>1, <3>3
      <4>. QED  BY <4>1
    <3>. QED  BY <3>2, <3>3
  <2>. QED  BY <2>4, <2>5
<1>3. Cardinality(S) \in N
  <2>1. \A n \in Nat : n \in N => n + 1 \in N
    BY <1>2
  <2>2. Nat \subseteq N
    <3>. HIDE DEF N
    <3>. QED  BY <1>1, <2>1, NatSet
  <2>. QED  BY <2>2, FS_CardinalityType
<1>4. HasMax(S)
  BY <1>3
<1>. QED  BY <1>4 DEF Max

(* The elements of a finite set of numbers, by how many are not above.     *)
LEMMA Ranks ==
    ASSUME NEW S \in SUBSET Nat, IsFiniteSet(S)
    PROVE  /\ \A t \in S : Cardinality({u \in S : u <= t}) \in 1 .. Cardinality(S)
           /\ \A t, v \in S :
                  Cardinality({u \in S : u <= t}) = Cardinality({u \in S : u <= v})
                      => t = v
           /\ \A i \in 1 .. Cardinality(S) :
                  \E t \in S : Cardinality({u \in S : u <= t}) = i
<1>. DEFINE Upto(t) == {u \in S : u <= t}
            rank == [t \in S |-> Cardinality(Upto(t))]
<1>1. Cardinality(S) \in Nat
  BY FS_CardinalityType
<1>2. ASSUME NEW t \in S
      PROVE  /\ IsFiniteSet(Upto(t))
             /\ Cardinality(Upto(t)) \in 1 .. Cardinality(S)
  <2>1. IsFiniteSet(Upto(t)) /\ Cardinality(Upto(t)) <= Cardinality(S)
    BY FS_Subset
  <2>2. Cardinality(Upto(t)) \in Nat /\ Upto(t) # {}
    BY <2>1, FS_CardinalityType
  <2>3. Cardinality(Upto(t)) # 0
    BY <2>1, <2>2, FS_EmptySet
  <2>. QED  BY <1>1, <2>1, <2>2, <2>3
<1>3. ASSUME NEW t \in S, NEW u \in S, t < u
      PROVE  rank[t] # rank[u]
  <2>1. Upto(t) \subseteq Upto(u) /\ u \in Upto(u) /\ u \notin Upto(t)
    <3>1. \A x \in S : x \in Nat
      OBVIOUS
    <3>2. \A x \in S : x <= t => x <= u
      BY <1>3, <3>1
    <3>3. u <= u /\ ~(u <= t)
      BY <1>3, <3>1
    <3>. QED  BY <3>2, <3>3
  <2>. QED  BY <1>2, <2>1, FS_Subset
<1>4. rank \in Injection(S, 1 .. Cardinality(S))
  <2>1. rank \in [S -> 1 .. Cardinality(S)]
    BY <1>2
  <2>2. \A t, u \in S : rank[t] = rank[u] => t = u
    BY <1>3
  <2>. QED  BY <2>1, <2>2, Fun_IsInj
<1>5. /\ IsFiniteSet(1 .. Cardinality(S))
      /\ Cardinality(1 .. Cardinality(S)) = Cardinality(S)
  BY <1>1, FS_Interval
<1>6. rank \in Surjection(S, 1 .. Cardinality(S))
  BY <1>4, <1>5, FS_Injection
<1>7. \A i \in 1 .. Cardinality(S) : \E t \in S : rank[t] = i
  BY <1>6 DEF Surjection
<1>8. \A t, v \in S : rank[t] = rank[v] => t = v
  <2>1. \A t, v \in S : t < v \/ v < t \/ t = v
    OBVIOUS
  <2>. QED  BY <1>3, <2>1
<1>. QED  BY <1>2, <1>7, <1>8

(* The i-th element, as Messages names it.                                 *)
Ranked(S, i) == CHOOSE t \in S : Cardinality({u \in S : u <= t}) = i

LEMMA NthElement ==
    ASSUME NEW S \in SUBSET Nat, IsFiniteSet(S)
    PROVE  /\ \A i \in 1 .. Cardinality(S) : Ranked(S, i) \in S
           /\ \A i, j \in 1 .. Cardinality(S) : Ranked(S, i) = Ranked(S, j) => i = j
           /\ \A t \in S : \E i \in 1 .. Cardinality(S) : Ranked(S, i) = t
<1>. DEFINE rank(t) == Cardinality({u \in S : u <= t})
<1>1. /\ \A t \in S : rank(t) \in 1 .. Cardinality(S)
      /\ \A t, v \in S : rank(t) = rank(v) => t = v
      /\ \A i \in 1 .. Cardinality(S) : \E t \in S : rank(t) = i
  BY Ranks
<1>2. \A i : Ranked(S, i) = CHOOSE t \in S : rank(t) = i
  BY DEF Ranked
<1>. HIDE DEF rank
<1>3. \A i \in 1 .. Cardinality(S) : Ranked(S, i) \in S /\ rank(Ranked(S, i)) = i
  BY <1>1, <1>2
<1>. QED  BY <1>1, <1>3

-----------------------------------------------------------------------------
(* Sums.  SumFunction takes one element after the other from the domain;   *)
(* what it has then added up is a function on the subsets of it.           *)
One(s) == CHOOSE y \in s : TRUE

SumStep(f, g, s) == IF s = {} THEN 0 ELSE f[One(s)] + g[s \ {One(s)}]

PartialSums(f, S) == CHOOSE g : g = [s \in SUBSET S |-> SumStep(f, g, s)]

(* A subset without one of its elements is smaller.                        *)
LEMMA Smaller ==
    ASSUME NEW S, IsFiniteSet(S), NEW s \in SUBSET S
    PROVE  /\ IsFiniteSet(s) /\ Cardinality(s) \in Nat
           /\ Cardinality(s) <= Cardinality(S)
           /\ Cardinality(s) = 0 <=> s = {}
           /\ s # {} => One(s) \in s
           /\ \A x \in s : /\ s \ {x} \in SUBSET S
                          /\ Cardinality(s \ {x}) = Cardinality(s) - 1
<1>1. IsFiniteSet(s) /\ Cardinality(s) <= Cardinality(S)
  BY FS_Subset
<1>2. Cardinality(s) \in Nat /\ (Cardinality(s) = 0 <=> s = {})
  BY <1>1, FS_CardinalityType, FS_EmptySet
<1>3. s # {} => One(s) \in s
  BY DEF One
<1>4. \A x \in s : Cardinality(s \ {x}) = Cardinality(s) - 1
  BY <1>1, FS_RemoveElement
<1>. QED  BY <1>1, <1>2, <1>3, <1>4

(* There is such a function, and its value for the whole domain is the sum. *)
LEMMA SumsExist ==
    ASSUME NEW S, IsFiniteSet(S), NEW f \in [S -> Nat]
    PROVE  /\ PartialSums(f, S) \in [SUBSET S -> Nat]
           /\ \A s \in SUBSET S :
                  PartialSums(f, S)[s] = SumStep(f, PartialSums(f, S), s)
           /\ SumFunction(f) = PartialSums(f, S)[S]
<1>. DEFINE small(n) == {s \in SUBSET S : Cardinality(s) <= n}
            partial(g, n) == \A s \in small(n) : g[s] = SumStep(f, g, s)
            N == {n \in Nat : \E g \in [small(n) -> Nat] : partial(g, n)}
<1>1. 0 \in N
  <2>1. small(0) = {{}}
    <3>1. ASSUME NEW s \in SUBSET S
          PROVE  Cardinality(s) <= 0 <=> s = {}
      <4>1. Cardinality(s) \in Nat /\ (Cardinality(s) = 0 <=> s = {})
        BY Smaller
      <4>. QED  BY <4>1
    <3>. QED  BY <3>1
  <2>2. [s \in small(0) |-> 0] \in [small(0) -> Nat]
    OBVIOUS
  <2>3. partial([s \in small(0) |-> 0], 0)
    BY <2>1 DEF SumStep
  <2>. QED  BY <2>2, <2>3
<1>2. ASSUME NEW n \in Nat, n \in N
      PROVE  n + 1 \in N
  <2>1. PICK g \in [small(n) -> Nat] : partial(g, n)
    BY <1>2
  <2>. DEFINE h == [s \in small(n + 1) |-> SumStep(f, g, s)]
  <2>2. ASSUME NEW s \in small(n + 1), s # {}
        PROVE  s \ {One(s)} \in small(n) /\ One(s) \in S
    <3>1. s \in SUBSET S /\ Cardinality(s) <= n + 1
      OBVIOUS
    <3>. QED  BY <2>2, <3>1, Smaller
  <2>3. \A s \in small(n + 1) : SumStep(f, g, s) \in Nat
    BY <2>2 DEF SumStep
  <2>4. h \in [small(n + 1) -> Nat]
    <3>. HIDE DEF small
    <3>. QED  BY <2>3
  <2>5. ASSUME NEW s \in small(n)
        PROVE  s \in small(n + 1) /\ h[s] = g[s]
    <3>1. s \in SUBSET S /\ Cardinality(s) <= n /\ Cardinality(s) \in Nat
      BY Smaller
    <3>2. s \in small(n + 1)
      BY <3>1
    <3>3. g[s] = SumStep(f, g, s)
      BY <2>1
    <3>4. h[s] = SumStep(f, g, s)
      <4>. HIDE DEF small
      <4>. QED  BY <3>2
    <3>. QED  BY <3>2, <3>3, <3>4
  <2>6. ASSUME NEW s \in small(n + 1)
        PROVE  h[s] = SumStep(f, h, s)
    <3>1. h[s] = SumStep(f, g, s)
      <4>. HIDE DEF small
      <4>. QED  OBVIOUS
    <3>2. s # {} => h[s \ {One(s)}] = g[s \ {One(s)}]
      <4>. HIDE DEF h, small
      <4>. QED  BY <2>2, <2>5
    <3>. HIDE DEF h
    <3>. QED  BY <3>1, <3>2 DEF SumStep
  <2>7. partial(h, n + 1)
    BY <2>6
  <2>. HIDE DEF h, partial, small
  <2>. QED  BY <2>4, <2>7
<1>3. Nat \subseteq N
  <2>. HIDE DEF N
  <2>. QED  BY <1>1, <1>2, NatSet
<1>4. small(Cardinality(S)) = SUBSET S /\ Cardinality(S) \in Nat
  BY Smaller
<1>5. PICK g \in [SUBSET S -> Nat] : \A s \in SUBSET S : g[s] = SumStep(f, g, s)
  <2>1. Cardinality(S) \in N
    <3>. HIDE DEF N
    <3>. QED  BY <1>3, <1>4
  <2>. HIDE DEF small
  <2>. QED  BY <1>4, <2>1
<1>6. g = [s \in SUBSET S |-> SumStep(f, g, s)]
  BY <1>5
<1>7. PartialSums(f, S) = [s \in SUBSET S |-> SumStep(f, PartialSums(f, S), s)]
  BY <1>6 DEF PartialSums
<1>8. \A s \in SUBSET S :
          PartialSums(f, S)[s] = SumStep(f, PartialSums(f, S), s)
  BY <1>7
<1>. DEFINE M == {n \in Nat : \A s \in SUBSET S :
                      Cardinality(s) = n => PartialSums(f, S)[s] \in Nat}
<1>9. Nat \subseteq M
  <2>1. 0 \in M
    <3>1. ASSUME NEW s \in SUBSET S, Cardinality(s) = 0
          PROVE  PartialSums(f, S)[s] \in Nat
      <4>1. s = {}
        BY <3>1, Smaller
      <4>. QED  BY <1>8, <4>1 DEF SumStep
    <3>. QED  BY <3>1
  <2>2. ASSUME NEW n \in Nat, n \in M
        PROVE  n + 1 \in M
    <3>1. ASSUME NEW s \in SUBSET S, Cardinality(s) = n + 1
          PROVE  PartialSums(f, S)[s] \in Nat
      <4>1. s # {}
        BY <3>1, Smaller
      <4>2. /\ One(s) \in S /\ s \ {One(s)} \in SUBSET S
            /\ Cardinality(s \ {One(s)}) = n
        BY <3>1, <4>1, Smaller
      <4>3. PartialSums(f, S)[s \ {One(s)}] \in Nat
        BY <2>2, <4>2
      <4>4. PartialSums(f, S)[s] = f[One(s)] + PartialSums(f, S)[s \ {One(s)}]
        BY <1>8, <4>1 DEF SumStep
      <4>. QED  BY <4>2, <4>3, <4>4
    <3>. QED  BY <3>1
  <2>. HIDE DEF M
  <2>. QED  BY <2>1, <2>2, NatSet
<1>10. PartialSums(f, S) \in [SUBSET S -> Nat]
  <2>1. \A s \in SUBSET S : PartialSums(f, S)[s] \in Nat
    BY <1>4, <1>9, Smaller
  <2>. QED  BY <1>7, <2>1
<1>11. SumFunction(f) = PartialSums(f, S)[S]
  <2>1. DOMAIN f = S
    OBVIOUS
  <2>. QED  BY <2>1 DEF SumFunction, SumFunctionOnSet, FoldFunctionOnSet,
                         MapThenFoldSet, PartialSums, SumStep, One
<1>. QED  BY <1>8, <1>10, <1>11

(* The length of a command with several parts is a sum over them.          *)
LEMMA SumOfNaturals ==
    ASSUME NEW S, IsFiniteSet(S), NEW f \in [S -> Nat]
    PROVE  SumFunction(f) \in Nat
<1>1. /\ PartialSums(f, S) \in [SUBSET S -> Nat]
      /\ SumFunction(f) = PartialSums(f, S)[S]
  BY SumsExist
<1>2. S \in SUBSET S
  OBVIOUS
<1>. QED  BY <1>1, <1>2

(* It does not matter which element is taken first.                        *)
LEMMA SumsSplit ==
    ASSUME NEW S, IsFiniteSet(S), NEW f \in [S -> Nat]
    PROVE  \A s \in SUBSET S : \A x \in s :
               PartialSums(f, S)[s] = f[x] + PartialSums(f, S)[s \ {x}]
<1>. DEFINE g == PartialSums(f, S)
            split(s) == \A x \in s : g[s] = f[x] + g[s \ {x}]
            N == {n \in Nat : \A s \in SUBSET S : Cardinality(s) = n => split(s)}
<1>1. /\ g \in [SUBSET S -> Nat]
      /\ \A s \in SUBSET S : s # {} => g[s] = f[One(s)] + g[s \ {One(s)}]
  <2>1. /\ g \in [SUBSET S -> Nat]
        /\ \A s \in SUBSET S : g[s] = SumStep(f, g, s)
    BY SumsExist
  <2>. HIDE DEF g
  <2>. QED  BY <2>1 DEF SumStep
<1>. HIDE DEF g
<1>2. 0 \in N
  BY Smaller
<1>3. ASSUME NEW n \in Nat, n \in N
      PROVE  n + 1 \in N
  <2>1. ASSUME NEW s \in SUBSET S, Cardinality(s) = n + 1, NEW x \in s
        PROVE  g[s] = f[x] + g[s \ {x}]
    <3>. DEFINE c == One(s)
    <3>1. /\ c \in s /\ c \in S /\ x \in S
          /\ s \ {c} \in SUBSET S /\ s \ {x} \in SUBSET S
          /\ Cardinality(s \ {c}) = n /\ Cardinality(s \ {x}) = n
      BY <2>1, Smaller
    <3>2. g[s] = f[c] + g[s \ {c}]
      BY <1>1, <3>1
    <3>. HIDE DEF c
    <3>3. CASE x = c
      BY <3>2, <3>3
    <3>4. CASE x # c
      <4>1. g[s \ {c}] = f[x] + g[(s \ {c}) \ {x}]
        BY <1>3, <3>1, <3>4
      <4>2. g[s \ {x}] = f[c] + g[(s \ {x}) \ {c}]
        BY <1>3, <3>1, <3>4
      <4>3. (s \ {c}) \ {x} = (s \ {x}) \ {c}
        OBVIOUS
      <4>4. /\ f[x] \in Nat /\ f[c] \in Nat
            /\ g[(s \ {x}) \ {c}] \in Nat
        <5>1. (s \ {x}) \ {c} \in SUBSET S
          OBVIOUS
        <5>. QED  BY <1>1, <3>1, <5>1
      <4>5. g[s \ {c}] = f[x] + g[(s \ {x}) \ {c}]
        BY <4>1, <4>3
      <4>. QED  BY <3>2, <4>2, <4>4, <4>5
    <3>. QED  BY <3>3, <3>4
  <2>. QED  BY <2>1
<1>4. Nat \subseteq N
  <2>. HIDE DEF N
  <2>. QED  BY <1>2, <1>3, NatSet
<1>5. ASSUME NEW s \in SUBSET S
      PROVE  split(s)
  <2>1. Cardinality(s) \in N
    <3>. HIDE DEF N
    <3>. QED  BY <1>4, Smaller
  <2>. QED  BY <2>1
<1>. QED  BY <1>5 DEF g

(* A sum without one of its summands.                                      *)
LEMMA SumWithout ==
    ASSUME NEW S, IsFiniteSet(S), NEW f \in [S -> Nat], NEW x \in S
    PROVE  SumFunction(f) = f[x] + SumFunction([y \in S \ {x} |-> f[y]])
<1>. DEFINE T == S \ {x}
            h == [y \in T |-> f[y]]
            N == {n \in Nat : \A s \in SUBSET T : Cardinality(s) = n =>
                      PartialSums(h, T)[s] = PartialSums(f, S)[s]}
<1>1. IsFiniteSet(T) /\ h \in [T -> Nat] /\ T \in SUBSET S
  BY Smaller
<1>2. /\ \A s \in SUBSET S :
             PartialSums(f, S)[s] = SumStep(f, PartialSums(f, S), s)
      /\ SumFunction(f) = PartialSums(f, S)[S]
  BY SumsExist
<1>3. /\ \A s \in SUBSET T :
             PartialSums(h, T)[s] = SumStep(h, PartialSums(h, T), s)
      /\ SumFunction(h) = PartialSums(h, T)[T]
  <2>. HIDE DEF h, T
  <2>. QED  BY <1>1, SumsExist
<1>4. 0 \in N
  <2>1. ASSUME NEW s \in SUBSET T, Cardinality(s) = 0
        PROVE  PartialSums(h, T)[s] = PartialSums(f, S)[s]
    <3>1. s = {} /\ s \in SUBSET S
      BY <2>1, Smaller
    <3>. HIDE DEF h
    <3>. QED  BY <1>2, <1>3, <3>1 DEF SumStep
  <2>. QED  BY <2>1
<1>5. ASSUME NEW n \in Nat, n \in N
      PROVE  n + 1 \in N
  <2>1. ASSUME NEW s \in SUBSET T, Cardinality(s) = n + 1
        PROVE  PartialSums(h, T)[s] = PartialSums(f, S)[s]
    <3>1. s # {} /\ s \in SUBSET S
      BY <2>1, Smaller
    <3>2. /\ One(s) \in T /\ s \ {One(s)} \in SUBSET T
          /\ Cardinality(s \ {One(s)}) = n
      BY <2>1, <3>1, Smaller
    <3>3. PartialSums(h, T)[s \ {One(s)}] = PartialSums(f, S)[s \ {One(s)}]
      BY <1>5, <3>2
    <3>4. h[One(s)] = f[One(s)]
      BY <3>2
    <3>5. /\ PartialSums(h, T)[s] =
                 h[One(s)] + PartialSums(h, T)[s \ {One(s)}]
          /\ PartialSums(f, S)[s] =
                 f[One(s)] + PartialSums(f, S)[s \ {One(s)}]
      <4>. HIDE DEF h, T
      <4>. QED  BY <1>2, <1>3, <3>1 DEF SumStep
    <3>. HIDE DEF h, T
    <3>. QED  BY <3>3, <3>4, <3>5
  <2>. HIDE DEF h, T
  <2>. QED  BY <2>1
<1>6. Nat \subseteq N
  <2>. HIDE DEF N
  <2>. QED  BY <1>4, <1>5, NatSet
<1>7. PartialSums(h, T)[T] = PartialSums(f, S)[T]
  <2>1. Cardinality(T) \in N
    <3>1. Cardinality(T) \in Nat
      BY <1>1, FS_CardinalityType
    <3>. HIDE DEF N
    <3>. QED  BY <1>6, <3>1
  <2>. QED  BY <2>1
<1>8. PartialSums(f, S)[S] = f[x] + PartialSums(f, S)[T]
  BY SumsSplit
<1>. QED  BY <1>2, <1>3, <1>7, <1>8

(* A sum of nothing, and of nothing but zeros.                             *)
LEMMA SumOfZeros ==
    ASSUME NEW S, IsFiniteSet(S), NEW f \in [S -> Nat], \A x \in S : f[x] = 0
    PROVE  SumFunction(f) = 0
<1>. DEFINE g == PartialSums(f, S)
            N == {n \in Nat : \A s \in SUBSET S : Cardinality(s) = n => g[s] = 0}
<1>1. /\ \A s \in SUBSET S : g[s] = SumStep(f, g, s)
      /\ SumFunction(f) = g[S]
  BY SumsExist
<1>. HIDE DEF g
<1>2. 0 \in N
  BY <1>1, Smaller DEF SumStep
<1>3. ASSUME NEW n \in Nat, n \in N
      PROVE  n + 1 \in N
  <2>1. ASSUME NEW s \in SUBSET S, Cardinality(s) = n + 1
        PROVE  g[s] = 0
    <3>1. /\ s # {} /\ One(s) \in S /\ s \ {One(s)} \in SUBSET S
          /\ Cardinality(s \ {One(s)}) = n
      BY <2>1, Smaller
    <3>2. g[s \ {One(s)}] = 0
      BY <1>3, <3>1
    <3>. QED  BY <1>1, <3>1, <3>2 DEF SumStep
  <2>. QED  BY <2>1
<1>4. Nat \subseteq N
  <2>. HIDE DEF N
  <2>. QED  BY <1>2, <1>3, NatSet
<1>5. Cardinality(S) \in N
  <2>. HIDE DEF N
  <2>. QED  BY <1>4, Smaller
<1>. QED  BY <1>1, <1>5

-----------------------------------------------------------------------------
(* The first message of a channel that is not empty, and the others.       *)
LEMMA FirstOfSeq ==
    ASSUME NEW S, NEW s \in Seq(S), s # <<>>
    PROVE  /\ Len(s) \in Nat \ {0}
           /\ DOMAIN s = 1 .. Len(s)
           /\ 1 \in DOMAIN s
           /\ Head(s) = s[1]
           /\ Head(s) \in S
           /\ Tail(s) \in Seq(S)
           /\ Len(Tail(s)) = Len(s) - 1
           /\ Tail(s) # <<>> <=> Len(s) > 1
           /\ DOMAIN Tail(s) = 1 .. Len(s) - 1
           /\ \A i \in DOMAIN Tail(s) : i + 1 \in DOMAIN s /\ Tail(s)[i] = s[i + 1]
<1>1. Len(s) \in Nat \ {0} /\ DOMAIN s = 1 .. Len(s)
  BY EmptySeq, LenProperties
<1>2. /\ Head(s) \in S
      /\ Tail(s) \in Seq(S)
      /\ Len(Tail(s)) = Len(s) - 1
  BY HeadTailProperties
<1>3. Head(s) = s[1]
  OBVIOUS
<1>4. DOMAIN Tail(s) = 1 .. Len(s) - 1
  BY <1>2, LenProperties
<1>5. \A i \in 1 .. Len(s) - 1 : Tail(s)[i] = s[i + 1]
  OBVIOUS
<1>6. Tail(s) # <<>> <=> Len(s) > 1
  <2>1. Tail(s) # <<>> => Len(Tail(s)) \in Nat \ {0}
    BY <1>2, EmptySeq
  <2>2. Tail(s) = <<>> => Len(Tail(s)) = 0
    BY EmptySeq
  <2>. QED  BY <1>1, <1>2, <2>1, <2>2
<1>. QED  BY <1>1, <1>2, <1>3, <1>4, <1>5, <1>6

(* What is left of a channel is not what it was.                           *)
LEMMA TailDiffers ==
    ASSUME NEW S, NEW s \in Seq(S), Tail(s) = s
    PROVE  s = <<>>
<1>1. CASE s # <<>>
  <2>1. Len(s) \in Nat /\ Len(Tail(s)) = Len(s) - 1
    BY <1>1, FirstOfSeq
  <2>. QED  BY <2>1
<1>. QED  BY <1>1

(* A message sent into a channel is its last.                              *)
LEMMA LastOfAppend ==
    ASSUME NEW S, NEW s \in Seq(S), NEW e \in S
    PROVE  /\ Append(s, e) \in Seq(S)
           /\ Len(s) \in Nat
           /\ DOMAIN s = 1 .. Len(s)
           /\ Len(Append(s, e)) = Len(s) + 1
           /\ DOMAIN Append(s, e) = 1 .. Len(s) + 1
           /\ Append(s, e)[Len(s) + 1] = e
           /\ \A i \in DOMAIN s : Append(s, e)[i] = s[i]
<1>1. Len(s) \in Nat /\ DOMAIN s = 1 .. Len(s)
  BY LenProperties
<1>2. /\ Append(s, e) \in Seq(S)
      /\ Len(Append(s, e)) = Len(s) + 1
      /\ Append(s, e)[Len(s) + 1] = e
      /\ \A i \in 1 .. Len(s) : Append(s, e)[i] = s[i]
  BY <1>1, AppendProperties
<1>. QED  BY <1>1, <1>2, LenProperties

(* Several messages sent at once follow those that were there.             *)
LEMMA PartsOfConcat ==
    ASSUME NEW S, NEW s \in Seq(S), NEW t \in Seq(S)
    PROVE  /\ s \o t \in Seq(S)
           /\ Len(s) \in Nat /\ Len(t) \in Nat
           /\ DOMAIN s = 1 .. Len(s) /\ DOMAIN t = 1 .. Len(t)
           /\ Len(s \o t) = Len(s) + Len(t)
           /\ DOMAIN (s \o t) = 1 .. Len(s) + Len(t)
           /\ \A i \in DOMAIN s : (s \o t)[i] = s[i]
           /\ \A i \in DOMAIN t : (s \o t)[Len(s) + i] = t[i]
<1>1. /\ Len(s) \in Nat /\ Len(t) \in Nat
      /\ DOMAIN s = 1 .. Len(s) /\ DOMAIN t = 1 .. Len(t)
  BY LenProperties
<1>2. /\ s \o t \in Seq(S)
      /\ Len(s \o t) = Len(s) + Len(t)
      /\ \A i \in 1 .. Len(s) + Len(t) :
             (s \o t)[i] = IF i <= Len(s) THEN s[i] ELSE t[i - Len(s)]
  BY ConcatProperties
<1>3. DOMAIN (s \o t) = 1 .. Len(s) + Len(t)
  BY <1>2, LenProperties
<1>. QED  BY <1>1, <1>2, <1>3

(* A channel with one message.                                             *)
LEMMA SingleSeq ==
    ASSUME NEW S, NEW e \in S
    PROVE  /\ <<e>> \in Seq(S) /\ <<e>> # <<>>
           /\ Len(<<e>>) = 1 /\ DOMAIN <<e>> = {1} /\ <<e>>[1] = e
           /\ <<>> \o <<e>> = <<e>>
<1>1. <<e>> \in Seq(S)
  OBVIOUS
<1>2. Len(<<e>>) = 1 /\ <<e>>[1] = e
  OBVIOUS
<1>3. DOMAIN <<e>> = {1}
  OBVIOUS
<1>. QED  BY <1>1, <1>2, <1>3, ConcatEmptySeq, EmptySeq
=============================================================================
