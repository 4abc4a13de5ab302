--------------------------- MODULE Solver_proofs ---------------------------
(***************************************************************************)
(* Proofs about reading a formula, laying it out and searching on it:      *)
(* Inv of SolverInv is an invariant of Solver for every file whose lines   *)
(* are no tautologies, and with it follow what the runs check of the lists *)
(* of a serial_instance and that a run implements Walk.                    *)
(***************************************************************************)
EXTENDS SolverInv, Data_proofs

(* update() writes the pending bit back and changes nothing a reader sees. *)
THEOREM UpdateKeepsValue ==
    ASSUME NEW n \in Nat, NEW b, IsBitfield(b, n)
    PROVE  /\ IsBitfield(Update(b), n)
           /\ Update(b).last_mod_index = NoIndex
           /\ ValueOf(Update(b)) = ValueOf(b)
           /\ Update(b).bits = ValueOf(b)
<1>1. CASE b.last_mod_index = NoIndex
  <2>1. Update(b) = b
    BY <1>1 DEF Update
  <2>2. \A i \in DOMAIN b.bits : Get(b, i) = b.bits[i]
    BY <1>1 DEF Get, NoIndex, IsBitfield, Bits
  <2>3. ValueOf(b) = b.bits
    BY <2>2 DEF ValueOf, IsBitfield, Bits
  <2> QED  BY <1>1, <2>1, <2>3
<1>2. CASE b.last_mod_index # NoIndex
  <2> DEFINE k == b.last_mod_index
             written == [b.bits EXCEPT ![k] = b.last_mod_value]
  <2>1. k \in 1 .. n
    BY <1>2 DEF IsBitfield, NoIndex
  <2>2. /\ Update(b).bits = written
        /\ Update(b).last_mod_index = NoIndex
        /\ Update(b).last_mod_value = b.last_mod_value
        /\ Update(b) = [bits |-> written, last_mod_index |-> NoIndex,
                        last_mod_value |-> b.last_mod_value]
    BY <1>2 DEF Update, IsBitfield
  <2>3. written \in Bits(n)
    BY <2>1 DEF IsBitfield, Bits
  <2>4. IsBitfield(Update(b), n)
    BY <2>2, <2>3 DEF IsBitfield, NoIndex
  <2>5. \A i \in 1 .. n : written[i] = Get(b, i)
    BY <2>1 DEF Get, IsBitfield, Bits
  <2>6. written = ValueOf(b)
    BY <2>3, <2>5 DEF ValueOf, IsBitfield, Bits
  <2>7. \A i \in 1 .. n : Get(Update(b), i) = written[i]
    BY <2>2 DEF Get, NoIndex
  <2>8. ValueOf(Update(b)) = written
    BY <2>2, <2>3, <2>7 DEF ValueOf, Bits
  <2> QED  BY <2>2, <2>4, <2>6, <2>8
<1> QED  BY <1>1, <1>2

(* operator[] may be used to read: handing out a reference changes nothing *)
(* a reader sees, and the buffer holds the bit that was asked for.         *)
THEOREM AccessKeepsValue ==
    ASSUME NEW n \in Nat, NEW b, IsBitfield(b, n), NEW i \in 1 .. n
    PROVE  /\ IsBitfield(Access(b, i), n)
           /\ ValueOf(Access(b, i)) = ValueOf(b)
           /\ Access(b, i).last_mod_value = Get(b, i)
<1> DEFINE a == Access(b, i)
<1>1. /\ IsBitfield(Update(b), n)
      /\ Update(b).bits = ValueOf(b)
  BY UpdateKeepsValue
<1>2. a = [bits |-> ValueOf(b), last_mod_index |-> i,
           last_mod_value |-> ValueOf(b)[i]]
  BY <1>1 DEF Access
<1>3. ValueOf(b) \in Bits(n)
  BY <1>1 DEF IsBitfield
<1>4. ValueOf(b)[i] = Get(b, i)
  BY DEF ValueOf, IsBitfield, Bits
<1>5. IsBitfield(a, n)
  BY <1>2, <1>3 DEF IsBitfield, Bits
<1>6. \A j \in 1 .. n : Get(a, j) = ValueOf(b)[j]
  BY <1>2 DEF Get
<1>7. ValueOf(a) = ValueOf(b)
  <2>1. a.bits = ValueOf(b) /\ DOMAIN a.bits = 1 .. n
    BY <1>2, <1>3 DEF Bits
  <2>2. ValueOf(a) = [j \in 1 .. n |-> Get(a, j)]
    BY <2>1 DEF ValueOf
  <2> HIDE DEF a
  <2> QED  BY <1>3, <1>6, <2>2 DEF Bits
<1> QED  BY <1>2, <1>4, <1>5, <1>7

(* An assignment changes the one bit for every reader, at once and before  *)
(* it is written back; the bit that was pending before is not lost.        *)
THEOREM ReadAfterWrite ==
    ASSUME NEW n \in Nat, NEW b, IsBitfield(b, n),
           NEW i \in 1 .. n, NEW value \in BOOLEAN
    PROVE  /\ IsBitfield(Assign(b, i, value), n)
           /\ ValueOf(Assign(b, i, value)) = [ValueOf(b) EXCEPT ![i] = value]
<1> DEFINE a == Assign(b, i, value)
<1>1. /\ IsBitfield(Update(b), n)
      /\ Update(b).bits = ValueOf(b)
  BY UpdateKeepsValue
<1>2. a = [bits |-> ValueOf(b), last_mod_index |-> i,
           last_mod_value |-> value]
  <2>1. Access(b, i) = [bits |-> ValueOf(b), last_mod_index |-> i,
                        last_mod_value |-> ValueOf(b)[i]]
    BY <1>1 DEF Access
  <2> QED  BY <2>1 DEF Assign
<1>3. ValueOf(b) \in Bits(n)
  BY <1>1 DEF IsBitfield
<1>4. IsBitfield(a, n)
  BY <1>2, <1>3 DEF IsBitfield
<1>5. \A j \in 1 .. n : Get(a, j) = [ValueOf(b) EXCEPT ![i] = value][j]
  BY <1>2, <1>3 DEF Get, Bits
<1>6. ValueOf(a) = [ValueOf(b) EXCEPT ![i] = value]
  <2>1. a.bits = ValueOf(b) /\ DOMAIN a.bits = 1 .. n
    BY <1>2, <1>3 DEF Bits
  <2>2. ValueOf(a) = [j \in 1 .. n |-> Get(a, j)]
    BY <2>1 DEF ValueOf
  <2> HIDE DEF a
  <2> QED  BY <1>3, <1>5, <2>2 DEF Bits
<1> QED  BY <1>4, <1>6

(* The loop over the bits, as FoldLeft takes it apart: from the last bit.   *)
UpTo(n) == [i \in 1 .. n |-> i]

AssignStep(b, values, seq, g, s) ==
    IF s = {} THEN b
    ELSE Assign(g[s \ {Max(s)}], seq[Max(s)], values[seq[Max(s)]])

Assigned(b, values, seq) ==
    CHOOSE g :
        g = [s \in SUBSET DOMAIN seq |-> AssignStep(b, values, seq, g, s)]

(* One round of the loop of AssignAll assigns the largest index last.      *)
LEMMA StepOfLoop ==
    ASSUME NEW n \in Nat, NEW b, IsBitfield(b, n), NEW values \in Bits(n),
           NEW g, NEW s \in SUBSET (1 .. n)
    PROVE  /\ IsFiniteSet(s) /\ Cardinality(s) \in 0 .. n
           /\ s = {} => AssignStep(b, values, UpTo(n), g, s) = b
           /\ s # {} => /\ Max(s) \in s
                        /\ \A t \in s : t <= Max(s)
                        /\ Cardinality(s \ {Max(s)}) = Cardinality(s) - 1
                        /\ AssignStep(b, values, UpTo(n), g, s) =
                               Assign(g[s \ {Max(s)}], Max(s), values[Max(s)])
<1>. DEFINE D == 1 .. n
<1>1. /\ IsFiniteSet(D) /\ Cardinality(D) = n /\ s \in SUBSET D
  BY FS_Interval
<1>. HIDE DEF D
<1>2. IsFiniteSet(s) /\ Cardinality(s) \in 0 .. n
  <2>1. IsFiniteSet(s) /\ Cardinality(s) \in Nat /\ Cardinality(s) <= Cardinality(D)
    BY <1>1, Smaller
  <2>. QED  BY <1>1, <2>1
<1>3. ASSUME s # {}
      PROVE  Max(s) \in s /\ \A t \in s : t <= Max(s)
  <2>1. s \in SUBSET Nat
    OBVIOUS
  <2>. QED  BY <1>2, <1>3, <2>1, FiniteMax
<1>4. ASSUME s # {}
      PROVE  Cardinality(s \ {Max(s)}) = Cardinality(s) - 1
  <2>1. Max(s) \in s
    BY <1>3, <1>4
  <2>. QED  BY <1>1, <2>1, Smaller
<1>5. \A k \in 1 .. n : UpTo(n)[k] = k
  BY DEF UpTo
<1>6. ASSUME s # {}
      PROVE  AssignStep(b, values, UpTo(n), g, s) =
                 Assign(g[s \ {Max(s)}], Max(s), values[Max(s)])
  <2>1. UpTo(n)[Max(s)] = Max(s)
    BY <1>3, <1>5, <1>6
  <2>. QED  BY <1>6, <2>1, Zenon DEF AssignStep
<1>. QED  BY <1>2, <1>3, <1>4, <1>6 DEF AssignStep

(* The recursive function that the loop stands for has its equation at     *)
(* every set.                                                              *)
LEMMA LoopExists ==
    ASSUME NEW n \in Nat, NEW b, IsBitfield(b, n), NEW values \in Bits(n)
    PROVE  \A s \in SUBSET (1 .. n) :
               Assigned(b, values, UpTo(n))[s] =
                   AssignStep(b, values, UpTo(n), Assigned(b, values, UpTo(n)), s)
<1>. DEFINE D == 1 .. n
            step(g, s) == AssignStep(b, values, UpTo(n), g, s)
            small(k) == {s \in SUBSET D : Cardinality(s) <= k}
            N == {k \in Nat : \E g : /\ g = [s \in small(k) |-> g[s]]
                                     /\ \A s \in small(k) : g[s] = step(g, s)}
<1>1. \A g, h : \A s \in SUBSET D :
          (s # {} => g[s \ {Max(s)}] = h[s \ {Max(s)}]) => step(g, s) = step(h, s)
  <2>1. ASSUME NEW g, NEW h, NEW s \in SUBSET D,
               s # {} => g[s \ {Max(s)}] = h[s \ {Max(s)}]
        PROVE  step(g, s) = step(h, s)
    <3>1. CASE s = {}
      BY <3>1, Zenon DEF AssignStep
    <3>2. CASE s # {}
      <4>1. g[s \ {Max(s)}] = h[s \ {Max(s)}]
        BY <2>1, <3>2
      <4>2. \A f : step(f, s) = Assign(f[s \ {Max(s)}], UpTo(n)[Max(s)],
                                       values[UpTo(n)[Max(s)]])
        BY <3>2, Zenon DEF AssignStep
      <4>. HIDE DEF step
      <4>. QED  BY <4>1, <4>2, Zenon
    <3>. QED  BY <3>1, <3>2
  <2>. QED  BY <2>1, Zenon
<1>2. \A s \in SUBSET D : s # {} => /\ s \ {Max(s)} \in SUBSET D
                                    /\ Cardinality(s \ {Max(s)}) = Cardinality(s) - 1
  BY StepOfLoop
<1>3. \A s \in SUBSET D : Cardinality(s) \in 0 .. n /\ (s # {} => Cardinality(s) # 0)
  <2>1. ASSUME NEW s \in SUBSET D
        PROVE  Cardinality(s) \in 0 .. n /\ (s # {} => Cardinality(s) # 0)
    <3>1. IsFiniteSet(s) /\ Cardinality(s) \in 0 .. n
      BY StepOfLoop
    <3>. QED  BY <3>1, FS_EmptySet
  <2>. QED  BY <2>1
<1>. HIDE DEF step, D
<1>4. 0 \in N
  <2>. DEFINE g == [s \in small(0) |-> step(<<>>, s)]
  <2>1. \A s \in small(0) : s = {}
    BY <1>3
  <2>2. \A s \in small(0) : g[s] = step(g, s)
    <3>1. \A s \in small(0) : g[s] = step(<<>>, s)
      OBVIOUS
    <3>2. \A s \in small(0) : step(<<>>, s) = step(g, s)
      <4>. HIDE DEF g
      <4>. QED  BY <1>1, <2>1
    <3>. HIDE DEF g
    <3>. QED  BY <3>1, <3>2
  <2>3. g = [s \in small(0) |-> g[s]]
    OBVIOUS
  <2>. HIDE DEF g, small
  <2>. QED  BY <2>2, <2>3
<1>5. ASSUME NEW k \in Nat, k \in N
      PROVE  k + 1 \in N
  <2>1. PICK g : \A s \in small(k) : g[s] = step(g, s)
    BY <1>5
  <2>. DEFINE h == [s \in small(k + 1) |-> step(g, s)]
  <2>2. \A s \in small(k) : s \in small(k + 1)
    BY <1>3
  <2>3. \A s \in small(k + 1) : s # {} => s \ {Max(s)} \in small(k)
    BY <1>2, <1>3
  <2>4. \A s \in small(k + 1) : h[s] = step(g, s)
    <3>. HIDE DEF small
    <3>. QED  OBVIOUS
  <2>5. h = [s \in small(k + 1) |-> h[s]]
    <3>. HIDE DEF small
    <3>. QED  OBVIOUS
  <2>. HIDE DEF h
  <2>6. \A s \in small(k) : h[s] = g[s]
    <3>. HIDE DEF small
    <3>. QED  BY <2>1, <2>2, <2>4
  <2>7. \A s \in small(k + 1) : step(h, s) = step(g, s)
    <3>1. small(k + 1) \subseteq SUBSET D
      OBVIOUS
    <3>. HIDE DEF small
    <3>. QED  BY <1>1, <2>3, <2>6, <3>1
  <2>8. \A s \in small(k + 1) : h[s] = step(h, s)
    <3>. HIDE DEF small
    <3>. QED  BY <2>4, <2>7
  <2>. HIDE DEF small
  <2>. QED  BY <2>5, <2>8
<1>6. n \in N
  <2>. HIDE DEF N
  <2>. QED  BY <1>4, <1>5, NatSet
<1>7. small(n) = SUBSET D
  BY <1>3
<1>8. PICK g : g = [s \in SUBSET D |-> g[s]] /\ \A s \in SUBSET D : g[s] = step(g, s)
  <2>. HIDE DEF small
  <2>. QED  BY <1>6, <1>7
<1>9. g = [s \in SUBSET D |-> step(g, s)]
  <2>1. [s \in SUBSET D |-> g[s]] = [s \in SUBSET D |-> step(g, s)]
    BY <1>8, Zenon
  <2>. QED  BY <1>8, <2>1, Zenon
<1>10. Assigned(b, values, UpTo(n)) =
           [s \in SUBSET D |-> step(Assigned(b, values, UpTo(n)), s)]
  <2>1. DOMAIN UpTo(n) = D
    BY DEF UpTo, D
  <2>2. \E f : f = [s \in SUBSET DOMAIN UpTo(n) |->
                        AssignStep(b, values, UpTo(n), f, s)]
    BY <1>9, <2>1, Zenon DEF step
  <2>3. Assigned(b, values, UpTo(n)) =
            [s \in SUBSET DOMAIN UpTo(n) |->
                AssignStep(b, values, UpTo(n), Assigned(b, values, UpTo(n)), s)]
    BY <2>2, Zenon DEF Assigned
  <2>. QED  BY <2>1, <2>3, Zenon DEF step
<1>. QED  BY <1>10 DEF step, D

(* Once every bit was assigned, a reader sees what was assigned, whatever  *)
(* the bitfield held or had pending before: probsat uses one bitfield for  *)
(* all its attempts.                                                       *)
THEOREM AssignAllIsRead ==
    ASSUME NEW n \in Nat \ {0}, NEW b, IsBitfield(b, n), NEW values \in Bits(n)
    PROVE  /\ IsBitfield(AssignAll(b, values), n)
           /\ ValueOf(AssignAll(b, values)) = values
           /\ AssignAll(b, values).last_mod_index # NoIndex
<1>. DEFINE g == Assigned(b, values, UpTo(n))
            ok(k) == /\ IsBitfield(g[1 .. k], n)
                     /\ \A i \in 1 .. k : ValueOf(g[1 .. k])[i] = values[i]
                     /\ k > 0 => g[1 .. k].last_mod_index # NoIndex
            N == {k \in Nat : k <= n => ok(k)}
<1>1. \A s \in SUBSET (1 .. n) : g[s] = AssignStep(b, values, UpTo(n), g, s)
  BY LoopExists
<1>. HIDE DEF g
<1>2. 0 \in N
  <2>1. 1 .. 0 = {} /\ 1 .. 0 \in SUBSET (1 .. n)
    OBVIOUS
  <2>2. g[1 .. 0] = b
    <3>1. g[1 .. 0] = AssignStep(b, values, UpTo(n), g, 1 .. 0)
      BY <1>1, <2>1, Zenon
    <3>2. AssignStep(b, values, UpTo(n), g, 1 .. 0) = b
      BY <2>1, Zenon DEF AssignStep
    <3>. QED  BY <3>1, <3>2
  <2>. QED  BY <2>1, <2>2
<1>3. ASSUME NEW k \in Nat, k \in N
      PROVE  k + 1 \in N
  <2>. SUFFICES ASSUME k + 1 <= n PROVE ok(k + 1)
    OBVIOUS
  <2>. DEFINE s == 1 .. k + 1
              c == g[1 .. k]
  <2>1. ok(k)
    BY <1>3
  <2>2. /\ s \in SUBSET (1 .. n) /\ s # {}
        /\ Max(s) \in s /\ \A t \in s : t <= Max(s)
    <3>1. s \in SUBSET (1 .. n) /\ s # {}
      OBVIOUS
    <3>. QED  BY <3>1, StepOfLoop
  <2>3. Max(s) = k + 1 /\ s \ {k + 1} = 1 .. k
    BY <2>2
  <2>4. g[s] = Assign(c, k + 1, values[k + 1])
    <3>1. g[s] = Assign(g[s \ {Max(s)}], Max(s), values[Max(s)])
      <4>1. AssignStep(b, values, UpTo(n), g, s) =
                Assign(g[s \ {Max(s)}], Max(s), values[Max(s)])
        <5>1. UpTo(n)[Max(s)] = Max(s)
          BY <2>2 DEF UpTo
        <5>. HIDE DEF s
        <5>. QED  BY <2>2, <5>1, Zenon DEF AssignStep
      <4>. HIDE DEF s
      <4>. QED  BY <1>1, <2>2, <4>1, Zenon
    <3>. QED  BY <2>3, <3>1, Zenon
  <2>5. IsBitfield(c, n) /\ k + 1 \in 1 .. n /\ values[k + 1] \in BOOLEAN
    BY <2>1 DEF Bits
  <2>6. /\ IsBitfield(g[s], n)
        /\ ValueOf(g[s]) = [ValueOf(c) EXCEPT ![k + 1] = values[k + 1]]
    <3>. HIDE DEF c, s
    <3>. QED  BY <2>4, <2>5, ReadAfterWrite
  <2>7. DOMAIN ValueOf(c) = 1 .. n
    <3>1. DOMAIN c.bits = 1 .. n
      BY <2>5 DEF IsBitfield, Bits
    <3>. QED  BY <3>1 DEF ValueOf
  <2>8. \A i \in 1 .. k + 1 : ValueOf(g[s])[i] = values[i]
    <3>1. \A i \in 1 .. k : ValueOf(c)[i] = values[i]
      BY <2>1
    <3>2. \A i \in 1 .. k + 1 : i \in 1 .. n /\ (i \in 1 .. k \/ i = k + 1)
      OBVIOUS
    <3>. HIDE DEF c, s
    <3>. QED  BY <2>6, <2>7, <3>1, <3>2
  <2>9. g[s].last_mod_index = k + 1
    BY <2>4 DEF Assign, Access
  <2>. QED  BY <2>6, <2>8, <2>9 DEF NoIndex
<1>4. ok(n)
  <2>1. n \in N
    <3>. HIDE DEF N
    <3>. QED  BY <1>2, <1>3, NatSet
  <2>. QED  BY <2>1
<1>5. ValueOf(g[1 .. n]) = values
  <2>1. DOMAIN g[1 .. n].bits = 1 .. n
    BY <1>4 DEF IsBitfield, Bits
  <2>2. ValueOf(g[1 .. n]) = [i \in 1 .. n |-> Get(g[1 .. n], i)]
    BY <2>1 DEF ValueOf
  <2>3. values = [i \in 1 .. n |-> values[i]]
    BY DEF Bits
  <2>4. \A i \in 1 .. n : ValueOf(g[1 .. n])[i] = values[i]
    BY <1>4
  <2>. QED  BY <2>2, <2>3, <2>4
<1>6. AssignAll(b, values) = g[1 .. n]
  <2>1. [i \in DOMAIN values |-> i] = UpTo(n) /\ DOMAIN UpTo(n) = 1 .. n
    BY DEF Bits, UpTo
  <2>2. AssignAll(b, values) =
            Assigned(b, values, [i \in DOMAIN values |-> i])
                [DOMAIN [i \in DOMAIN values |-> i]]
    BY DEF AssignAll, FoldLeft, MapThenFoldSet, Assigned, AssignStep
  <2>. QED  BY <2>1, <2>2, Zenon DEF g
<1>. QED  BY <1>4, <1>5, <1>6

-----------------------------------------------------------------------------
(* The list of the unsatisfied clauses.                                    *)

(* What a place of the list and a place in the index say of each other.    *)
LEMMA PlacesOfList ==
    ASSUME NEW m \in Nat, NEW unsat, NEW loc, ListAgrees(m, unsat, loc)
    PROVE  /\ Len(unsat) \in Nat
           /\ DOMAIN unsat = 1 .. Len(unsat)
           /\ \A c \in 1 .. m : loc[c] \in Int
           /\ \A i \in 1 .. Len(unsat) : unsat[i] \in 1 .. m /\ loc[unsat[i]] = i - 1
           /\ \A c \in 1 .. m : loc[c] >= 0 =>
                  loc[c] + 1 \in 1 .. Len(unsat) /\ unsat[loc[c] + 1] = c
<1>1. /\ unsat \in Seq(1 .. m) /\ loc \in [1 .. m -> Int]
      /\ \A i \in DOMAIN unsat : loc[unsat[i]] = i - 1
      /\ \A c \in 1 .. m : loc[c] >= 0 =>
             loc[c] + 1 \in DOMAIN unsat /\ unsat[loc[c] + 1] = c
  BY DEF ListAgrees
<1>2. Len(unsat) \in Nat /\ DOMAIN unsat = 1 .. Len(unsat)
  BY <1>1, LenProperties
<1>3. \A i \in 1 .. Len(unsat) : unsat[i] \in 1 .. m
  BY <1>1, ElementOfSeq
<1>. QED  BY <1>1, <1>2, <1>3

(* make_clause_unsat                                                       *)
LEMMA ListGrows ==
    ASSUME NEW m \in Nat, NEW unsat, NEW loc, ListAgrees(m, unsat, loc),
           NEW c \in 1 .. m, loc[c] < 0
    PROVE  /\ ListAgrees(m, Append(unsat, c), [loc EXCEPT ![c] = Len(unsat)])
           /\ Len(unsat) \in Nat
<1>. DEFINE grown == Append(unsat, c)
            index == [loc EXCEPT ![c] = Len(unsat)]
<1>1. unsat \in Seq(1 .. m) /\ loc \in [1 .. m -> Int]
  BY DEF ListAgrees
<1>2. /\ Len(unsat) \in Nat /\ DOMAIN unsat = 1 .. Len(unsat)
      /\ \A i \in 1 .. Len(unsat) : unsat[i] \in 1 .. m /\ loc[unsat[i]] = i - 1
      /\ \A d \in 1 .. m : loc[d] >= 0 =>
             loc[d] + 1 \in 1 .. Len(unsat) /\ unsat[loc[d] + 1] = d
  BY PlacesOfList
<1>3. /\ grown \in Seq(1 .. m) /\ DOMAIN grown = 1 .. Len(unsat) + 1
      /\ grown[Len(unsat) + 1] = c
      /\ \A i \in 1 .. Len(unsat) : grown[i] = unsat[i]
  BY <1>1, <1>2, LastOfAppend
<1>4. /\ index \in [1 .. m -> Int] /\ index[c] = Len(unsat)
      /\ \A d \in 1 .. m : d # c => index[d] = loc[d]
  BY <1>1, <1>2
<1>. HIDE DEF grown, index
<1>5. \A i \in 1 .. Len(unsat) + 1 : index[grown[i]] = i - 1
  <2>1. ASSUME NEW i \in 1 .. Len(unsat)
        PROVE  index[grown[i]] = i - 1
    <3>1. unsat[i] \in 1 .. m /\ loc[unsat[i]] = i - 1 /\ unsat[i] # c
      BY <1>2
    <3>. QED  BY <1>3, <1>4, <3>1
  <2>2. index[grown[Len(unsat) + 1]] = Len(unsat) + 1 - 1
    BY <1>2, <1>3, <1>4
  <2>3. \A i \in 1 .. Len(unsat) + 1 : i \in 1 .. Len(unsat) \/ i = Len(unsat) + 1
    BY <1>2
  <2>. QED  BY <2>1, <2>2, <2>3
<1>6. \A d \in 1 .. m : index[d] >= 0 =>
          index[d] + 1 \in 1 .. Len(unsat) + 1 /\ grown[index[d] + 1] = d
  <2>1. ASSUME NEW d \in 1 .. m, d # c, index[d] >= 0
        PROVE  index[d] + 1 \in 1 .. Len(unsat) + 1 /\ grown[index[d] + 1] = d
    <3>1. /\ index[d] = loc[d] /\ loc[d] + 1 \in 1 .. Len(unsat)
          /\ unsat[loc[d] + 1] = d
      BY <1>2, <1>4, <2>1
    <3>. QED  BY <1>2, <1>3, <3>1
  <2>. QED  BY <1>2, <1>3, <1>4, <2>1
<1>7. ListAgrees(m, grown, index)
  BY <1>3, <1>4, <1>5, <1>6 DEF ListAgrees
<1>. QED  BY <1>2, <1>7 DEF grown, index

(* The number of satisfied literals of a clause that is not listed.        *)
LEMMA ListKept ==
    ASSUME NEW m \in Nat, NEW unsat, NEW loc, ListAgrees(m, unsat, loc),
           NEW c \in 1 .. m, loc[c] < 0, NEW k \in Int, k < 0
    PROVE  ListAgrees(m, unsat, [loc EXCEPT ![c] = k])
<1>. DEFINE index == [loc EXCEPT ![c] = k]
<1>1. unsat \in Seq(1 .. m) /\ loc \in [1 .. m -> Int]
  BY DEF ListAgrees
<1>2. /\ Len(unsat) \in Nat /\ DOMAIN unsat = 1 .. Len(unsat)
      /\ \A i \in 1 .. Len(unsat) : unsat[i] \in 1 .. m /\ loc[unsat[i]] = i - 1
      /\ \A d \in 1 .. m : loc[d] >= 0 =>
             loc[d] + 1 \in 1 .. Len(unsat) /\ unsat[loc[d] + 1] = d
  BY PlacesOfList
<1>3. /\ index \in [1 .. m -> Int] /\ index[c] = k
      /\ \A d \in 1 .. m : d # c => index[d] = loc[d]
  BY <1>1
<1>. HIDE DEF index
<1>4. \A i \in 1 .. Len(unsat) : index[unsat[i]] = i - 1
  <2>1. \A i \in 1 .. Len(unsat) : unsat[i] # c
    BY <1>2
  <2>. QED  BY <1>2, <1>3, <2>1
<1>5. \A d \in 1 .. m : index[d] >= 0 =>
          index[d] + 1 \in 1 .. Len(unsat) /\ unsat[index[d] + 1] = d
  BY <1>2, <1>3
<1>6. ListAgrees(m, unsat, index)
  BY <1>1, <1>2, <1>3, <1>4, <1>5 DEF ListAgrees
<1>. QED  BY <1>6 DEF index

(* The list without its last entry.                                        *)
LEMMA FrontOfSeq ==
    ASSUME NEW S, NEW s \in Seq(S), s # <<>>
    PROVE  /\ Front(s) \in Seq(S)
           /\ Len(s) \in Nat \ {0}
           /\ DOMAIN Front(s) = 1 .. Len(s) - 1
           /\ \A i \in 1 .. Len(s) - 1 : Front(s)[i] = s[i]
<1>1. Len(s) \in Nat \ {0}
  BY FirstOfSeq
<1>2. /\ SubSeq(s, 1, Len(s) - 1) \in Seq(S)
      /\ Len(SubSeq(s, 1, Len(s) - 1)) = Len(s) - 1
      /\ \A i \in 1 .. Len(s) - 1 : SubSeq(s, 1, Len(s) - 1)[i] = s[i]
  <2>1. \A i \in 1 .. Len(s) - 1 : s[i] \in S
    BY <1>1, ElementOfSeq
  <2>2. Len(s) - 1 \in Nat
    BY <1>1
  <2>3. DOMAIN s = 1 .. Len(s)
    BY LenProperties
  <2>4. SubSeq(s, 1, Len(s) - 1) = [i \in 1 .. Len(s) - 1 |-> s[i]]
    BY <1>1, <2>2, <2>3
  <2>. DEFINE f == [i \in 1 .. Len(s) - 1 |-> s[i]]
  <2>5. f \in Seq(S)
    <3>1. f \in [1 .. Len(s) - 1 -> S]
      BY <2>1
    <3>. QED  BY <2>2, <3>1, IsASeq
  <2>6. Len(f) = Len(s) - 1
    <3>1. DOMAIN f = 1 .. Len(s) - 1
      OBVIOUS
    <3>2. Len(f) \in Nat /\ DOMAIN f = 1 .. Len(f)
      <4>. HIDE DEF f
      <4>. QED  BY <2>5, LenProperties
    <3>. HIDE DEF f
    <3>. QED  BY <2>2, <3>1, <3>2
  <2>. QED  BY <2>4, <2>5, <2>6
<1>3. DOMAIN SubSeq(s, 1, Len(s) - 1) = 1 .. Len(s) - 1
  BY <1>2, LenProperties
<1>. QED  BY <1>1, <1>2, <1>3 DEF Front

(* make_clause_sat: the last entry takes the place that became free.       *)
IndexMoved(unsat, loc, place) ==
    IF place = Len(unsat) - 1 THEN loc ELSE [loc EXCEPT ![Last(unsat)] = place]

IndexShrunk(unsat, loc, c) == [IndexMoved(unsat, loc, loc[c]) EXCEPT ![c] = -1]

ListShrunk(unsat, place) == Front([unsat EXCEPT ![place + 1] = Last(unsat)])

(* The other clauses may change their place in the list, no more.          *)
OthersStay(m, c, loc, index) ==
    \A d \in 1 .. m : d # c =>
        index[d] = loc[d] \/ (index[d] >= 0 /\ loc[d] >= 0)

(* make_clause_sat: the swap-removal keeps list and index in agreement and *)
(* no other clause changes.                                                *)
LEMMA ListShrinks ==
    ASSUME NEW m \in Nat, NEW unsat, NEW loc, ListAgrees(m, unsat, loc),
           NEW c \in 1 .. m, loc[c] >= 0
    PROVE  /\ ListAgrees(m, ListShrunk(unsat, loc[c]), IndexShrunk(unsat, loc, c))
           /\ IndexShrunk(unsat, loc, c)[c] = -1
           /\ OthersStay(m, c, loc, IndexShrunk(unsat, loc, c))
<1>. DEFINE moved == IndexMoved(unsat, loc, loc[c])
<1>0. moved = IF loc[c] = Len(unsat) - 1 THEN loc
              ELSE [loc EXCEPT ![Last(unsat)] = loc[c]]
  BY DEF IndexMoved
<1>. HIDE DEF moved
<1>. DEFINE swapped == [unsat EXCEPT ![loc[c] + 1] = Last(unsat)]
            index == [moved EXCEPT ![c] = -1]
            n == Len(unsat)
            p == loc[c] + 1
            l == unsat[n]
<1>1. unsat \in Seq(1 .. m) /\ loc \in [1 .. m -> Int]
  BY DEF ListAgrees
<1>2. /\ n \in Nat /\ DOMAIN unsat = 1 .. n
      /\ \A i \in 1 .. n : unsat[i] \in 1 .. m /\ loc[unsat[i]] = i - 1
      /\ \A d \in 1 .. m : loc[d] >= 0 =>
             loc[d] + 1 \in 1 .. n /\ unsat[loc[d] + 1] = d
  BY PlacesOfList
<1>3. /\ p \in 1 .. n /\ unsat[p] = c /\ n \in Nat \ {0} /\ loc[c] = p - 1
      /\ Last(unsat) = l /\ l \in 1 .. m /\ loc[l] = n - 1
  BY <1>1, <1>2 DEF Last
<1>4. /\ swapped \in Seq(1 .. m) /\ Len(swapped) = n
      /\ \A i \in 1 .. n : swapped[i] = IF i = p THEN l ELSE unsat[i]
  BY <1>1, <1>2, <1>3, ExceptSeq
<1>5. swapped # <<>>
  BY <1>3, <1>4, EmptySeq
<1>6. /\ Front(swapped) \in Seq(1 .. m) /\ DOMAIN Front(swapped) = 1 .. n - 1
      /\ \A i \in 1 .. n - 1 : Front(swapped)[i] = IF i = p THEN l ELSE unsat[i]
  <2>1. /\ Front(swapped) \in Seq(1 .. m)
        /\ DOMAIN Front(swapped) = 1 .. Len(swapped) - 1
        /\ \A i \in 1 .. Len(swapped) - 1 : Front(swapped)[i] = swapped[i]
    <3>. HIDE DEF swapped
    <3>. QED  BY <1>4, <1>5, FrontOfSeq
  <2>2. \A i \in 1 .. n - 1 : i \in 1 .. n
    BY <1>3
  <2>. HIDE DEF swapped, n, p, l
  <2>. QED  BY <1>4, <2>1, <2>2
<1>7. (l = c) <=> (p = n)
  BY <1>2, <1>3
<1>8. /\ index \in [1 .. m -> Int] /\ index[c] = -1
      /\ l # c => index[l] = p - 1
      /\ \A d \in 1 .. m : d # c /\ d # l => index[d] = loc[d]
  <2>1. CASE p = n
    <3>1. moved = loc
      BY <1>0, <1>3, <2>1
    <3>. QED  BY <1>1, <1>3, <1>7, <2>1, <3>1
  <2>2. CASE p # n
    <3>1. loc[c] # Len(unsat) - 1
      BY <1>3, <2>2
    <3>2. moved = [loc EXCEPT ![l] = loc[c]]
      BY <1>0, <1>3, <3>1, Zenon
    <3>3. loc[c] \in Int /\ loc[c] = p - 1 /\ l # c
      BY <1>1, <1>3, <1>7, <2>2
    <3>4. moved \in [1 .. m -> Int] /\ moved[l] = p - 1
      <4>. HIDE DEF l, p
      <4>. QED  BY <1>1, <1>3, <3>2, <3>3
    <3>5. \A d \in 1 .. m : d # l => moved[d] = loc[d]
      <4>. HIDE DEF l, p
      <4>. QED  BY <1>1, <3>2
    <3>. HIDE DEF l, p
    <3>. QED  BY <1>3, <3>3, <3>4, <3>5
  <2>. QED  BY <2>1, <2>2
<1>. DEFINE shrunk == Front(swapped)
<1>. HIDE DEF swapped, index, shrunk, n, p, l
<1>9. \A i \in 1 .. n - 1 : index[shrunk[i]] = i - 1
  <2>1. ASSUME NEW i \in 1 .. n - 1, i = p
        PROVE  index[shrunk[i]] = i - 1
    <3>1. shrunk[i] = l
      BY <1>6, <2>1 DEF shrunk
    <3>2. p # n
      BY <1>3, <2>1
    <3>. QED  BY <1>7, <1>8, <2>1, <3>1, <3>2
  <2>2. ASSUME NEW i \in 1 .. n - 1, i # p
        PROVE  index[shrunk[i]] = i - 1
    <3>1. shrunk[i] = unsat[i] /\ i \in 1 .. n /\ i # n
      <4>1. i \in 1 .. n /\ i # n
        BY <1>3
      <4>2. shrunk[i] = IF i = p THEN l ELSE unsat[i]
        BY <1>6, Zenon DEF shrunk
      <4>. QED  BY <2>2, <4>1, <4>2
    <3>2. unsat[i] \in 1 .. m /\ loc[unsat[i]] = i - 1
      BY <1>2, <3>1
    <3>3. unsat[i] # c /\ unsat[i] # l
      BY <1>3, <2>2, <3>1, <3>2
    <3>. QED  BY <1>8, <3>1, <3>2, <3>3
  <2>. QED  BY <2>1, <2>2
<1>10. \A d \in 1 .. m : index[d] >= 0 =>
           index[d] + 1 \in 1 .. n - 1 /\ shrunk[index[d] + 1] = d
  <2>1. ASSUME NEW d \in 1 .. m, index[d] >= 0, d # l
        PROVE  index[d] + 1 \in 1 .. n - 1 /\ shrunk[index[d] + 1] = d
    <3>1. d # c
      BY <1>8, <2>1
    <3>2. index[d] = loc[d]
      BY <1>8, <2>1, <3>1
    <3>3. loc[d] + 1 \in 1 .. n /\ unsat[loc[d] + 1] = d /\ loc[d] \in Int
      BY <1>1, <1>2, <2>1, <3>2
    <3>4. loc[d] + 1 # n /\ loc[d] + 1 # p
      BY <1>3, <2>1, <3>1, <3>3 DEF l
    <3>5. loc[d] + 1 \in 1 .. n - 1
      BY <1>3, <3>3, <3>4
    <3>. QED  BY <1>6, <3>2, <3>3, <3>4, <3>5 DEF shrunk
  <2>2. ASSUME index[l] >= 0
        PROVE  index[l] + 1 \in 1 .. n - 1 /\ shrunk[index[l] + 1] = l
    <3>1. l # c /\ index[l] = p - 1
      BY <1>8, <2>2
    <3>2. p # n /\ p \in 1 .. n - 1 /\ p - 1 + 1 = p
      BY <1>3, <1>7, <3>1
    <3>3. shrunk[p] = l
      BY <1>6, <3>2 DEF shrunk
    <3>. QED  BY <3>1, <3>2, <3>3
  <2>. QED  BY <2>1, <2>2
<1>11. ListAgrees(m, shrunk, index)
  BY <1>6, <1>8, <1>9, <1>10 DEF ListAgrees, shrunk
<1>12. \A d \in 1 .. m : d # c => \/ index[d] = loc[d]
                                  \/ index[d] >= 0 /\ loc[d] >= 0
  <2>1. p - 1 >= 0 /\ n - 1 >= 0
    BY <1>3
  <2>. QED  BY <1>3, <1>8, <2>1
<1>13. OthersStay(m, c, loc, index)
  BY <1>12 DEF OthersStay
<1>14. /\ shrunk = ListShrunk(unsat, loc[c])
       /\ index = IndexShrunk(unsat, loc, c)
  BY DEF ListShrunk, IndexShrunk, shrunk, swapped, index, moved
<1>. QED  BY <1>8, <1>11, <1>13, <1>14

-----------------------------------------------------------------------------
(* What a visit of one clause does to the lists.                           *)
LEMMA SizeOfSet ==
    ASSUME NEW S, IsFiniteSet(S)
    PROVE  /\ Cardinality(S) \in Nat
           /\ Cardinality(S) = 0 <=> S = {}
           /\ \A x \in S : /\ Cardinality(S) = 1 <=> S = {x}
                           /\ IsFiniteSet(S \ {x})
                           /\ Cardinality(S \ {x}) = Cardinality(S) - 1
           /\ \A x : x \notin S => /\ IsFiniteSet(S \cup {x})
                                   /\ Cardinality(S \cup {x}) = Cardinality(S) + 1
<1>1. Cardinality(S) \in Nat /\ (Cardinality(S) = 0 <=> S = {})
  BY FS_CardinalityType, FS_EmptySet
<1>2. ASSUME NEW x \in S
      PROVE  /\ Cardinality(S) = 1 <=> S = {x}
             /\ IsFiniteSet(S \ {x})
             /\ Cardinality(S \ {x}) = Cardinality(S) - 1
  <2>1. IsFiniteSet(S \ {x}) /\ Cardinality(S \ {x}) = Cardinality(S) - 1
    BY FS_RemoveElement
  <2>2. Cardinality(S \ {x}) = 0 <=> S \ {x} = {}
    BY <2>1, FS_EmptySet
  <2>. QED  BY <1>1, <2>1, <2>2
<1>3. \A x : x \notin S => /\ IsFiniteSet(S \cup {x})
                           /\ Cardinality(S \cup {x}) = Cardinality(S) + 1
  BY FS_AddElement
<1>. QED  BY <1>1, <1>2, <1>3

(* Facts about literals that every proof below needs.                      *)
LEMMA LiteralsFinite ==
    ASSUME NEW n \in Nat
    PROVE  /\ IsFiniteSet(LiteralsOf(n))
           /\ \A x \in LiteralsOf(n) : /\ x \in Int /\ x # 0 /\ -x \in LiteralsOf(n)
                                       /\ Abs(x) \in 1 .. n
                                       /\ x = Abs(x) \/ x = -Abs(x)
<1>1. IsFiniteSet(-n .. n)
  BY FS_Interval
<1>2. LiteralsOf(n) \subseteq -n .. n
  BY DEF LiteralsOf
<1>3. IsFiniteSet(LiteralsOf(n))
  BY <1>1, <1>2, FS_Subset
<1>. QED  BY <1>3 DEF LiteralsOf, Abs

(* What a clause that is visited has to do with the other clauses.         *)
LEMMA OthersKept ==
    ASSUME NEW m \in Nat, NEW n \in Nat, NEW T \in [1 .. m -> SUBSET LiteralsOf(n)],
           NEW loc, CountsAgree(m, T, loc),
           NEW c \in 1 .. m, NEW S \in SUBSET LiteralsOf(n), NEW index,
           IF S = {} THEN index[c] >= 0 ELSE index[c] = -Cardinality(S),
           OthersStay(m, c, loc, index)
    PROVE  CountsAgree(m, [T EXCEPT ![c] = S], index)
<1>. DEFINE U == [T EXCEPT ![c] = S]
<1>1. U[c] = S /\ \A d \in 1 .. m : d # c => U[d] = T[d]
  OBVIOUS
<1>. HIDE DEF U
<1>2. ASSUME NEW d \in 1 .. m, d # c
      PROVE  IF U[d] = {} THEN index[d] >= 0 ELSE index[d] = -Cardinality(U[d])
  <2>1. U[d] = T[d]
    BY <1>1, <1>2
  <2>2. IF T[d] = {} THEN loc[d] >= 0 ELSE loc[d] = -Cardinality(T[d])
    BY DEF CountsAgree
  <2>3. IsFiniteSet(T[d])
    BY LiteralsFinite, FS_Subset
  <2>4. Cardinality(T[d]) \in Nat /\ (Cardinality(T[d]) = 0 <=> T[d] = {})
    BY <2>3, SizeOfSet
  <2>5. CASE T[d] = {}
    BY <1>2, <2>1, <2>2, <2>5 DEF OthersStay
  <2>6. CASE T[d] # {}
    <3>1. loc[d] = -Cardinality(T[d]) /\ ~(loc[d] >= 0)
      BY <2>2, <2>4, <2>6
    <3>. QED  BY <1>2, <2>1, <2>6, <3>1 DEF OthersStay
  <2>. QED  BY <2>5, <2>6
<1>3. IF U[c] = {} THEN index[c] >= 0 ELSE index[c] = -Cardinality(U[c])
  BY <1>1
<1>4. CountsAgree(m, U, index)
  BY <1>2, <1>3, Zenon DEF CountsAgree
<1>. QED  BY <1>4 DEF U

OnlyOne(S, k) == Cardinality(S) = 1 => S = {k}

(* A clause whose only true literal is stored keeps the critical literals  *)
(* right.                                                                  *)
LEMMA CriticalKept ==
    ASSUME NEW m \in Nat, NEW n \in Nat, NEW T \in [1 .. m -> SUBSET LiteralsOf(n)],
           NEW crit, CriticalAgrees(m, T, crit),
           NEW c \in 1 .. m, NEW S \in SUBSET LiteralsOf(n), NEW k \in Int,
           OnlyOne(S, k)
    PROVE  CriticalAgrees(m, [T EXCEPT ![c] = S], [crit EXCEPT ![c] = k])
<1>. DEFINE U == [T EXCEPT ![c] = S]
            new == [crit EXCEPT ![c] = k]
<1>1. U[c] = S /\ \A d \in 1 .. m : d # c => U[d] = T[d]
  OBVIOUS
<1>2. /\ crit \in [1 .. m -> Int]
      /\ \A d \in 1 .. m : Cardinality(T[d]) = 1 => T[d] = {crit[d]}
  BY DEF CriticalAgrees
<1>3. /\ new \in [1 .. m -> Int] /\ new[c] = k
      /\ \A d \in 1 .. m : d # c => new[d] = crit[d]
  BY <1>2
<1>. HIDE DEF U, new
<1>4. CriticalAgrees(m, U, new)
  BY <1>1, <1>2, <1>3 DEF CriticalAgrees, OnlyOne
<1>. QED  BY <1>4 DEF U, new

(* The clauses that depend on a variable, when one clause changes.         *)
Hinges(S, v) == S = {v} \/ S = {-v}

DifferAt(m, c, T, U) == \A d \in 1 .. m : d # c => U[d] = T[d]

(* When one clause changes its true literals, the clauses that depend on a *)
(* variable change by that clause at most.                                 *)
LEMMA DependingClauses ==
    ASSUME NEW m \in Nat, NEW T, NEW U, NEW c \in 1 .. m, NEW v,
           DifferAt(m, c, T, U)
    PROVE  /\ IsFiniteSet(DependOn(m, T, v))
           /\ c \in DependOn(m, T, v) <=> Hinges(T[c], v)
           /\ Hinges(U[c], v) =>
                  DependOn(m, U, v) = DependOn(m, T, v) \cup {c}
           /\ ~Hinges(U[c], v) =>
                  DependOn(m, U, v) = DependOn(m, T, v) \ {c}
<1>1. IsFiniteSet(DependOn(m, T, v))
  <2>1. IsFiniteSet(1 .. m) /\ DependOn(m, T, v) \subseteq 1 .. m
    BY FS_Interval DEF DependOn
  <2>. QED  BY <2>1, FS_Subset
<1>3. /\ c \in DependOn(m, T, v) <=> Hinges(T[c], v)
      /\ Hinges(U[c], v) => DependOn(m, U, v) = DependOn(m, T, v) \cup {c}
      /\ ~Hinges(U[c], v) => DependOn(m, U, v) = DependOn(m, T, v) \ {c}
  BY DEF DependOn, DifferAt, Hinges
<1>. QED  BY <1>1, <1>3

(* A clause gets, loses, or has no critical literal before and after.      *)
LEMMA BreaksGrow ==
    ASSUME NEW m \in Nat, NEW n \in Nat, NEW T \in [1 .. m -> SUBSET LiteralsOf(n)],
           NEW breaks, BreaksAgree(m, n, T, breaks),
           NEW c \in 1 .. m, Cardinality(T[c]) # 1, NEW x \in LiteralsOf(n)
    PROVE  BreaksAgree(m, n, [T EXCEPT ![c] = {x}],
                       [breaks EXCEPT ![Abs(x)] = @ + 1])
<1>. DEFINE U == [T EXCEPT ![c] = {x}]
            new == [breaks EXCEPT ![Abs(x)] = @ + 1]
<1>1. /\ breaks \in [1 .. n -> Nat]
      /\ \A v \in 1 .. n : breaks[v] = Cardinality(DependOn(m, T, v))
  BY DEF BreaksAgree
<1>2. Abs(x) \in 1 .. n /\ x \in Int /\ (x = Abs(x) \/ x = -Abs(x))
  BY LiteralsFinite
<1>3. /\ new \in [1 .. n -> Nat] /\ new[Abs(x)] = breaks[Abs(x)] + 1
      /\ \A v \in 1 .. n : v # Abs(x) => new[v] = breaks[v]
  BY <1>1, <1>2
<1>. HIDE DEF new
<1>a. U[c] = {x}
  OBVIOUS
<1>0. DifferAt(m, c, T, U)
  BY DEF DifferAt
<1>. HIDE DEF U
<1>4. ASSUME NEW v \in 1 .. n
      PROVE  new[v] = Cardinality(DependOn(m, U, v))
  <2>1. T[c] # {v} /\ T[c] # {-v}
    BY FS_Singleton
  <2>2. /\ IsFiniteSet(DependOn(m, T, v)) /\ c \notin DependOn(m, T, v)
        /\ {x} = {v} \/ {x} = {-v} => DependOn(m, U, v) = DependOn(m, T, v) \cup {c}
        /\ ~({x} = {v} \/ {x} = {-v}) => DependOn(m, U, v) = DependOn(m, T, v) \ {c}
    <3>2. /\ IsFiniteSet(DependOn(m, T, v))
          /\ c \in DependOn(m, T, v) <=> Hinges(T[c], v)
          /\ Hinges(U[c], v) => DependOn(m, U, v) = DependOn(m, T, v) \cup {c}
          /\ ~Hinges(U[c], v) => DependOn(m, U, v) = DependOn(m, T, v) \ {c}
      BY <1>0, DependingClauses
    <3>. QED  BY <1>a, <2>1, <3>2 DEF Hinges
  <2>3. CASE v = Abs(x)
    <3>1. DependOn(m, U, v) = DependOn(m, T, v) \cup {c}
      BY <1>2, <2>2, <2>3
    <3>2. Cardinality(DependOn(m, T, v) \cup {c}) = Cardinality(DependOn(m, T, v)) + 1
      BY <2>2, SizeOfSet
    <3>. QED  BY <1>1, <1>3, <2>3, <3>1, <3>2
  <2>4. CASE v # Abs(x)
    <3>1. x # v /\ x # -v
      BY <2>4, <1>2 DEF Abs
    <3>2. DependOn(m, U, v) = DependOn(m, T, v)
      BY <2>2, <3>1
    <3>. QED  BY <1>1, <1>3, <2>4, <3>2
  <2>. QED  BY <2>3, <2>4
<1>5. BreaksAgree(m, n, U, new)
  BY <1>3, <1>4 DEF BreaksAgree
<1>. QED  BY <1>5 DEF U, new

(* A clause that loses its only true literal is one break less for the     *)
(* variable.                                                               *)
LEMMA BreaksShrink ==
    ASSUME NEW m \in Nat, NEW n \in Nat, NEW T \in [1 .. m -> SUBSET LiteralsOf(n)],
           NEW breaks, BreaksAgree(m, n, T, breaks),
           NEW c \in 1 .. m, NEW x \in T[c], Cardinality(T[c]) = 1,
           NEW S \in SUBSET LiteralsOf(n), Cardinality(S) # 1
    PROVE  BreaksAgree(m, n, [T EXCEPT ![c] = S],
                       [breaks EXCEPT ![Abs(x)] = @ + (-1)])
<1>. DEFINE U == [T EXCEPT ![c] = S]
            new == [breaks EXCEPT ![Abs(x)] = @ + (-1)]
<1>b. T[c] = {x} /\ x \in LiteralsOf(n)
  <2>1. IsFiniteSet(T[c])
    BY LiteralsFinite, FS_Subset
  <2>. QED  BY <2>1, SizeOfSet
<1>1. /\ breaks \in [1 .. n -> Nat]
      /\ \A v \in 1 .. n : breaks[v] = Cardinality(DependOn(m, T, v))
  BY DEF BreaksAgree
<1>2. Abs(x) \in 1 .. n /\ x \in Int /\ (x = Abs(x) \/ x = -Abs(x))
  BY <1>b, LiteralsFinite
<1>3. /\ DOMAIN new = 1 .. n /\ new = [v \in 1 .. n |-> new[v]]
      /\ new[Abs(x)] = breaks[Abs(x)] - 1
      /\ \A v \in 1 .. n : v # Abs(x) => new[v] = breaks[v]
  BY <1>1, <1>2
<1>. HIDE DEF new
<1>a. U[c] = S
  OBVIOUS
<1>0. DifferAt(m, c, T, U)
  BY DEF DifferAt
<1>. HIDE DEF U
<1>4. ASSUME NEW v \in 1 .. n
      PROVE  new[v] = Cardinality(DependOn(m, U, v)) /\ new[v] \in Nat
  <2>1. S # {v} /\ S # {-v}
    BY FS_Singleton
  <2>2. /\ IsFiniteSet(DependOn(m, T, v))
        /\ c \in DependOn(m, T, v) <=> Hinges(T[c], v)
        /\ DependOn(m, U, v) = DependOn(m, T, v) \ {c}
    <3>1. /\ IsFiniteSet(DependOn(m, T, v))
          /\ c \in DependOn(m, T, v) <=> Hinges(T[c], v)
          /\ Hinges(U[c], v) => DependOn(m, U, v) = DependOn(m, T, v) \cup {c}
          /\ ~Hinges(U[c], v) => DependOn(m, U, v) = DependOn(m, T, v) \ {c}
      BY <1>0, DependingClauses
    <3>. QED  BY <1>a, <2>1, <3>1 DEF Hinges
  <2>3. IsFiniteSet(DependOn(m, U, v)) /\ Cardinality(DependOn(m, U, v)) \in Nat
    BY <2>2, FS_Subset, FS_CardinalityType
  <2>4. CASE v = Abs(x)
    <3>1. c \in DependOn(m, T, v)
      BY <1>2, <1>b, <2>2, <2>4 DEF Hinges
    <3>2. Cardinality(DependOn(m, T, v) \ {c}) = Cardinality(DependOn(m, T, v)) - 1
      BY <2>2, <3>1, SizeOfSet
    <3>. QED  BY <1>1, <1>3, <2>2, <2>3, <2>4, <3>2
  <2>5. CASE v # Abs(x)
    <3>1. x # v /\ x # -v
      BY <2>5, <1>2 DEF Abs
    <3>2. DependOn(m, U, v) = DependOn(m, T, v)
      BY <1>b, <2>2, <3>1 DEF Hinges
    <3>. QED  BY <1>1, <1>3, <2>5, <3>2
  <2>. QED  BY <2>4, <2>5
<1>5. new \in [1 .. n -> Nat]
  BY <1>3, <1>4
<1>6. BreaksAgree(m, n, U, new)
  BY <1>4, <1>5 DEF BreaksAgree
<1>. QED  BY <1>6 DEF U, new

(* A clause that has not one true literal before or after changes no       *)
(* breaks.                                                                 *)
LEMMA BreaksKept ==
    ASSUME NEW m \in Nat, NEW n \in Nat, NEW T \in [1 .. m -> SUBSET LiteralsOf(n)],
           NEW breaks, BreaksAgree(m, n, T, breaks),
           NEW c \in 1 .. m, Cardinality(T[c]) # 1,
           NEW S \in SUBSET LiteralsOf(n), Cardinality(S) # 1
    PROVE  BreaksAgree(m, n, [T EXCEPT ![c] = S], breaks)
<1>. DEFINE U == [T EXCEPT ![c] = S]
<1>1. /\ breaks \in [1 .. n -> Nat]
      /\ \A v \in 1 .. n : breaks[v] = Cardinality(DependOn(m, T, v))
  BY DEF BreaksAgree
<1>a. U[c] = S
  OBVIOUS
<1>0. DifferAt(m, c, T, U)
  BY DEF DifferAt
<1>. HIDE DEF U
<1>2. ASSUME NEW v \in 1 .. n
      PROVE  DependOn(m, U, v) = DependOn(m, T, v)
  <2>1. S # {v} /\ S # {-v} /\ T[c] # {v} /\ T[c] # {-v}
    BY FS_Singleton
  <2>2. /\ c \in DependOn(m, T, v) <=> Hinges(T[c], v)
        /\ DependOn(m, U, v) = DependOn(m, T, v) \ {c}
    <3>1. /\ IsFiniteSet(DependOn(m, T, v))
          /\ c \in DependOn(m, T, v) <=> Hinges(T[c], v)
          /\ Hinges(U[c], v) => DependOn(m, U, v) = DependOn(m, T, v) \cup {c}
          /\ ~Hinges(U[c], v) => DependOn(m, U, v) = DependOn(m, T, v) \ {c}
      BY <1>0, DependingClauses
    <3>. QED  BY <1>a, <2>1, <3>1 DEF Hinges
  <2>. QED  BY <2>1, <2>2 DEF Hinges
<1>3. BreaksAgree(m, n, U, breaks)
  BY <1>1, <1>2 DEF BreaksAgree
<1>. QED  BY <1>3 DEF U

-----------------------------------------------------------------------------
(* A visit of one clause, all lists together.  The sets in it have some    *)
(* number of literals, of which a visit takes one away or adds one.        *)
LEMMA SetsCounted ==
    ASSUME NEW m \in Nat, NEW n \in Nat, NEW T \in [1 .. m -> SUBSET LiteralsOf(n)],
           NEW loc, CountsAgree(m, T, loc), NEW c \in 1 .. m
    PROVE  /\ IsFiniteSet(T[c]) /\ Cardinality(T[c]) \in Nat
           /\ Cardinality(T[c]) = 0 <=> T[c] = {}
           /\ T[c] = {} => loc[c] >= 0
           /\ T[c] # {} => loc[c] = -Cardinality(T[c])
           /\ T[c] \in SUBSET LiteralsOf(n)
<1>1. IsFiniteSet(T[c]) /\ T[c] \in SUBSET LiteralsOf(n)
  BY LiteralsFinite, FS_Subset
<1>2. Cardinality(T[c]) \in Nat /\ (Cardinality(T[c]) = 0 <=> T[c] = {})
  BY <1>1, SizeOfSet
<1>3. IF T[c] = {} THEN loc[c] >= 0 ELSE loc[c] = -Cardinality(T[c])
  BY DEF CountsAgree
<1>. QED  BY <1>1, <1>2, <1>3

(* A clause with more than one literal before and after.                   *)
LEMMA CriticalSame ==
    ASSUME NEW m \in Nat, NEW n \in Nat, NEW T \in [1 .. m -> SUBSET LiteralsOf(n)],
           NEW crit, CriticalAgrees(m, T, crit),
           NEW c \in 1 .. m, NEW S \in SUBSET LiteralsOf(n), Cardinality(S) # 1
    PROVE  CriticalAgrees(m, [T EXCEPT ![c] = S], crit)
<1>1. crit \in [1 .. m -> Int]
  BY DEF CriticalAgrees
<1>2. crit[c] \in Int /\ [crit EXCEPT ![c] = crit[c]] = crit
  BY <1>1
<1>3. CriticalAgrees(m, [T EXCEPT ![c] = S], [crit EXCEPT ![c] = crit[c]])
  BY <1>2, CriticalKept DEF OnlyOne
<1>. QED  BY <1>2, <1>3

(* A clause that has literals before and after: its number changes.        *)
LEMMA NumberKept ==
    ASSUME NEW m \in Nat, NEW n \in Nat, NEW T \in [1 .. m -> SUBSET LiteralsOf(n)],
           NEW unsat, NEW loc, CountsAgree(m, T, loc), ListAgrees(m, unsat, loc),
           NEW c \in 1 .. m, T[c] # {},
           NEW S \in SUBSET LiteralsOf(n), S # {}, NEW k, k = -Cardinality(S)
    PROVE  /\ ListAgrees(m, unsat, [loc EXCEPT ![c] = k])
           /\ CountsAgree(m, [T EXCEPT ![c] = S], [loc EXCEPT ![c] = k])
<1>1. IsFiniteSet(S)
  BY LiteralsFinite, FS_Subset
<1>2. k \in Int /\ k < 0
  BY <1>1, SizeOfSet
<1>3. loc[c] < 0
  <2>1. /\ Cardinality(T[c]) \in Nat /\ (Cardinality(T[c]) = 0 <=> T[c] = {})
        /\ T[c] # {} => loc[c] = -Cardinality(T[c])
    BY SetsCounted
  <2>. QED  BY <2>1
<1>4. ListAgrees(m, unsat, [loc EXCEPT ![c] = k])
  BY <1>2, <1>3, ListKept
<1>. DEFINE index == [loc EXCEPT ![c] = k]
<1>5. loc \in [1 .. m -> Int]
  BY DEF ListAgrees
<1>6. index[c] = k /\ OthersStay(m, c, loc, index)
  BY <1>5 DEF OthersStay
<1>. HIDE DEF index
<1>7. CountsAgree(m, [T EXCEPT ![c] = S], index)
  BY <1>6, OthersKept
<1>. QED  BY <1>4, <1>7 DEF index

(* Break loop, location -1: the clause becomes unsatisfied.                *)
LEMMA LosesLast ==
    ASSUME NEW m \in Nat, NEW n \in Nat, NEW T \in [1 .. m -> SUBSET LiteralsOf(n)],
           NEW unsat, NEW loc, NEW crit, NEW breaks,
           ListsAgree(m, n, T, unsat, loc, crit, breaks),
           NEW c \in 1 .. m, NEW x \in T[c], loc[c] = -1
    PROVE  ListsAgree(m, n, [T EXCEPT ![c] = T[c] \ {x}], Append(unsat, c),
                      [loc EXCEPT ![c] = Len(unsat)], [crit EXCEPT ![c] = 0],
                      [breaks EXCEPT ![Abs(x)] = @ + (-1)])
<1>. DEFINE S == T[c] \ {x}
<1>1. /\ ListAgrees(m, unsat, loc) /\ CountsAgree(m, T, loc)
      /\ CriticalAgrees(m, T, crit) /\ BreaksAgree(m, n, T, breaks)
  BY DEF ListsAgree
<1>2. /\ IsFiniteSet(T[c]) /\ Cardinality(T[c]) = 1
      /\ T[c] \in SUBSET LiteralsOf(n)
  <2>1. /\ IsFiniteSet(T[c]) /\ Cardinality(T[c]) \in Nat
        /\ Cardinality(T[c]) = 0 <=> T[c] = {}
        /\ T[c] = {} => loc[c] >= 0
        /\ T[c] # {} => loc[c] = -Cardinality(T[c])
        /\ T[c] \in SUBSET LiteralsOf(n)
    BY <1>1, SetsCounted
  <2>. QED  BY <2>1
<1>3. S = {} /\ S \in SUBSET LiteralsOf(n) /\ Cardinality(S) = 0
  BY <1>2, SizeOfSet, FS_EmptySet
<1>. DEFINE index == [loc EXCEPT ![c] = Len(unsat)]
<1>4. ListAgrees(m, Append(unsat, c), index) /\ Len(unsat) \in Nat
  BY <1>1, ListGrows
<1>5. loc \in [1 .. m -> Int]
  BY <1>1 DEF ListAgrees
<1>6. index[c] = Len(unsat) /\ \A d \in 1 .. m : d # c => index[d] = loc[d]
  BY <1>5
<1>. HIDE DEF index, S
<1>a. /\ IF S = {} THEN index[c] >= 0 ELSE index[c] = -Cardinality(S)
      /\ OthersStay(m, c, loc, index)
      /\ Cardinality(S) # 1 /\ OnlyOne(S, 0)
      /\ S \in SUBSET LiteralsOf(n)
  BY <1>3, <1>4, <1>6 DEF OthersStay, OnlyOne
<1>7. CountsAgree(m, [T EXCEPT ![c] = S], index)
  BY <1>1, <1>a, OthersKept
<1>8. CriticalAgrees(m, [T EXCEPT ![c] = S], [crit EXCEPT ![c] = 0])
  <2>. DEFINE k == 0
  <2>1. k \in Int /\ OnlyOne(S, k)
    BY <1>a
  <2>. HIDE DEF k
  <2>2. CriticalAgrees(m, [T EXCEPT ![c] = S], [crit EXCEPT ![c] = k])
    BY <1>1, <1>a, <2>1, CriticalKept
  <2>. QED  BY <2>2 DEF k
<1>9. BreaksAgree(m, n, [T EXCEPT ![c] = S], [breaks EXCEPT ![Abs(x)] = @ + (-1)])
  BY <1>1, <1>2, <1>a, BreaksShrink
<1>10. ListsAgree(m, n, [T EXCEPT ![c] = S], Append(unsat, c), index,
                  [crit EXCEPT ![c] = 0], [breaks EXCEPT ![Abs(x)] = @ + (-1)])
  BY <1>4, <1>7, <1>8, <1>9 DEF ListsAgree
<1>. QED  BY <1>10 DEF S, index

(* Break loop, location -2: the literal that is left becomes critical.     *)
LEMMA LosesOneOfTwo ==
    ASSUME NEW m \in Nat, NEW n \in Nat, NEW T \in [1 .. m -> SUBSET LiteralsOf(n)],
           NEW unsat, NEW loc, NEW crit, NEW breaks,
           ListsAgree(m, n, T, unsat, loc, crit, breaks),
           NEW c \in 1 .. m, NEW x \in T[c], loc[c] = -2,
           NEW y \in T[c] \ {x}
    PROVE  ListsAgree(m, n, [T EXCEPT ![c] = T[c] \ {x}], unsat,
                      [loc EXCEPT ![c] = @ + 1], [crit EXCEPT ![c] = y],
                      [breaks EXCEPT ![Abs(y)] = @ + 1])
<1>. DEFINE S == T[c] \ {x}
<1>1. /\ ListAgrees(m, unsat, loc) /\ CountsAgree(m, T, loc)
      /\ CriticalAgrees(m, T, crit) /\ BreaksAgree(m, n, T, breaks)
  BY DEF ListsAgree
<1>2. /\ IsFiniteSet(T[c]) /\ Cardinality(T[c]) = 2
      /\ T[c] \in SUBSET LiteralsOf(n)
  <2>1. /\ IsFiniteSet(T[c]) /\ Cardinality(T[c]) \in Nat
        /\ Cardinality(T[c]) = 0 <=> T[c] = {}
        /\ T[c] = {} => loc[c] >= 0
        /\ T[c] # {} => loc[c] = -Cardinality(T[c])
        /\ T[c] \in SUBSET LiteralsOf(n)
    BY <1>1, SetsCounted
  <2>. QED  BY <2>1
<1>3. IsFiniteSet(S) /\ Cardinality(S) = 1 /\ S \in SUBSET LiteralsOf(n) /\ y \in S
  BY <1>2, SizeOfSet
<1>. HIDE DEF S
<1>4. S = {y} /\ y \in LiteralsOf(n) /\ y \in Int
  BY <1>3, SizeOfSet, LiteralsFinite
<1>5. /\ ListAgrees(m, unsat, [loc EXCEPT ![c] = loc[c] + 1])
      /\ CountsAgree(m, [T EXCEPT ![c] = S], [loc EXCEPT ![c] = loc[c] + 1])
  <2>1. T[c] # {} /\ S # {} /\ loc[c] + 1 = -Cardinality(S)
    BY <1>3
  <2>. QED  BY <1>1, <1>3, <2>1, NumberKept
<1>6. CriticalAgrees(m, [T EXCEPT ![c] = S], [crit EXCEPT ![c] = y])
  BY <1>1, <1>3, <1>4, CriticalKept DEF OnlyOne
<1>7. BreaksAgree(m, n, [T EXCEPT ![c] = {y}], [breaks EXCEPT ![Abs(y)] = @ + 1])
  <2>1. Cardinality(T[c]) # 1
    BY <1>2
  <2>. QED  BY <1>1, <1>4, <2>1, BreaksGrow
<1>8. ListsAgree(m, n, [T EXCEPT ![c] = S], unsat, [loc EXCEPT ![c] = loc[c] + 1],
                 [crit EXCEPT ![c] = y], [breaks EXCEPT ![Abs(y)] = @ + 1])
  BY <1>4, <1>5, <1>6, <1>7 DEF ListsAgree
<1>. QED  BY <1>8 DEF S

(* Break loop, below -2: only the number of true literals changes.         *)
LEMMA LosesOneOfMore ==
    ASSUME NEW m \in Nat, NEW n \in Nat, NEW T \in [1 .. m -> SUBSET LiteralsOf(n)],
           NEW unsat, NEW loc, NEW crit, NEW breaks,
           ListsAgree(m, n, T, unsat, loc, crit, breaks),
           NEW c \in 1 .. m, NEW x \in T[c], loc[c] < -2
    PROVE  ListsAgree(m, n, [T EXCEPT ![c] = T[c] \ {x}], unsat,
                      [loc EXCEPT ![c] = @ + 1], crit, breaks)
<1>. DEFINE S == T[c] \ {x}
<1>1. /\ ListAgrees(m, unsat, loc) /\ CountsAgree(m, T, loc)
      /\ CriticalAgrees(m, T, crit) /\ BreaksAgree(m, n, T, breaks)
  BY DEF ListsAgree
<1>2. /\ IsFiniteSet(T[c]) /\ Cardinality(T[c]) \in Nat /\ Cardinality(T[c]) > 2
      /\ T[c] \in SUBSET LiteralsOf(n) /\ loc[c] = -Cardinality(T[c])
  <2>1. /\ IsFiniteSet(T[c]) /\ Cardinality(T[c]) \in Nat
        /\ Cardinality(T[c]) = 0 <=> T[c] = {}
        /\ T[c] = {} => loc[c] >= 0
        /\ T[c] # {} => loc[c] = -Cardinality(T[c])
        /\ T[c] \in SUBSET LiteralsOf(n)
    BY <1>1, SetsCounted
  <2>. QED  BY <2>1
<1>3. /\ IsFiniteSet(S) /\ Cardinality(S) = Cardinality(T[c]) - 1
      /\ S \in SUBSET LiteralsOf(n)
  BY <1>2, SizeOfSet
<1>. HIDE DEF S
<1>4. S # {} /\ Cardinality(S) # 1 /\ T[c] # {} /\ Cardinality(T[c]) # 1
  BY <1>2, <1>3, SizeOfSet
<1>5. /\ ListAgrees(m, unsat, [loc EXCEPT ![c] = loc[c] + 1])
      /\ CountsAgree(m, [T EXCEPT ![c] = S], [loc EXCEPT ![c] = loc[c] + 1])
  <2>1. loc[c] + 1 = -Cardinality(S)
    BY <1>2, <1>3
  <2>. QED  BY <1>1, <1>3, <1>4, <2>1, NumberKept
<1>6. CriticalAgrees(m, [T EXCEPT ![c] = S], crit)
  BY <1>1, <1>3, <1>4, CriticalSame
<1>7. BreaksAgree(m, n, [T EXCEPT ![c] = S], breaks)
  BY <1>1, <1>3, <1>4, BreaksKept
<1>8. ListsAgree(m, n, [T EXCEPT ![c] = S], unsat, [loc EXCEPT ![c] = loc[c] + 1],
                 crit, breaks)
  BY <1>5, <1>6, <1>7 DEF ListsAgree
<1>. QED  BY <1>8 DEF S

(* Make loop, in the list: the clause leaves it and the new literal is     *)
(* critical.                                                               *)
LEMMA GainsFirst ==
    ASSUME NEW m \in Nat, NEW n \in Nat, NEW T \in [1 .. m -> SUBSET LiteralsOf(n)],
           NEW unsat, NEW loc, NEW crit, NEW breaks,
           ListsAgree(m, n, T, unsat, loc, crit, breaks),
           NEW c \in 1 .. m, NEW x \in LiteralsOf(n), loc[c] >= 0
    PROVE  ListsAgree(m, n, [T EXCEPT ![c] = T[c] \cup {x}],
                      ListShrunk(unsat, loc[c]),
                      IndexShrunk(unsat, loc, c), [crit EXCEPT ![c] = x],
                      [breaks EXCEPT ![Abs(x)] = @ + 1])
<1>1. /\ ListAgrees(m, unsat, loc) /\ CountsAgree(m, T, loc)
      /\ CriticalAgrees(m, T, crit) /\ BreaksAgree(m, n, T, breaks)
  BY DEF ListsAgree
<1>. DEFINE S == {x}
            index == IndexShrunk(unsat, loc, c)
<1>2. T[c] = {} /\ Cardinality(T[c]) = 0
  <2>1. /\ IsFiniteSet(T[c]) /\ Cardinality(T[c]) \in Nat
        /\ Cardinality(T[c]) = 0 <=> T[c] = {}
        /\ T[c] = {} => loc[c] >= 0
        /\ T[c] # {} => loc[c] = -Cardinality(T[c])
        /\ T[c] \in SUBSET LiteralsOf(n)
    BY <1>1, SetsCounted
  <2>. QED  BY <2>1
<1>3. S \in SUBSET LiteralsOf(n) /\ Cardinality(S) = 1 /\ S # {} /\ x \in Int
  BY FS_Singleton, LiteralsFinite
<1>4. /\ ListAgrees(m, ListShrunk(unsat, loc[c]), index)
      /\ index[c] = -1
      /\ OthersStay(m, c, loc, index)
  BY <1>1, ListShrinks
<1>5. index[c] = -Cardinality(S)
  BY <1>3, <1>4
<1>. HIDE DEF index, S
<1>6. CountsAgree(m, [T EXCEPT ![c] = S], index)
  BY <1>1, <1>3, <1>4, <1>5, OthersKept
<1>7. CriticalAgrees(m, [T EXCEPT ![c] = S], [crit EXCEPT ![c] = x])
  BY <1>1, <1>3, CriticalKept DEF S, OnlyOne
<1>8. BreaksAgree(m, n, [T EXCEPT ![c] = S], [breaks EXCEPT ![Abs(x)] = @ + 1])
  <2>1. Cardinality(T[c]) # 1
    BY <1>2
  <2>. QED  BY <1>1, <2>1, BreaksGrow DEF S
<1>9. ListsAgree(m, n, [T EXCEPT ![c] = S],
                 ListShrunk(unsat, loc[c]), index,
                 [crit EXCEPT ![c] = x], [breaks EXCEPT ![Abs(x)] = @ + 1])
  BY <1>4, <1>6, <1>7, <1>8 DEF ListsAgree
<1>10. T[c] \cup {x} = S
  BY <1>2 DEF S
<1>. QED  BY <1>9, <1>10 DEF index

(* Make loop, location -1: the cached critical literal no longer breaks the*)
(* clause.                                                                 *)
LEMMA GainsSecond ==
    ASSUME NEW m \in Nat, NEW n \in Nat, NEW T \in [1 .. m -> SUBSET LiteralsOf(n)],
           NEW unsat, NEW loc, NEW crit, NEW breaks,
           ListsAgree(m, n, T, unsat, loc, crit, breaks),
           NEW c \in 1 .. m, NEW x \in LiteralsOf(n), x \notin T[c], loc[c] = -1
    PROVE  ListsAgree(m, n, [T EXCEPT ![c] = T[c] \cup {x}], unsat,
                      [loc EXCEPT ![c] = @ - 1], crit,
                      [breaks EXCEPT ![Abs(crit[c])] = @ + (-1)])
<1>. DEFINE S == T[c] \cup {x}
<1>1. /\ ListAgrees(m, unsat, loc) /\ CountsAgree(m, T, loc)
      /\ CriticalAgrees(m, T, crit) /\ BreaksAgree(m, n, T, breaks)
  BY DEF ListsAgree
<1>2. /\ IsFiniteSet(T[c]) /\ Cardinality(T[c]) = 1 /\ T[c] # {}
      /\ T[c] \in SUBSET LiteralsOf(n)
  <2>1. /\ IsFiniteSet(T[c]) /\ Cardinality(T[c]) \in Nat
        /\ Cardinality(T[c]) = 0 <=> T[c] = {}
        /\ T[c] = {} => loc[c] >= 0
        /\ T[c] # {} => loc[c] = -Cardinality(T[c])
        /\ T[c] \in SUBSET LiteralsOf(n)
    BY <1>1, SetsCounted
  <2>. QED  BY <2>1
<1>3. IsFiniteSet(S) /\ Cardinality(S) = 2 /\ S \in SUBSET LiteralsOf(n) /\ S # {}
  BY <1>2, SizeOfSet
<1>4. crit[c] \in T[c]
  BY <1>1, <1>2 DEF CriticalAgrees
<1>. HIDE DEF S
<1>5. /\ ListAgrees(m, unsat, [loc EXCEPT ![c] = loc[c] - 1])
      /\ CountsAgree(m, [T EXCEPT ![c] = S], [loc EXCEPT ![c] = loc[c] - 1])
  <2>1. loc[c] - 1 = -Cardinality(S)
    BY <1>3
  <2>. QED  BY <1>1, <1>2, <1>3, <2>1, NumberKept
<1>6. CriticalAgrees(m, [T EXCEPT ![c] = S], crit)
  <2>1. Cardinality(S) # 1
    BY <1>3
  <2>. QED  BY <1>1, <1>3, <2>1, CriticalSame
<1>7. BreaksAgree(m, n, [T EXCEPT ![c] = S],
                  [breaks EXCEPT ![Abs(crit[c])] = @ + (-1)])
  <2>1. Cardinality(S) # 1
    BY <1>3
  <2>. QED  BY <1>1, <1>2, <1>3, <1>4, <2>1, BreaksShrink
<1>8. ListsAgree(m, n, [T EXCEPT ![c] = S], unsat, [loc EXCEPT ![c] = loc[c] - 1],
                 crit, [breaks EXCEPT ![Abs(crit[c])] = @ + (-1)])
  BY <1>5, <1>6, <1>7 DEF ListsAgree
<1>. QED  BY <1>8 DEF S

(* Make loop, below -1: only the number of true literals changes.          *)
LEMMA GainsAnother ==
    ASSUME NEW m \in Nat, NEW n \in Nat, NEW T \in [1 .. m -> SUBSET LiteralsOf(n)],
           NEW unsat, NEW loc, NEW crit, NEW breaks,
           ListsAgree(m, n, T, unsat, loc, crit, breaks),
           NEW c \in 1 .. m, NEW x \in LiteralsOf(n), x \notin T[c], loc[c] < -1
    PROVE  ListsAgree(m, n, [T EXCEPT ![c] = T[c] \cup {x}], unsat,
                      [loc EXCEPT ![c] = @ - 1], crit, breaks)
<1>. DEFINE S == T[c] \cup {x}
<1>1. /\ ListAgrees(m, unsat, loc) /\ CountsAgree(m, T, loc)
      /\ CriticalAgrees(m, T, crit) /\ BreaksAgree(m, n, T, breaks)
  BY DEF ListsAgree
<1>0. loc[c] \in Int
  BY <1>1 DEF ListAgrees
<1>2. /\ IsFiniteSet(T[c]) /\ Cardinality(T[c]) \in Nat /\ Cardinality(T[c]) > 1
      /\ T[c] # {} /\ T[c] \in SUBSET LiteralsOf(n) /\ loc[c] = -Cardinality(T[c])
  <2>1. /\ IsFiniteSet(T[c]) /\ Cardinality(T[c]) \in Nat
        /\ Cardinality(T[c]) = 0 <=> T[c] = {}
        /\ T[c] = {} => loc[c] >= 0
        /\ T[c] # {} => loc[c] = -Cardinality(T[c])
        /\ T[c] \in SUBSET LiteralsOf(n)
    BY <1>1, SetsCounted
  <2>. QED  BY <1>0, <2>1
<1>3. /\ IsFiniteSet(S) /\ Cardinality(S) = Cardinality(T[c]) + 1
      /\ S \in SUBSET LiteralsOf(n) /\ S # {}
  BY <1>2, SizeOfSet
<1>. HIDE DEF S
<1>4. Cardinality(S) # 1 /\ Cardinality(T[c]) # 1
  BY <1>2, <1>3
<1>5. /\ ListAgrees(m, unsat, [loc EXCEPT ![c] = loc[c] - 1])
      /\ CountsAgree(m, [T EXCEPT ![c] = S], [loc EXCEPT ![c] = loc[c] - 1])
  <2>1. loc[c] - 1 = -Cardinality(S)
    BY <1>2, <1>3
  <2>. QED  BY <1>1, <1>2, <1>3, <2>1, NumberKept
<1>6. CriticalAgrees(m, [T EXCEPT ![c] = S], crit)
  BY <1>1, <1>3, <1>4, CriticalSame
<1>7. BreaksAgree(m, n, [T EXCEPT ![c] = S], breaks)
  BY <1>1, <1>3, <1>4, BreaksKept
<1>8. ListsAgree(m, n, [T EXCEPT ![c] = S], unsat, [loc EXCEPT ![c] = loc[c] - 1],
                 crit, breaks)
  BY <1>5, <1>6, <1>7 DEF ListsAgree
<1>. QED  BY <1>8 DEF S

-----------------------------------------------------------------------------
(* The true literals of a clause, by place and by themselves.              *)
TrueIn(clause, a) == {lit \in ToSet(clause) : IsTrue(lit, a)}

EntriesAt(clause, P) == {clause[i] : i \in P}

(* In a clean clause places and literals are equally many.                 *)
LEMMA PlacesCounted ==
    ASSUME NEW S, NEW clause \in Seq(S),
           IsClean(clause), NEW P \in SUBSET DOMAIN clause
    PROVE  /\ IsFiniteSet(P) /\ IsFiniteSet(EntriesAt(clause, P))
           /\ Cardinality(P) = Cardinality(EntriesAt(clause, P))
<1>. DEFINE R == EntriesAt(clause, P)
<1>1. IsFiniteSet(P)
  <2>1. Len(clause) \in Nat /\ DOMAIN clause = 1 .. Len(clause)
    BY LenProperties
  <2>2. IsFiniteSet(1 .. Len(clause))
    BY <2>1, FS_Interval
  <2>. QED  BY <2>1, <2>2, FS_Subset
<1>. DEFINE f == [i \in P |-> clause[i]]
<1>2. f \in [P -> R]
  BY DEF EntriesAt
<1>3. \A i, j \in P : f[i] = f[j] => i = j
  BY DEF IsClean
<1>4. \A r \in R : \E i \in P : f[i] = r
  BY DEF EntriesAt
<1>5. f \in Bijection(P, R)
  <2>. HIDE DEF f
  <2>. QED  BY <1>2, <1>3, <1>4, Fun_IsBij
<1>6. ExistsBijection(P, R)
  BY <1>5 DEF ExistsBijection
<1>. QED  BY <1>1, <1>6, FS_Bijection

(* num_sat_lit counts places; in a clean clause these are as many as the   *)
(* true literals.                                                          *)
LEMMA TrueOfClause ==
    ASSUME NEW n \in Nat, NEW clause \in Seq(LiteralsOf(n)), IsClean(clause), NEW a
    PROVE  /\ IsFiniteSet(TruePlaces(clause, a))
           /\ Cardinality(TruePlaces(clause, a)) = Cardinality(TrueIn(clause, a))
           /\ TrueIn(clause, a) \in SUBSET LiteralsOf(n)
           /\ IsFiniteSet(TrueIn(clause, a))
<1>2. TrueIn(clause, a) = EntriesAt(clause, TruePlaces(clause, a))
  BY DEF EntriesAt, TrueIn, TruePlaces, ToSet
<1>3. TruePlaces(clause, a) \in SUBSET DOMAIN clause
  BY DEF TruePlaces
<1>4. TrueIn(clause, a) \in SUBSET LiteralsOf(n)
  <2>1. \A i \in DOMAIN clause : clause[i] \in LiteralsOf(n)
    BY LenProperties
  <2>. QED  BY <2>1 DEF TrueIn, ToSet
<1>. QED  BY <1>2, <1>3, <1>4, PlacesCounted

(* get_first_satisfied_literal finds one exactly if there is one.          *)
LEMMA FirstTrueFound ==
    ASSUME NEW n \in Nat, NEW clause \in Seq(LiteralsOf(n)), NEW a, NEW d
    PROVE  IF TrueIn(clause, a) \ {d} = {} THEN FirstTrueLiteral(clause, a, d) = 0
           ELSE FirstTrueLiteral(clause, a, d) \in TrueIn(clause, a) \ {d}
<1>. DEFINE others == {i \in TruePlaces(clause, a) : clause[i] # d}
<1>1. FirstTrueLiteral(clause, a, d) = IF others = {} THEN 0 ELSE clause[Min(others)]
  BY DEF FirstTrueLiteral
<1>2. TrueIn(clause, a) \ {d} = {clause[i] : i \in others}
  BY DEF TrueIn, TruePlaces, ToSet
<1>3. others \subseteq Nat
  <2>1. Len(clause) \in Nat /\ DOMAIN clause = 1 .. Len(clause)
    BY LenProperties
  <2>. QED  BY <2>1 DEF TruePlaces
<1>. HIDE DEF others
<1>4. CASE others = {}
  BY <1>1, <1>2, <1>4
<1>5. CASE others # {}
  <2>1. \E i \in others : \A k \in others : i <= k
    BY <1>3, <1>5, LeastNatural
  <2>2. Min(others) \in others
    BY <2>1 DEF Min
  <2>3. clause[Min(others)] \in TrueIn(clause, a) \ {d}
    BY <1>2, <2>2
  <2>. QED  BY <1>1, <1>5, <2>3
<1>. QED  BY <1>4, <1>5

-----------------------------------------------------------------------------
(* The lists that the constructor makes.                                   *)
LEMMA Places ==
    ASSUME NEW U \in SUBSET Nat, IsFiniteSet(U)
    PROVE  /\ Cardinality(U) \in Nat
           /\ \A c \in U : PlaceAmong(U, c) \in 0 .. Cardinality(U) - 1
           /\ \A c, d \in U : PlaceAmong(U, c) = PlaceAmong(U, d) => c = d
           /\ \A i \in 1 .. Cardinality(U) : \E c \in U : PlaceAmong(U, c) = i - 1
<1>. DEFINE rank(c) == Cardinality({d \in U : d <= c})
<1>1. /\ \A c \in U : rank(c) \in 1 .. Cardinality(U)
      /\ \A c, d \in U : rank(c) = rank(d) => c = d
      /\ \A i \in 1 .. Cardinality(U) : \E c \in U : rank(c) = i
  BY Ranks
<1>2. Cardinality(U) \in Nat
  BY FS_CardinalityType
<1>3. ASSUME NEW c \in U
      PROVE  PlaceAmong(U, c) = rank(c) - 1
  <2>. DEFINE B == {d \in U : d < c}
              C == {d \in U : d <= c}
  <2>1. IsFiniteSet(B)
    BY FS_Subset
  <2>2. c \notin B /\ C = B \cup {c}
    <3>1. c \in Nat /\ \A d \in U : d \in Nat
      OBVIOUS
    <3>2. \A d \in U : d <= c <=> (d < c \/ d = c)
      BY <3>1
    <3>3. c \notin B
      BY <3>1
    <3>4. \A d : d \in C <=> d \in B \cup {c}
      BY <3>2
    <3>. QED  BY <3>3, <3>4, Zenon
  <2>3. Cardinality(B) \in Nat
    BY <2>1, FS_CardinalityType
  <2>4. PlaceAmong(U, c) = Cardinality(B) /\ rank(c) = Cardinality(C)
    BY DEF PlaceAmong
  <2>. HIDE DEF B, C, rank
  <2>5. Cardinality(C) = Cardinality(B) + 1
    BY <2>1, <2>2, SizeOfSet
  <2>. QED  BY <2>3, <2>4, <2>5
<1>. HIDE DEF rank
<1>4. \A c \in U : rank(c) \in Int
  BY <1>1
<1>. QED  BY <1>1, <1>2, <1>3, <1>4

ListOf(U) ==
    [i \in 1 .. Cardinality(U) |-> CHOOSE c \in U : PlaceAmong(U, c) = i - 1]

IndexOf(m, U, T) ==
    [c \in 1 .. m |-> IF c \in U THEN PlaceAmong(U, c) ELSE -Cardinality(T[c])]

BreaksOf(m, n, crit) ==
    [v \in 1 .. n |-> Cardinality({c \in 1 .. m : crit[c] \in {v, -v}})]

EmptyAmong(m, T) == {c \in 1 .. m : T[c] = {}}

(* initialize lists the unsatisfied clauses in order, each at its place.   *)
LEMMA FirstList ==
    ASSUME NEW m \in Nat, NEW U \in SUBSET (1 .. m), NEW loc,
           loc \in [1 .. m -> Int],
           \A c \in U : loc[c] = PlaceAmong(U, c),
           \A c \in (1 .. m) \ U : loc[c] < 0
    PROVE  ListAgrees(m, ListOf(U), loc)
<1>. DEFINE k == Cardinality(U)
            unsat == ListOf(U)
            P(c) == PlaceAmong(U, c)
<1>1. U \in SUBSET Nat /\ IsFiniteSet(U)
  <2>1. IsFiniteSet(1 .. m)
    BY FS_Interval
  <2>2. U \in SUBSET Nat
    OBVIOUS
  <2>. QED  BY <2>1, <2>2, FS_Subset
<1>2. /\ k \in Nat
      /\ \A c \in U : P(c) \in 0 .. k - 1
      /\ \A c, d \in U : P(c) = P(d) => c = d
      /\ \A i \in 1 .. k : \E c \in U : P(c) = i - 1
  BY <1>1, Places
<1>3. /\ DOMAIN unsat = 1 .. k
      /\ \A i \in 1 .. k : unsat[i] = CHOOSE c \in U : P(c) = i - 1
      /\ unsat = [i \in 1 .. k |-> unsat[i]]
  BY DEF ListOf
<1>a. \A c \in U : loc[c] = P(c)
  OBVIOUS
<1>. HIDE DEF k, P, unsat
<1>4. \A i \in 1 .. k : unsat[i] \in U /\ P(unsat[i]) = i - 1
  BY <1>2, <1>3
<1>5. unsat \in [1 .. k -> 1 .. m]
  BY <1>3, <1>4
<1>6. unsat \in Seq(1 .. m)
  <2>1. k \in Nat
    BY <1>2
  <2>. QED  BY <1>5, <2>1
<1>7. \A i \in 1 .. k : loc[unsat[i]] = i - 1
  BY <1>4, <1>a
<1>8. ASSUME NEW c \in 1 .. m, loc[c] >= 0
      PROVE  loc[c] + 1 \in 1 .. k /\ unsat[loc[c] + 1] = c
  <2>1. c \in U
    BY <1>8
  <2>2. PICK p \in 0 .. k - 1 : p = P(c)
    BY <1>2, <2>1
  <2>3. loc[c] = p
    BY <1>a, <2>1, <2>2
  <2>4. p + 1 \in 1 .. k /\ (p + 1) - 1 = p
    BY <1>2
  <2>5. unsat[p + 1] \in U /\ P(unsat[p + 1]) = p
    BY <1>4, <2>4
  <2>6. unsat[p + 1] = c
    BY <1>2, <2>1, <2>2, <2>5
  <2>. QED  BY <2>3, <2>4, <2>6
<1>. QED  BY <1>3, <1>6, <1>7, <1>8 DEF ListAgrees, unsat

(* initialize: the lists made in one pass agree with the true literals.    *)
LEMMA FirstLists ==
    ASSUME NEW m \in Nat, NEW n \in Nat, NEW T \in [1 .. m -> SUBSET LiteralsOf(n)],
           NEW crit \in [1 .. m -> Int],
           \A c \in 1 .. m : IF Cardinality(T[c]) = 1 THEN crit[c] \in T[c]
                             ELSE crit[c] = 0
    PROVE  ListsAgree(m, n, T, ListOf(EmptyAmong(m, T)),
                      IndexOf(m, EmptyAmong(m, T), T), crit, BreaksOf(m, n, crit))
<1>. DEFINE U == EmptyAmong(m, T)
            loc == IndexOf(m, U, T)
            breaks == BreaksOf(m, n, crit)
<1>1. ASSUME NEW c \in 1 .. m
      PROVE  /\ IsFiniteSet(T[c]) /\ Cardinality(T[c]) \in Nat
             /\ Cardinality(T[c]) = 0 <=> T[c] = {}
             /\ Cardinality(T[c]) = 1 => T[c] = {crit[c]}
             /\ \A x \in T[c] : x # 0 /\ x \in Int
             /\ \A v : T[c] = {v} => Cardinality(T[c]) = 1
  <2>1. IsFiniteSet(T[c]) /\ \A x \in T[c] : x # 0 /\ x \in Int
    BY LiteralsFinite, FS_Subset
  <2>2. Cardinality(T[c]) = 1 => T[c] = {crit[c]}
    BY <2>1, SizeOfSet
  <2>. QED  BY <2>1, <2>2, SizeOfSet
<1>2. U \in SUBSET (1 .. m) /\ IsFiniteSet(U) /\ U \in SUBSET Nat
  <2>1. IsFiniteSet(1 .. m)
    BY FS_Interval
  <2>2. U \in SUBSET (1 .. m)
    BY DEF EmptyAmong
  <2>. HIDE DEF U
  <2>3. U \in SUBSET Nat
    BY <2>2
  <2>. QED  BY <2>1, <2>2, <2>3, FS_Subset
<1>b. \A c \in 1 .. m : c \in U <=> T[c] = {}
  BY DEF EmptyAmong
<1>c. /\ loc = [c \in 1 .. m |-> loc[c]]
      /\ \A c \in 1 .. m : loc[c] = IF c \in U THEN PlaceAmong(U, c)
                                     ELSE -Cardinality(T[c])
  BY DEF IndexOf
<1>. HIDE DEF U, loc
<1>3. \A c \in U : PlaceAmong(U, c) \in Nat
  <2>1. /\ Cardinality(U) \in Nat
        /\ \A c \in U : PlaceAmong(U, c) \in 0 .. Cardinality(U) - 1
    BY <1>2, Places
  <2>. QED  BY <2>1
<1>4. /\ loc \in [1 .. m -> Int]
      /\ \A c \in U : loc[c] = PlaceAmong(U, c)
      /\ \A c \in (1 .. m) \ U : loc[c] = -Cardinality(T[c]) /\ loc[c] < 0
  <2>1. ASSUME NEW c \in 1 .. m
        PROVE  /\ c \in U => loc[c] = PlaceAmong(U, c) /\ loc[c] \in Int
               /\ c \notin U => /\ loc[c] = -Cardinality(T[c]) /\ loc[c] < 0
                                /\ loc[c] \in Int
    <3>1. loc[c] = IF c \in U THEN PlaceAmong(U, c) ELSE -Cardinality(T[c])
      BY <1>c
    <3>2. Cardinality(T[c]) \in Nat /\ (c \notin U => Cardinality(T[c]) # 0)
      BY <1>1, <1>b
    <3>3. c \in U => PlaceAmong(U, c) \in Int
      BY <1>3
    <3>. QED  BY <3>1, <3>2, <3>3
  <2>. QED  BY <1>2, <1>c, <2>1
<1>5. ListAgrees(m, ListOf(U), loc)
  BY <1>2, <1>4, FirstList
<1>6. CountsAgree(m, T, loc)
  <2>1. \A c \in U : loc[c] >= 0
    <3>1. \A c \in U : loc[c] = PlaceAmong(U, c)
      BY <1>4
    <3>2. \A c \in U : PlaceAmong(U, c) >= 0
      BY <1>3
    <3>. QED  BY <3>1, <3>2
  <2>2. \A c \in (1 .. m) \ U : loc[c] = -Cardinality(T[c])
    BY <1>4
  <2>. QED  BY <1>b, <2>1, <2>2 DEF CountsAgree
<1>7. CriticalAgrees(m, T, crit)
  BY <1>1 DEF CriticalAgrees
<1>8. ASSUME NEW v \in 1 .. n
      PROVE  {c \in 1 .. m : crit[c] \in {v, -v}} = DependOn(m, T, v)
  <2>1. ASSUME NEW c \in 1 .. m
        PROVE  crit[c] \in {v, -v} <=> (T[c] = {v} \/ T[c] = {-v})
    <3>1. CASE Cardinality(T[c]) = 1
      BY <1>1, <3>1
    <3>2. CASE Cardinality(T[c]) # 1
      <4>1. crit[c] = 0 /\ v # 0 /\ -v # 0
        BY <3>2
      <4>2. T[c] # {v} /\ T[c] # {-v}
        BY <1>1, <3>2
      <4>. QED  BY <4>1, <4>2
    <3>. QED  BY <3>1, <3>2
  <2>. QED  BY <2>1 DEF DependOn
<1>9. BreaksAgree(m, n, T, breaks)
  <2>1. ASSUME NEW v \in 1 .. n
        PROVE  breaks[v] = Cardinality(DependOn(m, T, v)) /\ breaks[v] \in Nat
    <3>1. breaks[v] = Cardinality(DependOn(m, T, v))
      BY <1>8 DEF BreaksOf
    <3>2. IsFiniteSet(DependOn(m, T, v))
      <4>1. IsFiniteSet(1 .. m) /\ DependOn(m, T, v) \subseteq 1 .. m
        BY FS_Interval DEF DependOn
      <4>. QED  BY <4>1, FS_Subset
    <3>. QED  BY <3>1, <3>2, FS_CardinalityType
  <2>2. breaks = [v \in 1 .. n |-> breaks[v]]
    BY DEF BreaksOf
  <2>. QED  BY <2>1, <2>2 DEF BreaksAgree
<1>. QED  BY <1>5, <1>6, <1>7, <1>9 DEF ListsAgree, U, loc

-----------------------------------------------------------------------------
(* The clauses with a literal, counted while they are read.                *)
WithIn(cs, lit, k) == {c \in 1 .. k : lit \in ToSet(cs[c])}

(* With one clause more, a literal stands in one clause more or in as many.*)
LEMMA WithNext ==
    ASSUME NEW cs, NEW lit, NEW k \in Nat
    PROVE  /\ IsFiniteSet(WithIn(cs, lit, k))
           /\ Cardinality(WithIn(cs, lit, k)) \in Nat
           /\ Cardinality(WithIn(cs, lit, k + 1)) =
                  Cardinality(WithIn(cs, lit, k))
                      + (IF lit \in ToSet(cs[k + 1]) THEN 1 ELSE 0)
           /\ Cardinality(WithIn(cs, lit, 0)) = 0
<1>. DEFINE B == WithIn(cs, lit, k)
            C == WithIn(cs, lit, k + 1)
<1>1. IsFiniteSet(B)
  <2>1. IsFiniteSet(1 .. k) /\ B \subseteq 1 .. k
    BY FS_Interval DEF WithIn
  <2>. QED  BY <2>1, FS_Subset
<1>2. Cardinality(B) \in Nat
  BY <1>1, FS_CardinalityType
<1>3. k + 1 \notin B /\ C = IF lit \in ToSet(cs[k + 1]) THEN B \cup {k + 1} ELSE B
  <2>1. \A c : c \in 1 .. k + 1 <=> (c \in 1 .. k \/ c = k + 1)
    OBVIOUS
  <2>2. k + 1 \notin 1 .. k
    OBVIOUS
  <2>. QED  BY <2>1, <2>2 DEF WithIn
<1>4. WithIn(cs, lit, 0) = {}
  BY DEF WithIn
<1>5. Cardinality(WithIn(cs, lit, 0)) = 0
  BY <1>4, FS_EmptySet
<1>. HIDE DEF B, C
<1>6. Cardinality(B \cup {k + 1}) = Cardinality(B) + 1
  BY <1>1, <1>3, SizeOfSet
<1>7. Cardinality(C) = Cardinality(B) + (IF lit \in ToSet(cs[k + 1]) THEN 1 ELSE 0)
  BY <1>2, <1>3, <1>6
<1>. QED  BY <1>1, <1>2, <1>5, <1>7 DEF B, C

(* The number of clauses with a literal never falls while more are read.   *)
LEMMA WithGrows ==
    ASSUME NEW cs, NEW lit, NEW j \in Nat, NEW k \in Nat, j <= k
    PROVE  Cardinality(WithIn(cs, lit, j)) <= Cardinality(WithIn(cs, lit, k))
<1>1. WithIn(cs, lit, j) \subseteq WithIn(cs, lit, k)
  BY DEF WithIn
<1>2. IsFiniteSet(WithIn(cs, lit, k))
  BY WithNext
<1>. QED  BY <1>1, <1>2, FS_Subset

(* A clean clause has a literal at most once.                              *)
LEMMA OnceInClause ==
    ASSUME NEW clause, IsClean(clause), NEW lit
    PROVE  Occurrences(lit, clause) = IF lit \in ToSet(clause) THEN 1 ELSE 0
<1>. DEFINE P == {i \in DOMAIN clause : clause[i] = lit}
<1>1. CASE lit \in ToSet(clause)
  <2>1. PICK i \in DOMAIN clause : clause[i] = lit
    BY <1>1 DEF ToSet
  <2>2. P = {i}
    BY <2>1 DEF IsClean
  <2>. QED  BY <1>1, <2>2, FS_Singleton DEF Occurrences
<1>2. CASE lit \notin ToSet(clause)
  <2>1. P = {}
    BY <1>2 DEF ToSet
  <2>. QED  BY <1>2, <2>1, FS_EmptySet DEF Occurrences
<1>. QED  BY <1>1, <1>2

-----------------------------------------------------------------------------
(* The segments that the offsets and the counts describe.                  *)
Offset(cnt, v) == SumFunction([u \in 1 .. v - 1 |-> cnt[-u] + cnt[u]])

(* The segments of the next variable start where those of this one end.    *)
LEMMA OffsetNext ==
    ASSUME NEW n \in Nat, NEW cnt \in [LiteralsOf(n) -> Nat], NEW v \in 1 .. n
    PROVE  Offset(cnt, v + 1) = Offset(cnt, v) + cnt[-v] + cnt[v]
<1>. DEFINE S == 1 .. v
            f == [u \in S |-> cnt[-u] + cnt[u]]
            g == [u \in 1 .. v - 1 |-> cnt[-u] + cnt[u]]
<1>1. IsFiniteSet(S) /\ v \in S
  BY FS_Interval
<1>2. \A u \in S : cnt[-u] \in Nat /\ cnt[u] \in Nat
  BY DEF LiteralsOf
<1>3. f \in [S -> Nat] /\ f[v] = cnt[-v] + cnt[v]
  BY <1>1, <1>2
<1>4. S \ {v} = 1 .. v - 1 /\ \A u \in 1 .. v - 1 : u \in S
  OBVIOUS
<1>5. [y \in S \ {v} |-> f[y]] = g
  BY <1>4
<1>6. Offset(cnt, v + 1) = SumFunction(f) /\ Offset(cnt, v) = SumFunction(g)
  <2>1. (v + 1) - 1 = v
    OBVIOUS
  <2>. QED  BY <2>1 DEF Offset
<1>7. IsFiniteSet(1 .. v - 1) /\ g \in [1 .. v - 1 -> Nat]
  <2>1. \A u \in 1 .. v - 1 : cnt[-u] + cnt[u] \in Nat
    BY <1>2, <1>4
  <2>2. g \in [1 .. v - 1 -> Nat]
    BY <2>1
  <2>3. v - 1 \in Int
    OBVIOUS
  <2>. DEFINE w == v - 1
  <2>. HIDE DEF S, f, g, w
  <2>4. IsFiniteSet(1 .. w)
    BY <2>3, FS_Interval DEF w
  <2>. QED  BY <2>2, <2>4 DEF w
<1>. HIDE DEF S, f, g
<1>8. \A x \in S : SumFunction(f) = f[x] + SumFunction([y \in S \ {x} |-> f[y]])
  BY <1>1, <1>3, SumWithout
<1>9. SumFunction(g) \in Nat
  BY <1>7, SumOfNaturals
<1>10. cnt[-v] \in Nat /\ cnt[v] \in Nat
  BY <1>1, <1>2
<1>11. SumFunction(f) = f[v] + SumFunction(g)
  BY <1>1, <1>5, <1>8
<1>. QED  BY <1>3, <1>6, <1>9, <1>10, <1>11

(* Offsets are natural numbers, and 0 as long as nothing is counted.       *)
LEMMA OffsetNatural ==
    ASSUME NEW n \in Nat, NEW cnt \in [LiteralsOf(n) -> Nat], NEW v \in 1 .. n + 1
    PROVE  /\ Offset(cnt, v) \in Nat
           /\ (\A lit \in LiteralsOf(n) : cnt[lit] = 0) => Offset(cnt, v) = 0
<1>. DEFINE S == 1 .. v - 1
            g == [u \in S |-> cnt[-u] + cnt[u]]
<1>1. IsFiniteSet(S)
  BY FS_Interval
<1>2. \A u \in S : /\ -u \in LiteralsOf(n) /\ u \in LiteralsOf(n)
                   /\ cnt[-u] \in Nat /\ cnt[u] \in Nat
  <2>1. \A u \in S : u \in 1 .. n
    OBVIOUS
  <2>2. \A u \in 1 .. n : -u \in LiteralsOf(n) /\ u \in LiteralsOf(n)
    BY DEF LiteralsOf
  <2>. QED  BY <2>1, <2>2
<1>3. g \in [S -> Nat]
  BY <1>2
<1>4. (\A lit \in LiteralsOf(n) : cnt[lit] = 0) => \A u \in S : g[u] = 0
  BY <1>2
<1>5. Offset(cnt, v) = SumFunction(g)
  BY DEF Offset
<1>. HIDE DEF S, g
<1>. QED  BY <1>1, <1>3, <1>4, <1>5, SumOfNaturals, SumOfZeros

Layout(n, cnt, off) ==
    /\ cnt \in [LiteralsOf(n) -> Nat]
    /\ off \in [1 .. n + 1 -> Nat]
    /\ \A v \in 1 .. n : off[v + 1] = off[v] + cnt[-v] + cnt[v]

StartOf(cnt, off, lit) == off[Abs(lit)] + (IF lit < 0 THEN 0 ELSE cnt[-lit])

(* Segments of later variables start later.                                *)
LEMMA OffsetsGrow ==
    ASSUME NEW n \in Nat, NEW cnt, NEW off, Layout(n, cnt, off),
           NEW u \in 1 .. n + 1, NEW v \in 1 .. n + 1, u <= v
    PROVE  off[u] <= off[v]
<1>. DEFINE N == {d \in Nat : u + d <= n + 1 => off[u] <= off[u + d]}
<1>1. off \in [1 .. n + 1 -> Nat]
  BY DEF Layout
<1>2. 0 \in N
  BY <1>1
<1>3. ASSUME NEW d \in Nat, d \in N
      PROVE  d + 1 \in N
  <2>1. SUFFICES ASSUME u + (d + 1) <= n + 1 PROVE off[u] <= off[u + (d + 1)]
    OBVIOUS
  <2>2. PICK w \in 1 .. n : w = u + d
    BY <2>1
  <2>3. off[u] <= off[w] /\ w + 1 = u + (d + 1)
    BY <1>3, <2>1, <2>2
  <2>4. off[w + 1] = off[w] + cnt[-w] + cnt[w]
    BY DEF Layout
  <2>5. cnt[-w] \in Nat /\ cnt[w] \in Nat
    BY DEF Layout, LiteralsOf
  <2>6. off[u] \in Nat /\ off[w] \in Nat
    BY <1>1
  <2>. QED  BY <2>3, <2>4, <2>5, <2>6
<1>. HIDE DEF N
<1>4. Nat \subseteq N
  BY <1>2, <1>3, NatSet
<1>5. v - u \in Nat /\ u + (v - u) = v
  OBVIOUS
<1>6. v - u \in N
  BY <1>4, <1>5
<1>. QED  BY <1>5, <1>6 DEF N

(* A literal's segment lies between two offsets.                           *)
LEMMA SegmentPlaced ==
    ASSUME NEW n \in Nat, NEW cnt, NEW off, Layout(n, cnt, off),
           NEW lit \in LiteralsOf(n)
    PROVE  /\ StartOf(cnt, off, lit) \in Nat /\ cnt[lit] \in Nat
           /\ Abs(lit) \in 1 .. n
           /\ off[Abs(lit)] \in Nat /\ off[Abs(lit) + 1] \in Nat
           /\ StartOf(cnt, off, lit) >= off[Abs(lit)]
           /\ StartOf(cnt, off, lit) + cnt[lit] <= off[Abs(lit) + 1]
           /\ StartOf(cnt, off, lit) + cnt[lit] <= off[n + 1]
           /\ lit < 0 => /\ StartOf(cnt, off, lit) + cnt[lit] =
                                StartOf(cnt, off, -lit)
           /\ lit > 0 => StartOf(cnt, off, lit) + cnt[lit] = off[lit + 1]
<1>1. Abs(lit) \in 1 .. n /\ lit \in Int /\ lit # 0 /\ -lit \in LiteralsOf(n)
  BY LiteralsFinite
<1>2. PICK v \in 1 .. n : v = Abs(lit)
  BY <1>1
<1>3. /\ off[v] \in Nat /\ off[v + 1] \in Nat /\ off[n + 1] \in Nat
      /\ cnt[lit] \in Nat /\ cnt[-lit] \in Nat
      /\ off[v + 1] = off[v] + cnt[-v] + cnt[v]
  BY <1>1 DEF Layout
<1>4. off[v + 1] <= off[n + 1]
  <2>1. v + 1 \in 1 .. n + 1 /\ n + 1 \in 1 .. n + 1 /\ v + 1 <= n + 1
    OBVIOUS
  <2>. QED  BY <2>1, OffsetsGrow
<1>5. CASE lit < 0
  <2>1. lit = -v /\ -lit = v /\ ~(v < 0) /\ Abs(-lit) = v /\ -v = lit /\ ~(-lit < 0)
    BY <1>1, <1>2, <1>5 DEF Abs
  <2>2. StartOf(cnt, off, lit) = off[v]
    BY <1>2, <1>3, <1>5 DEF StartOf
  <2>3. StartOf(cnt, off, -lit) = off[v] + cnt[lit]
    BY <1>1, <2>1 DEF StartOf
  <2>4. off[v + 1] = off[v] + cnt[lit] + cnt[-lit]
    BY <1>3, <2>1
  <2>. QED  BY <1>1, <1>2, <1>3, <1>4, <1>5, <2>2, <2>3, <2>4
<1>6. CASE lit > 0
  <2>1. lit = v /\ ~(lit < 0)
    BY <1>1, <1>2, <1>6 DEF Abs
  <2>2. StartOf(cnt, off, lit) = off[v] + cnt[-lit]
    BY <1>2, <2>1 DEF StartOf
  <2>3. off[v + 1] = off[v] + cnt[-lit] + cnt[lit]
    BY <1>3, <2>1
  <2>. QED  BY <1>1, <1>2, <1>3, <1>4, <1>6, <2>1, <2>2, <2>3
<1>. QED  BY <1>1, <1>5, <1>6

(* No slot belongs to the segments of two literals.                        *)
LEMMA SlotsApart ==
    ASSUME NEW n \in Nat, NEW cnt, NEW off, Layout(n, cnt, off),
           NEW k \in LiteralsOf(n), NEW l \in LiteralsOf(n),
           NEW i \in 1 .. cnt[k], NEW j \in 1 .. cnt[l],
           StartOf(cnt, off, k) + i = StartOf(cnt, off, l) + j
    PROVE  k = l
<1>. DEFINE s(x) == StartOf(cnt, off, x)
            u == Abs(k)
            v == Abs(l)
<1>1. /\ k \in Int /\ l \in Int /\ k # 0 /\ l # 0
      /\ (k = u \/ k = -u) /\ (l = v \/ l = -v)
  BY LiteralsFinite
<1>2. /\ s(k) \in Nat /\ cnt[k] \in Nat /\ u \in 1 .. n
      /\ off[u] \in Nat /\ off[u + 1] \in Nat
      /\ s(k) >= off[u] /\ s(k) + cnt[k] <= off[u + 1]
      /\ k < 0 => s(k) + cnt[k] = s(-k)
  BY SegmentPlaced
<1>3. /\ s(l) \in Nat /\ cnt[l] \in Nat /\ v \in 1 .. n
      /\ off[v] \in Nat /\ off[v + 1] \in Nat
      /\ s(l) >= off[v] /\ s(l) + cnt[l] <= off[v + 1]
      /\ l < 0 => s(l) + cnt[l] = s(-l)
  BY SegmentPlaced
<1>a. s(k) + i = s(l) + j
  OBVIOUS
<1>. HIDE DEF s, u, v
<1>4. ~(u < v)
  <2>1. u < v => off[u + 1] <= off[v]
    <3>1. u + 1 \in 1 .. n + 1 /\ v \in 1 .. n + 1 /\ (u < v => u + 1 <= v)
      BY <1>2, <1>3
    <3>. QED  BY <3>1, OffsetsGrow
  <2>. QED  BY <1>a, <1>2, <1>3, <2>1
<1>5. ~(v < u)
  <2>1. v < u => off[v + 1] <= off[u]
    <3>1. v + 1 \in 1 .. n + 1 /\ u \in 1 .. n + 1 /\ (v < u => v + 1 <= u)
      BY <1>2, <1>3
    <3>. QED  BY <3>1, OffsetsGrow
  <2>. QED  BY <1>a, <1>2, <1>3, <2>1
<1>6. u = v
  BY <1>2, <1>3, <1>4, <1>5
<1>7. k = l \/ k = -l
  BY <1>1, <1>6
<1>8. CASE k = -l /\ k < 0
  <2>1. -k = l
    BY <1>1, <1>8
  <2>2. s(k) + cnt[k] = s(l)
    BY <1>2, <1>8, <2>1
  <2>. QED  BY <1>a, <1>2, <1>3, <2>2
<1>9. CASE k = -l /\ k > 0
  <2>1. l < 0 /\ -l = k
    BY <1>1, <1>9
  <2>2. s(l) + cnt[l] = s(k)
    BY <1>3, <2>1
  <2>. QED  BY <1>a, <1>2, <1>3, <2>2
<1>. QED  BY <1>1, <1>7, <1>8, <1>9

-----------------------------------------------------------------------------
(* Filling the segments, clause by clause.                                 *)
Formula(n, m, cs, cnt) ==
    /\ \A c \in 1 .. m : ToSet(cs[c]) \subseteq LiteralsOf(n)
    /\ \A lit \in LiteralsOf(n) : cnt[lit] = Cardinality(WithIn(cs, lit, m))

RankIn(cs, lit, c) == Cardinality(WithIn(cs, lit, c))

FilledUpTo(cs, cnt, off, slots, k, most) ==
    \A c \in 1 .. k : \A lit \in ToSet(cs[c]) :
        /\ slots[StartOf(cnt, off, lit) + RankIn(cs, lit, c)] = c
        /\ cnt[lit] <= most

(* The rank of a clause among those with one of its literals.              *)
LEMMA RankBounded ==
    ASSUME NEW n \in Nat, NEW m \in Nat, NEW cs, NEW cnt, Formula(n, m, cs, cnt),
           NEW c \in 1 .. m, NEW lit \in ToSet(cs[c])
    PROVE  /\ lit \in LiteralsOf(n)
           /\ RankIn(cs, lit, c) \in 1 .. cnt[lit]
           /\ RankIn(cs, lit, c - 1) \in Nat
           /\ RankIn(cs, lit, c) = RankIn(cs, lit, c - 1) + 1
<1>1. lit \in LiteralsOf(n)
  BY DEF Formula
<1>2. cnt[lit] = RankIn(cs, lit, m)
  BY <1>1 DEF Formula, RankIn
<1>3. PICK k \in Nat : k = c - 1 /\ k + 1 = c
  OBVIOUS
<1>4. /\ RankIn(cs, lit, k) \in Nat
      /\ RankIn(cs, lit, k + 1) = RankIn(cs, lit, k) + 1
  BY <1>3, WithNext DEF RankIn
<1>5. RankIn(cs, lit, c) <= RankIn(cs, lit, m)
  BY WithGrows DEF RankIn
<1>6. RankIn(cs, lit, m) \in Nat
  BY WithNext DEF RankIn
<1>. QED  BY <1>1, <1>2, <1>3, <1>4, <1>5, <1>6

(* The slots of a segment are in the order of the clauses.                 *)
LEMMA RankOrders ==
    ASSUME NEW cs, NEW lit, NEW x \in Nat, NEW y \in Nat,
           RankIn(cs, lit, x) < RankIn(cs, lit, y)
    PROVE  x < y
<1>1. RankIn(cs, lit, x) \in Nat /\ RankIn(cs, lit, y) \in Nat
  BY WithNext DEF RankIn
<1>2. y <= x => RankIn(cs, lit, y) <= RankIn(cs, lit, x)
  BY WithGrows DEF RankIn
<1>. QED  BY <1>1, <1>2

SlotOf(cs, cnt, off, lit, k) == StartOf(cnt, off, lit) + RankIn(cs, lit, k) + 1

WithClause(cs, cnt, off, slots, k) ==
    [slot \in DOMAIN slots |->
        IF \E lit \in ToSet(cs[k + 1]) : slot = SlotOf(cs, cnt, off, lit, k)
        THEN k + 1 ELSE slots[slot]]

(* Entering one clause keeps what was entered, and enters it for each of   *)
(* its literals.                                                           *)
LEMMA FillNext ==
    ASSUME NEW n \in Nat, NEW m \in Nat, NEW cs, NEW cnt, NEW off,
           Formula(n, m, cs, cnt), Layout(n, cnt, off),
           NEW k \in 0 .. m - 1, NEW slots \in [1 .. off[n + 1] -> 1 .. m],
           NEW before \in Nat, NEW most \in Nat, before <= most,
           FilledUpTo(cs, cnt, off, slots, k, before),
           \A lit \in ToSet(cs[k + 1]) : cnt[lit] <= most
    PROVE  /\ WithClause(cs, cnt, off, slots, k) \in [1 .. off[n + 1] -> 1 .. m]
           /\ FilledUpTo(cs, cnt, off, WithClause(cs, cnt, off, slots, k), k + 1, most)
<1>. DEFINE N == off[n + 1]
            new == WithClause(cs, cnt, off, slots, k)
            s(lit) == StartOf(cnt, off, lit)
<1>1. k + 1 \in 1 .. m /\ k \in Nat /\ (k + 1) - 1 = k
  OBVIOUS
<1>2. /\ DOMAIN new = 1 .. N
      /\ new = [slot \in 1 .. N |-> new[slot]]
      /\ \A slot \in 1 .. N :
             new[slot] = IF \E lit \in ToSet(cs[k + 1]) : slot = SlotOf(cs, cnt, off, lit, k)
                         THEN k + 1 ELSE slots[slot]
  BY DEF WithClause
<1>3. \A slot \in 1 .. N : slots[slot] \in 1 .. m
  OBVIOUS
<1>. HIDE DEF N, new
<1>4. new \in [1 .. N -> 1 .. m]
  BY <1>1, <1>2, <1>3
<1>5. ASSUME NEW c \in 1 .. m, NEW lit \in ToSet(cs[c])
      PROVE  /\ lit \in LiteralsOf(n) /\ RankIn(cs, lit, c) \in 1 .. cnt[lit]
             /\ s(lit) + RankIn(cs, lit, c) \in 1 .. N
             /\ s(lit) \in Nat /\ cnt[lit] \in Nat
  <2>1. lit \in LiteralsOf(n) /\ RankIn(cs, lit, c) \in 1 .. cnt[lit]
    BY RankBounded
  <2>2. s(lit) \in Nat /\ cnt[lit] \in Nat /\ s(lit) + cnt[lit] <= N
    BY <2>1, SegmentPlaced DEF N
  <2>3. N \in Nat
    BY DEF Layout, N
  <2>. HIDE DEF s
  <2>. QED  BY <2>1, <2>2, <2>3
<1>6. ASSUME NEW lit \in ToSet(cs[k + 1])
      PROVE  SlotOf(cs, cnt, off, lit, k) = s(lit) + RankIn(cs, lit, k + 1)
  <2>1. /\ RankIn(cs, lit, (k + 1) - 1) \in Nat
        /\ RankIn(cs, lit, k + 1) = RankIn(cs, lit, (k + 1) - 1) + 1
    BY <1>1, RankBounded
  <2>2. s(lit) \in Nat
    BY <1>1, <1>5
  <2>. HIDE DEF s
  <2>. QED  BY <1>1, <2>1, <2>2 DEF SlotOf, s
<1>7. ASSUME NEW lit \in ToSet(cs[k + 1])
      PROVE  new[s(lit) + RankIn(cs, lit, k + 1)] = k + 1
  BY <1>1, <1>2, <1>5, <1>6
<1>8. ASSUME NEW c \in 1 .. k, NEW lit \in ToSet(cs[c])
      PROVE  new[s(lit) + RankIn(cs, lit, c)] = c
  <2>1. c \in 1 .. m /\ c \in Nat /\ c <= k
    OBVIOUS
  <2>2. slots[s(lit) + RankIn(cs, lit, c)] = c
    BY DEF FilledUpTo
  <2>3. ASSUME NEW l \in ToSet(cs[k + 1]),
               s(lit) + RankIn(cs, lit, c) = SlotOf(cs, cnt, off, l, k)
        PROVE  FALSE
    <3>1. s(lit) + RankIn(cs, lit, c) = s(l) + RankIn(cs, l, k + 1)
      BY <1>6, <2>3
    <3>2. /\ lit \in LiteralsOf(n) /\ RankIn(cs, lit, c) \in 1 .. cnt[lit]
          /\ s(lit) \in Nat
      BY <1>5, <2>1
    <3>3. /\ l \in LiteralsOf(n) /\ RankIn(cs, l, k + 1) \in 1 .. cnt[l]
      BY <1>1, <1>5
    <3>4. lit = l
      BY <3>1, <3>2, <3>3, SlotsApart
    <3>5. RankIn(cs, lit, c) <= RankIn(cs, lit, k)
      BY <1>1, <2>1, WithGrows DEF RankIn
    <3>6. /\ RankIn(cs, lit, (k + 1) - 1) \in Nat
          /\ RankIn(cs, lit, k + 1) = RankIn(cs, lit, (k + 1) - 1) + 1
      BY <1>1, <3>4, RankBounded
    <3>7. s(lit) + RankIn(cs, lit, c) = s(lit) + RankIn(cs, lit, k + 1)
      BY <3>1, <3>4
    <3>. HIDE DEF s
    <3>. QED  BY <1>1, <3>2, <3>5, <3>6, <3>7
  <2>4. s(lit) + RankIn(cs, lit, c) \in 1 .. N
    BY <1>5, <2>1
  <2>. QED  BY <1>2, <2>2, <2>3, <2>4
<1>9. ASSUME NEW c \in 1 .. k, NEW lit \in ToSet(cs[c])
      PROVE  cnt[lit] <= most
  <2>1. cnt[lit] <= before
    BY DEF FilledUpTo
  <2>2. cnt[lit] \in Nat
    BY <1>1, <1>5
  <2>. QED  BY <2>1, <2>2
<1>10. FilledUpTo(cs, cnt, off, new, k + 1, most)
  <2>1. ASSUME NEW c \in 1 .. k + 1, NEW lit \in ToSet(cs[c])
        PROVE  new[s(lit) + RankIn(cs, lit, c)] = c /\ cnt[lit] <= most
    <3>1. CASE c = k + 1
      BY <1>7, <3>1
    <3>2. CASE c # k + 1
      <4>1. c \in 1 .. k
        BY <3>2
      <4>. QED  BY <1>8, <1>9, <4>1
    <3>. QED  BY <3>1, <3>2
  <2>. QED  BY <2>1 DEF FilledUpTo
<1>. QED  BY <1>4, <1>10 DEF N, new

(* A filled segment has the clauses of its literal, in order.              *)
Listed(slots, cnt, off, lit) ==
    SubSeq(slots, StartOf(cnt, off, lit) + 1, StartOf(cnt, off, lit) + cnt[lit])

(* A filled segment lists the clauses with its literal, in order and each  *)
(* once.                                                                   *)
LEMMA SegmentListed ==
    ASSUME NEW n \in Nat, NEW m \in Nat, NEW cs, NEW cnt, NEW off,
           Formula(n, m, cs, cnt), Layout(n, cnt, off),
           NEW slots \in [1 .. off[n + 1] -> 1 .. m], NEW most,
           FilledUpTo(cs, cnt, off, slots, m, most),
           NEW lit \in LiteralsOf(n), NEW s,
           s = Listed(slots, cnt, off, lit)
    PROVE  /\ s \in Seq(1 .. m)
           /\ ToSet(s) = WithIn(cs, lit, m)
           /\ \A i, j \in DOMAIN s : i < j => s[i] < s[j]
<1>. DEFINE a == StartOf(cnt, off, lit)
            k == cnt[lit]
            S == WithIn(cs, lit, m)
            D == 1 .. m
            rank(c) == RankIn(cs, lit, c)
<1>1. a \in Nat /\ k \in Nat /\ a + k <= off[n + 1] /\ off[n + 1] \in Nat
  <2>1. /\ StartOf(cnt, off, lit) \in Nat /\ cnt[lit] \in Nat
        /\ StartOf(cnt, off, lit) + cnt[lit] <= off[n + 1]
    BY SegmentPlaced
  <2>2. off[n + 1] \in Nat
    BY DEF Layout
  <2>. QED  BY <2>1, <2>2
<1>2. \A i \in a + 1 .. a + k : slots[i] \in D
  <2>. HIDE DEF a, k, D
  <2>1. \A i \in a + 1 .. a + k : i \in 1 .. off[n + 1]
    BY <1>1
  <2>. QED  BY <2>1 DEF D
<1>3. /\ s \in Seq(D)
      /\ Len(s) = k /\ DOMAIN s = 1 .. k
      /\ \A i \in 1 .. k : s[i] = slots[a + i]
  <2>. HIDE DEF a, k, D
  <2>1. s = SubSeq(slots, a + 1, a + k)
    BY DEF a, k, Listed
  <2>2. a + 1 \in Int /\ a + k \in Int
    BY <1>1
  <2>3. /\ s \in Seq(D)
        /\ Len(s) = IF a + 1 <= a + k THEN (a + k) - (a + 1) + 1 ELSE 0
        /\ \A i \in 1 .. (a + k) - (a + 1) + 1 : s[i] = slots[(a + 1) + i - 1]
    <3>. DEFINE b == a + 1
                e == a + k
    <3>1. \A i \in b .. e : slots[i] \in D
      BY <1>2
    <3>2. b \in Int /\ e \in Int
      BY <2>2
    <3>. HIDE DEF b, e
    <3>3. /\ SubSeq(slots, b, e) \in Seq(D)
          /\ Len(SubSeq(slots, b, e)) = IF b <= e THEN e - b + 1 ELSE 0
          /\ \A i \in 1 .. e - b + 1 : SubSeq(slots, b, e)[i] = slots[b + i - 1]
      BY <3>1, <3>2, SubSeqProperties
    <3>4. s = SubSeq(slots, b, e)
      BY <2>1 DEF b, e
    <3>5. /\ s \in Seq(D) /\ Len(s) = IF b <= e THEN e - b + 1 ELSE 0
          /\ \A i \in 1 .. e - b + 1 : s[i] = slots[b + i - 1]
      BY <3>3, <3>4, Zenon
    <3>. QED  BY <3>5 DEF b, e
  <2>4. /\ (a + k) - (a + 1) + 1 = k
        /\ (IF a + 1 <= a + k THEN (a + k) - (a + 1) + 1 ELSE 0) = k
        /\ \A i \in 1 .. k : (a + 1) + i - 1 = a + i
    BY <1>1
  <2>5. DOMAIN s = 1 .. Len(s)
    BY <2>3, LenProperties
  <2>. QED  BY <2>3, <2>4, <2>5
<1>4. /\ IsFiniteSet(S) /\ Cardinality(S) = k /\ S \in SUBSET Nat
      /\ \A c \in S : c \in 1 .. m /\ lit \in ToSet(cs[c])
  <2>1. IsFiniteSet(S)
    BY WithNext
  <2>2. \A c \in S : c \in 1 .. m /\ lit \in ToSet(cs[c]) /\ c \in Nat
    BY DEF WithIn
  <2>3. Cardinality(S) = k
    BY DEF Formula
  <2>. QED  BY <2>1, <2>2, <2>3
<1>5. ASSUME NEW c \in S
      PROVE  rank(c) = Cardinality({u \in S : u <= c})
  <2>1. c \in 1 .. m
    BY <1>4
  <2>2. {u \in S : u <= c} = WithIn(cs, lit, c)
    <3>1. \A u : u \in 1 .. m /\ u <= c <=> u \in 1 .. c
      BY <2>1
    <3>. QED  BY <3>1 DEF WithIn
  <2>. QED  BY <2>2 DEF RankIn
<1>. HIDE DEF a, S, D, rank
<1>6. /\ \A c \in S : rank(c) \in 1 .. k
      /\ \A i \in 1 .. k : \E c \in S : rank(c) = i
  <2>1. /\ \A t \in S : Cardinality({u \in S : u <= t}) \in 1 .. Cardinality(S)
        /\ \A i \in 1 .. Cardinality(S) :
               \E t \in S : Cardinality({u \in S : u <= t}) = i
    BY <1>4, Ranks
  <2>. QED  BY <1>4, <1>5, <2>1
<1>7. \A c \in S : slots[a + rank(c)] = c
  BY <1>4 DEF FilledUpTo, a, rank
<1>8. \A i \in 1 .. k : s[i] \in S /\ rank(s[i]) = i
  <2>1. ASSUME NEW i \in 1 .. k
        PROVE  s[i] \in S /\ rank(s[i]) = i
    <3>1. PICK c \in S : rank(c) = i
      BY <1>6
    <3>2. slots[a + i] = c
      BY <1>7, <3>1
    <3>. QED  BY <1>3, <3>1, <3>2
  <2>. QED  BY <2>1
<1>9. \A c \in S : c \in ToSet(s)
  <2>1. ASSUME NEW c \in S
        PROVE  c \in ToSet(s)
    <3>1. PICK i \in 1 .. k : i = rank(c)
      BY <1>6
    <3>2. s[i] = c
      BY <1>3, <1>7, <3>1
    <3>. QED  BY <1>3, <3>2 DEF ToSet
  <2>. QED  BY <2>1
<1>10. ToSet(s) = S
  <2>1. \A c \in ToSet(s) : c \in S
    BY <1>3, <1>8 DEF ToSet
  <2>. QED  BY <1>9, <2>1
<1>11. ASSUME NEW i \in 1 .. k, NEW j \in 1 .. k, i < j
       PROVE  s[i] < s[j]
  <2>1. s[i] \in S /\ s[j] \in S /\ rank(s[i]) = i /\ rank(s[j]) = j
    BY <1>8
  <2>2. PICK x \in Nat : x = s[i] /\ rank(x) = i
    BY <1>4, <2>1
  <2>3. PICK y \in Nat : y = s[j] /\ rank(y) = j
    BY <1>4, <2>1
  <2>4. RankIn(cs, lit, x) < RankIn(cs, lit, y)
    BY <1>11, <2>2, <2>3 DEF rank
  <2>5. x < y
    BY <2>4, RankOrders
  <2>. QED  BY <2>2, <2>3, <2>5, Zenon
<1>. QED  BY <1>3, <1>10, <1>11 DEF S, D

-----------------------------------------------------------------------------
(* Reading one line.                                                       *)
CountsOf(n, cs, cnt, k) ==
    \A lit \in LiteralsOf(n) : cnt[lit] = Cardinality(WithIn(cs, lit, k))

RoomFor(cnt, line, most) ==
    \A lit \in ToSet(line) : cnt[lit] + Occurrences(lit, line) <= most

LineCounted(n, cnt, line) ==
    [lit \in LiteralsOf(n) |-> cnt[lit] + Occurrences(lit, line)]

(* Appending a clean clause and counting its literals keeps the counts     *)
(* exact.                                                                  *)
LEMMA OneMoreLine ==
    ASSUME NEW n \in Nat, NEW k \in Nat, NEW cs \in Seq(Seq(LiteralsOf(n))),
           Len(cs) = k, NEW line \in Seq(LiteralsOf(n)), IsClean(line),
           NEW most \in Nat, NEW cnt \in [LiteralsOf(n) -> 0 .. most],
           CountsOf(n, cs, cnt, k), RoomFor(cnt, line, most)
    PROVE  /\ Append(cs, line) \in Seq(Seq(LiteralsOf(n)))
           /\ Len(Append(cs, line)) = k + 1
           /\ \A c \in 1 .. k : Append(cs, line)[c] = cs[c]
           /\ Append(cs, line)[k + 1] = line
           /\ LineCounted(n, cnt, line) \in [LiteralsOf(n) -> 0 .. most]
           /\ CountsOf(n, Append(cs, line), LineCounted(n, cnt, line), k + 1)
<1>. DEFINE new == Append(cs, line)
            N == LineCounted(n, cnt, line)
<1>1. /\ new \in Seq(Seq(LiteralsOf(n))) /\ Len(new) = k + 1
      /\ \A c \in 1 .. k : new[c] = cs[c]
      /\ new[k + 1] = line
  BY AppendProperties
<1>. HIDE DEF new
<1>2. ASSUME NEW lit \in LiteralsOf(n)
      PROVE  /\ N[lit] = cnt[lit] + Occurrences(lit, line)
             /\ N[lit] \in 0 .. most
             /\ N[lit] = Cardinality(WithIn(new, lit, k + 1))
  <2>1. N[lit] = cnt[lit] + Occurrences(lit, line)
    BY DEF LineCounted
  <2>2. Occurrences(lit, line) = IF lit \in ToSet(line) THEN 1 ELSE 0
    BY OnceInClause
  <2>3. cnt[lit] \in 0 .. most
    OBVIOUS
  <2>4. lit \in ToSet(line) => cnt[lit] + Occurrences(lit, line) <= most
    BY DEF RoomFor
  <2>5. Cardinality(WithIn(new, lit, k + 1)) =
            Cardinality(WithIn(new, lit, k))
                + (IF lit \in ToSet(new[k + 1]) THEN 1 ELSE 0)
    BY WithNext
  <2>6. WithIn(new, lit, k) = WithIn(cs, lit, k)
    BY <1>1 DEF WithIn
  <2>7. cnt[lit] = Cardinality(WithIn(cs, lit, k))
    BY DEF CountsOf
  <2>. HIDE DEF N
  <2>8. N[lit] \in 0 .. most
    BY <2>1, <2>2, <2>3, <2>4
  <2>9. N[lit] = Cardinality(WithIn(new, lit, k + 1))
    BY <1>1, <2>1, <2>2, <2>5, <2>6, <2>7
  <2>. QED  BY <2>1, <2>8, <2>9
<1>3. N \in [LiteralsOf(n) -> 0 .. most]
  <2>1. N = [lit \in LiteralsOf(n) |-> N[lit]]
    BY DEF LineCounted
  <2>. HIDE DEF N
  <2>. QED  BY <1>2, <2>1
<1>. QED  BY <1>1, <1>2, <1>3 DEF new, CountsOf

(* The names of the model and the parameters of the lemmas.                *)
LEMMA FileFacts ==
    ASSUME file \in Files
    PROVE  /\ file.num_vars \in Nat \ {0}
           /\ file.lines \in Seq(Seq(Int) \ {<<>>})
           /\ Len(file.lines) \in Nat
           /\ Literals = LiteralsOf(file.num_vars)
           /\ \A c \in 1 .. Len(file.lines) :
                  file.lines[c] \in Seq(Int) /\ file.lines[c] # <<>>
           /\ CntMax \in Nat \ {0}
<1>1. /\ file.num_vars \in Nat \ {0}
      /\ file.lines \in Seq(Seq(Int) \ {<<>>})
      /\ CntMax \in Nat \ {0}
  BY CnfFormulaAssumption
<1>2. /\ Len(file.lines) \in Nat
      /\ \A c \in 1 .. Len(file.lines) : file.lines[c] \in Seq(Int) \ {<<>>}
  BY <1>1, LenProperties
<1>3. Literals = LiteralsOf(file.num_vars)
  BY DEF Literals, LiteralsOf, Variables
<1>. QED  BY <1>1, <1>2, <1>3

(* What VERIFY_INPUT accepts of a file without tautologies is a clean      *)
(* clause.                                                                 *)
LEMMA LineClean ==
    ASSUME NoTautologies, file \in Files, num_read \in 0 .. Len(file.lines),
           num_read < Len(file.lines), Acceptable(Line)
    PROVE  /\ Line = file.lines[num_read + 1]
           /\ IsClean(Line) /\ Line \in Seq(LiteralsOf(file.num_vars))
           /\ ~IsAlwaysTrue(Line)
           /\ \A lit \in ToSet(Line) : count[lit] + Occurrences(lit, Line) <= CntMax
<1>1. Len(file.lines) \in Nat /\ num_read + 1 \in 1 .. Len(file.lines)
  BY FileFacts
<1>2. Line = file.lines[num_read + 1] /\ Line \in Seq(Int) /\ Line # <<>>
  BY <1>1, FileFacts DEF Line
<1>3. Line \in ToSet(file.lines)
  <2>1. DOMAIN file.lines = 1 .. Len(file.lines)
    BY FileFacts, LenProperties
  <2>. QED  BY <1>1, <1>2, <2>1 DEF ToSet
<1>4. ~IsAlwaysTrue(Line)
  BY <1>3 DEF NoTautologies
<1>5. ToSet(Line) \subseteq LiteralsOf(file.num_vars) /\ Fits(Line) /\ ~IsUnclean(Line)
  BY <1>4, FileFacts DEF Acceptable
<1>6. Line \in Seq(LiteralsOf(file.num_vars))
  <2>. DEFINE line == Line
  <2>1. Len(line) \in Nat /\ line \in [1 .. Len(line) -> Int] /\ DOMAIN line = 1 .. Len(line)
    BY <1>2, LenProperties
  <2>2. \A i \in 1 .. Len(line) : line[i] \in LiteralsOf(file.num_vars)
    BY <1>5, <2>1 DEF ToSet
  <2>. HIDE DEF line
  <2>3. line \in [1 .. Len(line) -> LiteralsOf(file.num_vars)]
    BY <2>1, <2>2
  <2>4. line \in Seq(LiteralsOf(file.num_vars))
    BY <2>1, <2>3
  <2>. QED  BY <2>4 DEF line
<1>7. IsClean(Line)
  BY <1>2, <1>4, <1>5 DEF IsClean, IsUnclean, IsAlwaysTrue
<1>. QED  BY <1>2, <1>4, <1>5, <1>6, <1>7 DEF Fits

(* parse_clause keeps what is known of the lines read.                     *)
LEMMA LineParsed ==
    ASSUME NoTautologies, LinesRead, ParseClause
    PROVE  LinesRead'
<1>. DEFINE n == file.num_vars
            k == num_read
            Lits == LiteralsOf(n)
<1>1. /\ file \in Files /\ num_read \in 0 .. Len(file.lines)
      /\ clauses \in Seq(Seq(Lits)) /\ Len(clauses) = num_read
      /\ \A c \in 1 .. num_read : clauses[c] = file.lines[c] /\ IsClean(clauses[c])
      /\ count \in [Lits -> 0 .. CntMax]
      /\ \A lit \in Lits : count[lit] = Cardinality(WithIn(clauses, lit, num_read))
  BY FileFacts DEF LinesRead, With, WithIn
<1>2. n \in Nat /\ k \in Nat /\ CntMax \in Nat /\ Len(file.lines) \in Nat
  BY <1>1, FileFacts
<1>3. /\ num_read < Len(file.lines) /\ Acceptable(Line)
      /\ num_read' = k + 1 /\ file' = file
      /\ count' = [lit \in Literals |-> count[lit] + Occurrences(lit, Line)]
  BY DEF ParseClause
<1>4. /\ Line = file.lines[k + 1] /\ IsClean(Line) /\ Line \in Seq(Lits)
      /\ ~IsAlwaysTrue(Line)
      /\ \A lit \in ToSet(Line) : count[lit] + Occurrences(lit, Line) <= CntMax
  BY <1>1, <1>3, LineClean
<1>5. clauses' = Append(clauses, Line) /\ count' = LineCounted(n, count, Line)
  <2>1. clauses' = Append(clauses, Line)
    BY <1>4 DEF ParseClause
  <2>2. Literals = LiteralsOf(n)
    BY <1>1, FileFacts
  <2>. QED  BY <1>3, <2>1, <2>2 DEF LineCounted
<1>6. Literals' = Lits
  BY <1>3 DEF Literals, Variables, LiteralsOf
<1>7. /\ Append(clauses, Line) \in Seq(Seq(Lits))
      /\ Len(Append(clauses, Line)) = k + 1
      /\ \A c \in 1 .. k : Append(clauses, Line)[c] = clauses[c]
      /\ Append(clauses, Line)[k + 1] = Line
      /\ LineCounted(n, count, Line) \in [Lits -> 0 .. CntMax]
      /\ CountsOf(n, Append(clauses, Line), LineCounted(n, count, Line), k + 1)
  <2>. HIDE DEF n, k
  <2>1. Len(clauses) = k
    BY <1>1 DEF k
  <2>2. CountsOf(n, clauses, count, k) /\ RoomFor(count, Line, CntMax)
    BY <1>1, <1>4 DEF k, CountsOf, RoomFor
  <2>. QED  BY <1>1, <1>2, <1>4, <2>1, <2>2, OneMoreLine
<1>8. num_read' \in 0 .. Len(file'.lines)
  BY <1>1, <1>2, <1>3
<1>9. ASSUME NEW c \in 1 .. num_read'
      PROVE  clauses'[c] = file'.lines[c] /\ IsClean(clauses'[c])
  <2>1. CASE c = k + 1
    BY <1>3, <1>4, <1>5, <1>7, <2>1
  <2>2. CASE c # k + 1
    <3>1. c \in 1 .. k
      BY <1>2, <1>3, <2>2
    <3>. QED  BY <1>1, <1>3, <1>5, <1>7, <3>1
  <2>. QED  BY <2>1, <2>2
<1>10. \A lit \in Literals' : count'[lit] = Cardinality(With(lit, num_read)')
  BY <1>3, <1>5, <1>6, <1>7 DEF With, WithIn, CountsOf
<1>. HIDE DEF Lits, k, n
<1>11. /\ clauses' \in Seq(Seq(Literals')) /\ Len(clauses') = num_read'
       /\ count' \in [Literals' -> 0 .. CntMax]
  BY <1>3, <1>5, <1>6, <1>7
<1>12. file' \in Files
  BY <1>1, <1>3
<1>. QED  BY <1>8, <1>9, <1>10, <1>11, <1>12 DEF LinesRead

-----------------------------------------------------------------------------
(* The state of CnfFormula in the words of the lemmas above.               *)
LEMMA FormulaFacts ==
    ASSUME LinesRead
    PROVE  /\ num_read \in Nat /\ Len(clauses) = num_read
           /\ file.num_vars \in Nat
           /\ clauses \in Seq(Seq(LiteralsOf(file.num_vars)))
           /\ \A c \in 1 .. num_read : clauses[c] \in Seq(LiteralsOf(file.num_vars))
           /\ Formula(file.num_vars, num_read, clauses, count)
           /\ count \in [LiteralsOf(file.num_vars) -> Nat]
           /\ \A lit \in Literals : count[lit] \in 0 .. CntMax
<1>1. /\ file \in Files /\ num_read \in 0 .. Len(file.lines)
      /\ clauses \in Seq(Seq(Literals)) /\ Len(clauses) = num_read
      /\ count \in [Literals -> 0 .. CntMax]
      /\ \A lit \in Literals : count[lit] = Cardinality(With(lit, num_read))
  BY DEF LinesRead
<1>2. /\ Literals = LiteralsOf(file.num_vars) /\ file.num_vars \in Nat
      /\ num_read \in Nat /\ CntMax \in Nat
  BY <1>1, FileFacts
<1>3. \A c \in 1 .. num_read : clauses[c] \in Seq(LiteralsOf(file.num_vars))
  <2>. DEFINE L == LiteralsOf(file.num_vars)
  <2>1. clauses \in Seq(Seq(L))
    BY <1>1, <1>2
  <2>. HIDE DEF L
  <2>2. \A c \in 1 .. Len(clauses) : clauses[c] \in Seq(L)
    BY <2>1, ElementOfSeq
  <2>. QED  BY <1>1, <2>2 DEF L
<1>4. \A c \in 1 .. num_read : ToSet(clauses[c]) \subseteq LiteralsOf(file.num_vars)
  <2>. DEFINE L == LiteralsOf(file.num_vars)
  <2>. SUFFICES ASSUME NEW c \in 1 .. num_read PROVE ToSet(clauses[c]) \subseteq L
    OBVIOUS
  <2>1. PICK s : s = clauses[c] /\ s \in Seq(L)
    BY <1>3
  <2>. HIDE DEF L
  <2>2. \A i \in DOMAIN s : s[i] \in L
    BY <2>1, ElementOfSeq, LenProperties
  <2>. QED  BY <2>1, <2>2 DEF ToSet
<1>5. Formula(file.num_vars, num_read, clauses, count)
  BY <1>1, <1>2, <1>4 DEF Formula, With, WithIn
<1>. QED  BY <1>1, <1>2, <1>3, <1>5

(* Bounds and lengths of the segments in terms of the counts.              *)
LEMMA LayoutFacts ==
    ASSUME LinesRead, LaidOut
    PROVE  /\ Layout(file.num_vars, count, occurrence_offset)
           /\ num_read = Len(file.lines)
           /\ clauses_with_vars \in
                  [1 .. occurrence_offset[file.num_vars + 1] -> 1 .. num_read]
           /\ \A lit \in Literals :
                  /\ SegmentStart(lit) = StartOf(count, occurrence_offset, lit)
                  /\ SegmentEnd(lit) = StartOf(count, occurrence_offset, lit) + count[lit]
                  /\ SegmentEnd(lit) - SegmentStart(lit) = count[lit]
<1>1. file \in Files
  BY DEF LinesRead
<1>2. Literals = LiteralsOf(file.num_vars) /\ file.num_vars \in Nat
  BY <1>1, FileFacts
<1>3. Layout(file.num_vars, count, occurrence_offset)
  BY <1>2, FormulaFacts DEF LaidOut, Layout, Variables
<1>4. ASSUME NEW lit \in Literals
      PROVE  /\ SegmentStart(lit) = StartOf(count, occurrence_offset, lit)
             /\ SegmentEnd(lit) = StartOf(count, occurrence_offset, lit) + count[lit]
             /\ SegmentEnd(lit) - SegmentStart(lit) = count[lit]
  <2>1. SegmentStart(lit) = StartOf(count, occurrence_offset, lit)
    BY DEF SegmentStart, StartOf
  <2>2. lit \in Int /\ lit # 0
    BY <1>2, LiteralsFinite
  <2>3. /\ StartOf(count, occurrence_offset, lit) \in Nat /\ count[lit] \in Nat
        /\ lit > 0 => StartOf(count, occurrence_offset, lit) + count[lit]
                          = occurrence_offset[lit + 1]
    BY <1>2, <1>3, SegmentPlaced
  <2>4. SegmentEnd(lit) = StartOf(count, occurrence_offset, lit) + count[lit]
    <3>. PICK a : a = StartOf(count, occurrence_offset, lit)
      OBVIOUS
    <3>. QED  BY <2>1, <2>2, <2>3 DEF SegmentEnd
  <2>. QED  BY <2>1, <2>3, <2>4
<1>5. /\ num_read = Len(file.lines)
      /\ clauses_with_vars \in
             [1 .. occurrence_offset[file.num_vars + 1] -> 1 .. num_read]
  BY DEF LaidOut
<1>. QED  BY <1>3, <1>4, <1>5

FilledState ==
    FilledUpTo(clauses, count, occurrence_offset, clauses_with_vars, num_filled,
               max_num_breaks_possible)

(* Filled, as a statement about values instead of variables.               *)
LEMMA FilledFacts == Filled <=> FilledState
BY DEF Filled, FilledState, FilledUpTo, SegmentStart, StartOf, RankIn, With, WithIn

-----------------------------------------------------------------------------
(* The segments are laid out.                                              *)
LEMMA FirstLaidOut ==
    ASSUME LinesRead, num_filled = 0, LayOut, pc' = "fill"
    PROVE  LinesRead' /\ LaidOut' /\ Filled'
<1>. DEFINE n == file.num_vars
            off == [v \in 1 .. n + 1 |-> Offset(count, v)]
            slots == [slot \in 1 .. Offset(count, n + 1) |-> 1]
<1>1. /\ num_read = Len(file.lines)
      /\ occurrence_offset' = off /\ clauses_with_vars' = slots
      /\ UNCHANGED <<file, num_read, clauses, count, num_filled>>
  BY DEF LayOut, OffsetOf, Offset
<1>2. LinesRead'
  BY <1>1 DEF LinesRead, With, Literals, Variables
<1>3. /\ n \in Nat /\ count \in [LiteralsOf(n) -> Nat] /\ num_read \in Nat
      /\ Formula(n, num_read, clauses, count)
  BY FormulaFacts
<1>4. \A v \in 1 .. n + 1 : Offset(count, v) \in Nat
  BY <1>3, OffsetNatural
<1>5. off \in [1 .. n + 1 -> Nat]
  BY <1>4
<1>6. ASSUME NEW v \in 1 .. n
      PROVE  off[v + 1] = off[v] + count[-v] + count[v]
  <2>1. v \in 1 .. n + 1 /\ v + 1 \in 1 .. n + 1
    BY <1>3
  <2>2. Offset(count, v + 1) = Offset(count, v) + count[-v] + count[v]
    BY <1>3, OffsetNext
  <2>. QED  BY <2>1, <2>2
<1>7. slots \in [1 .. off[n + 1] -> 1 .. num_read]
  <2>1. n + 1 \in 1 .. n + 1
    BY <1>3
  <2>2. off[n + 1] = Offset(count, n + 1) /\ Offset(count, n + 1) \in Nat
    BY <1>4, <2>1
  <2>3. CASE num_read > 0
    <3>1. 1 \in 1 .. num_read
      BY <1>3, <2>3
    <3>. QED  BY <2>2, <3>1
  <2>4. CASE num_read = 0
    <3>1. ASSUME NEW lit \in LiteralsOf(n) PROVE count[lit] = 0
      <4>. DEFINE z == 0
      <4>1. count[lit] = Cardinality(WithIn(clauses, lit, num_read))
        BY <1>3 DEF Formula
      <4>2. Cardinality(WithIn(clauses, lit, 0)) = 0
        <5>1. z \in Nat
          OBVIOUS
        <5>. HIDE DEF z
        <5>2. Cardinality(WithIn(clauses, lit, 0)) = 0
          BY <5>1, WithNext
        <5>. QED  BY <5>2
      <4>. QED  BY <2>4, <4>1, <4>2
    <3>2. Offset(count, n + 1) = 0
      BY <1>3, <2>1, <3>1, OffsetNatural
    <3>. DEFINE z == Offset(count, n + 1)
                w == off[n + 1]
    <3>3. z = 0 /\ w = z
      BY <2>2, <3>2
    <3>. HIDE DEF z, w, off
    <3>4. 1 .. z = {} /\ 1 .. w = {}
      BY <3>3
    <3>5. [slot \in 1 .. z |-> 1] \in [1 .. w -> 1 .. num_read]
      BY <3>4
    <3>. QED  BY <3>5 DEF z, w
  <2>. QED
    <3>1. num_read > 0 \/ num_read = 0
      BY <1>3
    <3>. HIDE DEF off, slots
    <3>. QED  BY <2>3, <2>4, <3>1
<1>. HIDE DEF off, slots
<1>8. LaidOut'
  BY <1>1, <1>5, <1>6, <1>7 DEF LaidOut, Variables, n
<1>9. Filled'
  BY <1>1 DEF Filled
<1>. QED  BY <1>2, <1>8, <1>9

(* One more clause is entered.                                             *)
LEMMA NextFilled ==
    ASSUME LinesRead, LaidOut, Filled, num_filled \in 0 .. num_read,
           max_num_breaks_possible \in Nat, FillClause
    PROVE  /\ LinesRead' /\ LaidOut' /\ Filled'
           /\ max_num_breaks_possible' \in Nat
           /\ num_filled' = num_filled + 1 /\ num_filled' \in 0 .. num_read'
<1>. DEFINE n == file.num_vars
            m == num_read
            k == num_filled
            off == occurrence_offset
            slots == clauses_with_vars
            before == max_num_breaks_possible
            clause == ToSet(clauses[k + 1])
            S == {SegmentEnd(lit) - SegmentStart(lit) : lit \in clause} \cup {before}
            most == Max(S)
<1>1. /\ k < Len(clauses) /\ num_filled' = k + 1
      /\ UNCHANGED <<file, num_read, clauses, count, occurrence_offset>>
      /\ max_num_breaks_possible' = most
      /\ clauses_with_vars' =
             [slot \in DOMAIN slots |->
                 IF \E lit \in clause : slot = FillSlot(lit) THEN k + 1 ELSE slots[slot]]
  BY DEF FillClause
<1>2. LinesRead'
  BY <1>1 DEF LinesRead, With, Literals, Variables
<1>3. /\ n \in Nat /\ m \in Nat /\ Len(clauses) = m
      /\ Formula(n, m, clauses, count)
      /\ \A lit \in Literals : count[lit] \in 0 .. CntMax
  BY FormulaFacts
<1>4. /\ Layout(n, count, off)
      /\ slots \in [1 .. off[n + 1] -> 1 .. m]
      /\ \A lit \in Literals : SegmentEnd(lit) - SegmentStart(lit) = count[lit]
  BY LayoutFacts
<1>5. k \in 0 .. m - 1 /\ k + 1 \in 1 .. m /\ before \in Nat /\ CntMax \in Nat
      /\ Literals = LiteralsOf(n)
  <2>1. file \in Files
    BY DEF LinesRead
  <2>. QED  BY <1>1, <1>3, <2>1, FileFacts
<1>6. clause \subseteq Literals
  BY <1>3, <1>5 DEF Formula
<1>7. /\ IsFiniteSet(S) /\ S # {} /\ S \subseteq Nat
      /\ \A lit \in clause : count[lit] \in S
      /\ before \in S
  <2>1. \A lit \in clause : SegmentEnd(lit) - SegmentStart(lit) = count[lit] /\ count[lit] \in 0 .. CntMax
    BY <1>3, <1>4, <1>6
  <2>2. {SegmentEnd(lit) - SegmentStart(lit) : lit \in clause} \subseteq 0 .. CntMax
    BY <2>1
  <2>3. IsFiniteSet(0 .. CntMax)
    <3>1. 0 \in Int /\ CntMax \in Int
      BY <1>5
    <3>. QED  BY <3>1, FS_Interval
  <2>4. IsFiniteSet({SegmentEnd(lit) - SegmentStart(lit) : lit \in clause})
    BY <2>2, <2>3, FS_Subset
  <2>5. IsFiniteSet(S)
    BY <2>4, FS_AddElement
  <2>6. S \subseteq Nat
    BY <1>5, <2>2
  <2>. QED  BY <2>1, <2>5, <2>6
<1>8. most \in S /\ \A x \in S : x <= most
  <2>. HIDE DEF S
  <2>. QED  BY <1>7, FiniteMax DEF most
<1>9. most \in Nat /\ before <= most /\ \A lit \in clause : count[lit] <= most
  <2>. HIDE DEF S, most
  <2>. QED  BY <1>7, <1>8
<1>10. FilledUpTo(clauses, count, off, slots, k, before)
  BY FilledFacts DEF FilledState
<1>11. clauses_with_vars' = WithClause(clauses, count, off, slots, k)
  <2>1. \A lit : FillSlot(lit) = SlotOf(clauses, count, off, lit, k)
    BY DEF FillSlot, SlotOf, SegmentStart, StartOf, Initialized, RankIn, WithIn
  <2>. QED  BY <1>1, <2>1 DEF WithClause
<1>12. /\ WithClause(clauses, count, off, slots, k) \in [1 .. off[n + 1] -> 1 .. m]
       /\ FilledUpTo(clauses, count, off, WithClause(clauses, count, off, slots, k), k + 1, most)
  <2>1. \A lit \in ToSet(clauses[k + 1]) : count[lit] <= most
    BY <1>9
  <2>. HIDE DEF n, m, k, off, slots, before, most
  <2>. QED  BY <1>3, <1>4, <1>5, <1>9, <1>10, <2>1, FillNext
<1>. HIDE DEF most
<1>13. LaidOut'
  <2>1. m = Len(file.lines)
    BY LayoutFacts
  <2>2. clauses_with_vars' \in [1 .. off[n + 1] -> 1 .. Len(file.lines)]
    BY <1>11, <1>12, <2>1
  <2>. QED  BY <1>1, <2>2 DEF LaidOut, Variables
<1>14. Filled'
  <2>1. FilledUpTo(clauses', count', occurrence_offset', clauses_with_vars',
                   num_filled', max_num_breaks_possible')
    BY <1>1, <1>11, <1>12
  <2>. QED  BY <2>1 DEF Filled, FilledUpTo, SegmentStart, StartOf, RankIn, With, WithIn
<1>15. num_filled' \in 0 .. num_read'
  BY <1>1, <1>3, <1>5
<1>. QED  BY <1>1, <1>2, <1>9, <1>13, <1>14, <1>15

-----------------------------------------------------------------------------
(* What a loop of flip_literal visits.                                     *)
LEMMA SegmentFacts ==
    ASSUME FormulaInv, Searching, NEW lit \in Literals
    PROVE  /\ Segment(lit) \in Seq(AllClauses)
           /\ ToSet(Segment(lit)) = ClausesWith(lit)
           /\ \A i, j \in DOMAIN Segment(lit) :
                  i < j => Segment(lit)[i] < Segment(lit)[j]
<1>. DEFINE n == file.num_vars
            m == num_read
            cs == clauses
            off == occurrence_offset
            slots == clauses_with_vars
            cnt == count
            most == max_num_breaks_possible
<1>1. LinesRead /\ LaidOut /\ Filled /\ num_filled = m
  BY DEF FormulaInv
<1>2. /\ n \in Nat /\ m \in Nat /\ Len(clauses) = m /\ Formula(n, m, cs, cnt)
  BY <1>1, FormulaFacts
<1>3. /\ Layout(n, cnt, off) /\ slots \in [1 .. off[n + 1] -> 1 .. m]
      /\ SegmentStart(lit) = StartOf(cnt, off, lit)
      /\ SegmentEnd(lit) = StartOf(cnt, off, lit) + cnt[lit]
  BY <1>1, LayoutFacts
<1>4. FilledUpTo(cs, cnt, off, slots, m, most)
  BY <1>1, FilledFacts DEF FilledState
<1>5. lit \in LiteralsOf(n)
  BY <1>1, FileFacts DEF LinesRead
<1>6. PICK s : s = Segment(lit)
  OBVIOUS
<1>7. s = Listed(slots, cnt, off, lit)
  BY <1>3, <1>6 DEF Segment, Listed
<1>. HIDE DEF n, m, cs, cnt, off, slots, most
<1>8. /\ s \in Seq(1 .. m)
      /\ ToSet(s) = WithIn(cs, lit, m)
      /\ \A i, j \in DOMAIN s : i < j => s[i] < s[j]
  BY <1>2, <1>3, <1>4, <1>5, <1>7, SegmentListed
<1>9. AllClauses = 1 .. m
  BY <1>2 DEF AllClauses
<1>10. ClausesWith(lit) = WithIn(cs, lit, m)
  BY <1>2 DEF ClausesWith, WithIn, cs
<1>. QED  BY <1>6, <1>8, <1>9, <1>10

(* The steps that leave the formula alone.                                 *)
Proceeds ==
    \/ pc' = pc
    \/ pc = "read" /\ pc' = "failed"
    \/ pc = "fill" /\ num_filled = num_read /\ Searching'
    \/ Searching /\ Searching'

(* A step that leaves the formula alone keeps what is known of it.         *)
LEMMA FormulaKept ==
    ASSUME FormulaInv, UNCHANGED cnf_vars, Proceeds
    PROVE  FormulaInv'
<1>1. UNCHANGED <<file, num_read, clauses, count, occurrence_offset,
                  clauses_with_vars, num_filled, max_num_breaks_possible>>
  BY DEF cnf_vars
<1>2. LinesRead'
  BY <1>1 DEF FormulaInv, LinesRead, With, Literals, Variables
<1>3. LaidOut => LaidOut'
  BY <1>1 DEF LaidOut, Variables
<1>4. Filled => Filled'
  BY <1>1 DEF Filled, SegmentStart, With
<1>5. num_filled' \in 0 .. num_read' /\ max_num_breaks_possible' \in Nat
  BY <1>1 DEF FormulaInv
<1>6. (pc' = "read" \/ pc' = "failed") =>
          num_filled' = 0 /\ clauses_with_vars' = <<>>
  BY <1>1 DEF FormulaInv, Searching, Proceeds
<1>7. (pc' = "fill" \/ Searching') => LaidOut' /\ Filled'
  BY <1>3, <1>4 DEF FormulaInv, Searching, Proceeds
<1>8. Searching' => num_filled' = num_read'
  BY <1>1 DEF FormulaInv, Searching, Proceeds
<1>. QED  BY <1>2, <1>5, <1>6, <1>7, <1>8 DEF FormulaInv

(* Before anything is read.                                                *)
LEMMA FormulaInit ==
    ASSUME Init
    PROVE  FormulaInv
<1>1. /\ file \in Files /\ pc = "read" /\ num_read = 0 /\ clauses = <<>>
      /\ count = [lit \in Literals |-> 0] /\ clauses_with_vars = <<>>
      /\ num_filled = 0 /\ max_num_breaks_possible = 0
  BY DEF Init, CnfInit
<1>2. CntMax \in Nat /\ Len(file.lines) \in Nat
  BY <1>1, FileFacts
<1>3. clauses \in Seq(Seq(Literals)) /\ Len(clauses) = 0
  BY <1>1, EmptySeq
<1>4. \A lit \in Literals : count[lit] = Cardinality(With(lit, num_read))
  <2>1. \A lit : With(lit, 0) = {}
    BY DEF With
  <2>. QED  BY <1>1, <2>1, FS_EmptySet
<1>5. count \in [Literals -> 0 .. CntMax]
  BY <1>1, <1>2
<1>6. LinesRead
  <2>1. num_read \in 0 .. Len(file.lines)
    BY <1>1, <1>2
  <2>2. \A c \in 1 .. num_read : clauses[c] = file.lines[c] /\ IsClean(clauses[c])
    BY <1>1
  <2>. QED  BY <1>1, <1>3, <1>4, <1>5, <2>1, <2>2 DEF LinesRead
<1>. QED  BY <1>1, <1>6 DEF FormulaInv, Searching

(* Every step keeps what is known of the formula.                          *)
LEMMA FormulaNext ==
    ASSUME NoTautologies, FormulaInv, [Next]_vars
    PROVE  FormulaInv'
<1>1. LinesRead /\ num_filled \in 0 .. num_read /\ max_num_breaks_possible \in Nat
      /\ num_read \in Nat /\ Len(clauses) = num_read
  BY FormulaFacts DEF FormulaInv
<1>2. CASE ParseClause
  <2>1. LinesRead'
    BY <1>1, <1>2, LineParsed
  <2>2. /\ num_filled = 0 /\ num_filled' = 0 /\ num_read' = num_read + 1 /\ pc' = "read"
        /\ clauses_with_vars' = <<>> /\ max_num_breaks_possible' \in Nat
    BY <1>1, <1>2 DEF ParseClause, FormulaInv
  <2>3. num_filled' \in 0 .. num_read'
    BY <1>1, <2>2
  <2>. QED  BY <2>1, <2>2, <2>3 DEF FormulaInv, Searching
<1>3. CASE RejectClause
  BY <1>3, FormulaKept DEF RejectClause, Proceeds
<1>4. CASE LayOut
  <2>1. pc = "read" /\ num_filled = 0 /\ clauses_with_vars = <<>>
        /\ UNCHANGED <<file, num_read, clauses, count, num_filled, max_num_breaks_possible>>
    BY <1>4 DEF LayOut, FormulaInv
  <2>2. CASE pc' = "fill"
    <3>1. LinesRead' /\ LaidOut' /\ Filled'
      BY <1>1, <1>4, <2>1, <2>2, FirstLaidOut
    <3>. QED  BY <1>1, <2>1, <2>2, <3>1 DEF FormulaInv, Searching
  <2>3. CASE pc' # "fill"
    <3>1. pc' = "failed" /\ UNCHANGED <<occurrence_offset, clauses_with_vars>>
      BY <1>4, <2>3 DEF LayOut
    <3>. QED  BY <2>1, <3>1, FormulaKept DEF cnf_vars, Proceeds
  <2>. QED  BY <2>2, <2>3
<1>5. CASE FillClause
  <2>1. pc = "fill" /\ pc' = "fill" /\ LaidOut /\ Filled
    BY <1>5 DEF FillClause, FormulaInv
  <2>2. /\ LinesRead' /\ LaidOut' /\ Filled'
        /\ max_num_breaks_possible' \in Nat
        /\ num_filled' \in 0 .. num_read'
    BY <1>1, <1>5, <2>1, NextFilled
  <2>. QED  BY <2>1, <2>2 DEF FormulaInv, Searching
<1>6. CASE Configure
  <2>1. \/ pc = "fill" /\ num_filled = num_read
        \/ pc = "again"
    BY <1>1, <1>6 DEF Configure
  <2>2. pc' = "while" /\ UNCHANGED cnf_vars
    BY <1>6 DEF Configure, Construct
  <2>. QED  BY <2>1, <2>2, FormulaKept DEF Searching, Proceeds
<1>7. CASE Flip
  <2>1. pc \in {"while", "break", "make"} /\ pc' \in {"break", "make"} /\ UNCHANGED cnf_vars
    BY <1>7 DEF Flip, DoFlip, BreakClause, BreakDone, MakeClause
  <2>. QED  BY <2>1, FormulaKept DEF Searching, Proceeds
<1>8. CASE AfterFlip
  <2>1. pc = "make" /\ pc' \in {"while", "stop"} /\ UNCHANGED cnf_vars
    BY <1>8 DEF AfterFlip, MakeDone
  <2>. QED  BY <2>1, FormulaKept DEF Searching, Proceeds
<1>9. CASE Solved
  <2>1. pc \in {"while", "stop"} /\ pc' = "done" /\ UNCHANGED cnf_vars
    BY <1>9 DEF Solved
  <2>. QED  BY <2>1, FormulaKept DEF Searching, Proceeds
<1>10. CASE Unsolved
  <2>1. pc = "stop" /\ pc' \in {"again", "done"} /\ UNCHANGED cnf_vars
    BY <1>10 DEF Unsolved
  <2>. QED  BY <2>1, FormulaKept DEF Searching, Proceeds
<1>11. CASE UNCHANGED vars
  BY <1>11, FormulaKept DEF vars, Proceeds
<1>. QED
  BY <1>2, <1>3, <1>4, <1>5, <1>6, <1>7, <1>8, <1>9, <1>10, <1>11
     DEF Next, ReadFormula

-----------------------------------------------------------------------------
(* Counted as a function of the state: how a step changes it.              *)
Taken(cs, a, lit, td, phase, c) ==
    LET now == TrueIn(cs[c], a)
    IN  IF phase = "break"
        THEN IF c \notin ToSet(td) THEN now \ {-lit} ELSE now
        ELSE IF phase = "make"
        THEN (now \ {-lit})
                 \cup (IF c \notin ToSet(td) THEN {lit} \cap ToSet(cs[c]) ELSE {})
        ELSE now

TakenIn(m, cs, a, lit, td, phase) ==
    [c \in 1 .. m |-> Taken(cs, a, lit, td, phase, c)]

(* What the lists count, as a function of values, now and after a step.    *)
LEMMA CountedIsTaken ==
    /\ CountedIn = TakenIn(Len(clauses), clauses, ValueOf(belegung), literal, todo, pc)
    /\ CountedIn' = TakenIn(Len(clauses'), clauses', ValueOf(belegung)', literal',
                            todo', pc')
BY DEF CountedIn, Counted, TakenIn, Taken, TrueLiterals, TrueIn, AllClauses

ClausesOver(n, m, cs) == \A c \in 1 .. m : ToSet(cs[c]) \subseteq LiteralsOf(n)

(* What the lists count in a clause are literals of the clause.            *)
LEMMA TakenTyped ==
    ASSUME NEW n \in Nat, NEW m \in Nat, NEW cs, ClausesOver(n, m, cs),
           NEW a, NEW lit, NEW td, NEW phase
    PROVE  /\ TakenIn(m, cs, a, lit, td, phase) \in [1 .. m -> SUBSET LiteralsOf(n)]
           /\ \A c \in 1 .. m : /\ TakenIn(m, cs, a, lit, td, phase)[c] =
                                       Taken(cs, a, lit, td, phase, c)
                                /\ Taken(cs, a, lit, td, phase, c)
                                       \subseteq ToSet(cs[c])
<1>1. ASSUME NEW c \in 1 .. m
      PROVE  Taken(cs, a, lit, td, phase, c) \subseteq ToSet(cs[c])
  BY DEF Taken, TrueIn
<1>2. \A c \in 1 .. m : Taken(cs, a, lit, td, phase, c) \in SUBSET LiteralsOf(n)
  BY <1>1 DEF ClausesOver
<1>. QED  BY <1>1, <1>2 DEF TakenIn

Lists(td, m, cs, lit) ==
    \A c \in 1 .. m : lit \in ToSet(cs[c]) => c \in ToSet(td)

(* At the start of the break loop and between the loops the counted sets do*)
(* not jump.                                                               *)
LEMMA TakenBetween ==
    ASSUME NEW m, NEW cs, NEW a, NEW lit, NEW td, NEW other, NEW phase,
           phase \notin {"break", "make"}
    PROVE  /\ Lists(td, m, cs, -lit) =>
                  TakenIn(m, cs, a, lit, td, "break") =
                      TakenIn(m, cs, a, other, <<>>, phase)
           /\ Lists(td, m, cs, lit) =>
                  TakenIn(m, cs, a, lit, td, "make") =
                      TakenIn(m, cs, a, lit, <<>>, "break")
<1>1. \A c \in 1 .. m : Taken(cs, a, other, <<>>, phase, c) = TrueIn(cs[c], a)
  BY DEF Taken
<1>2. ASSUME Lists(td, m, cs, -lit), NEW c \in 1 .. m
      PROVE  Taken(cs, a, lit, td, "break", c) = TrueIn(cs[c], a)
  <2>1. c \notin ToSet(td) => -lit \notin ToSet(cs[c])
    BY <1>2 DEF Lists
  <2>. QED  BY <2>1 DEF Taken, TrueIn
<1>3. \A c : c \notin ToSet(<<>>)
  BY DEF ToSet
<1>4. ASSUME Lists(td, m, cs, lit), NEW c \in 1 .. m
      PROVE  Taken(cs, a, lit, td, "make", c) = Taken(cs, a, lit, <<>>, "break", c)
  <2>1. c \notin ToSet(td) => lit \notin ToSet(cs[c])
    BY <1>4 DEF Lists
  <2>. QED  BY <1>3, <2>1 DEF Taken
<1>. QED  BY <1>1, <1>2, <1>4 DEF TakenIn

(* The clause at the head of todo is left behind.                          *)
Becomes(U, T, c, S) == U = [T EXCEPT ![c] = S]

(* A visit of the break loop takes the old literal away from one clause.   *)
LEMMA TakenNext ==
    ASSUME NEW m, NEW cs, NEW a, NEW lit, NEW td, NEW rest, NEW c \in 1 .. m,
           ToSet(td) = ToSet(rest) \cup {c}, c \notin ToSet(rest)
    PROVE  Becomes(TakenIn(m, cs, a, lit, rest, "break"),
                   TakenIn(m, cs, a, lit, td, "break"), c,
                   TakenIn(m, cs, a, lit, td, "break")[c] \ {-lit})
<1>1. \A d \in 1 .. m : d # c => (d \in ToSet(rest) <=> d \in ToSet(td))
  OBVIOUS
<1>2. c \in ToSet(td)
  OBVIOUS
<1>3. \A phase : \A d \in 1 .. m : d # c =>
          Taken(cs, a, lit, rest, phase, d) = Taken(cs, a, lit, td, phase, d)
  BY <1>1 DEF Taken
<1>4. Taken(cs, a, lit, rest, "break", c) = Taken(cs, a, lit, td, "break", c) \ {-lit}
  BY <1>2 DEF Taken
<1>. QED  BY <1>3, <1>4 DEF TakenIn, Becomes

(* A visit of the make loop adds the new literal to one clause.            *)
LEMMA GainedNext ==
    ASSUME NEW m, NEW cs, NEW a, NEW td, NEW rest, NEW c \in 1 .. m,
           NEW lit \in ToSet(cs[c]),
           ToSet(td) = ToSet(rest) \cup {c}, c \notin ToSet(rest)
    PROVE  Becomes(TakenIn(m, cs, a, lit, rest, "make"),
                   TakenIn(m, cs, a, lit, td, "make"), c,
                   TakenIn(m, cs, a, lit, td, "make")[c] \cup {lit})
<1>1. \A d \in 1 .. m : d # c => (d \in ToSet(rest) <=> d \in ToSet(td))
  OBVIOUS
<1>2. c \in ToSet(td)
  OBVIOUS
<1>3. \A d \in 1 .. m : d # c =>
          Taken(cs, a, lit, rest, "make", d) = Taken(cs, a, lit, td, "make", d)
  BY <1>1 DEF Taken
<1>4. Taken(cs, a, lit, rest, "make", c) = Taken(cs, a, lit, td, "make", c) \cup {lit}
  BY <1>2 DEF Taken
<1>. QED  BY <1>3, <1>4 DEF TakenIn, Becomes

(* The value of the variable is changed at the end of the flip.            *)
LEMMA TakenFlipped ==
    ASSUME NEW n \in Nat, NEW m \in Nat, NEW cs, ClausesOver(n, m, cs),
           NEW a \in Bits(n), NEW lit \in LiteralsOf(n), ~IsTrue(lit, a),
           NEW other, NEW phase, phase \notin {"break", "make"}
    PROVE  TakenIn(m, cs, [a EXCEPT ![Abs(lit)] = ~@], other, <<>>, phase) =
               TakenIn(m, cs, a, lit, <<>>, "make")
<1>. DEFINE v == Abs(lit)
            b == [a EXCEPT ![v] = ~@]
<1>1. /\ v \in 1 .. n /\ lit \in Int /\ lit # 0 /\ (lit = v \/ lit = -v)
      /\ \A l \in LiteralsOf(n) : /\ l \in Int /\ l # 0
                                  /\ Abs(l) \in 1 .. n /\ (l = Abs(l) \/ l = -Abs(l))
  BY LiteralsFinite
<1>2. /\ b[v] = ~a[v] /\ a[v] \in BOOLEAN
      /\ \A u \in 1 .. n : u # v => b[u] = a[u]
  BY <1>1 DEF Bits
<1>. HIDE DEF b
<1>3. ASSUME NEW l \in LiteralsOf(n)
      PROVE  IsTrue(l, b) <=> (IsTrue(l, a) /\ l # -lit) \/ l = lit
  <2>1. CASE Abs(l) # v
    <3>1. l # lit /\ l # -lit
      <4>1. Abs(-lit) = v
        BY <1>1 DEF Abs
      <4>. QED  BY <2>1, <4>1
    <3>2. b[Abs(l)] = a[Abs(l)]
      BY <1>1, <1>2, <2>1
    <3>. QED  BY <3>1, <3>2 DEF IsTrue
  <2>2. CASE Abs(l) = v
    <3>1. l = lit \/ l = -lit
      BY <1>1, <2>2
    <3>2. a[v] # (lit > 0)
      BY DEF IsTrue
    <3>3. CASE l = lit
      BY <1>2, <2>2, <3>2, <3>3 DEF IsTrue
    <3>4. CASE l = -lit
      <4>1. (l > 0) = ~(lit > 0) /\ l # lit
        BY <1>1, <3>4
      <4>2. b[v] # (l > 0)
        BY <1>2, <3>2, <4>1
      <4>. QED  BY <2>2, <3>4, <4>1, <4>2 DEF IsTrue
    <3>. QED  BY <3>1, <3>3, <3>4
  <2>. QED  BY <2>1, <2>2
<1>4. ASSUME NEW c \in 1 .. m
      PROVE  Taken(cs, b, other, <<>>, phase, c) = Taken(cs, a, lit, <<>>, "make", c)
  <2>1. ToSet(cs[c]) \subseteq LiteralsOf(n) /\ c \notin ToSet(<<>>)
    BY DEF ClausesOver, ToSet
  <2>2. Taken(cs, b, other, <<>>, phase, c) = TrueIn(cs[c], b)
    BY DEF Taken
  <2>3. Taken(cs, a, lit, <<>>, "make", c) =
            (TrueIn(cs[c], a) \ {-lit}) \cup ({lit} \cap ToSet(cs[c]))
    BY <2>1 DEF Taken
  <2>4. TrueIn(cs[c], b) = (TrueIn(cs[c], a) \ {-lit}) \cup ({lit} \cap ToSet(cs[c]))
    <3>1. lit # -lit
      BY <1>1
    <3>2. \A l \in ToSet(cs[c]) : IsTrue(l, b) <=> (IsTrue(l, a) /\ l # -lit) \/ l = lit
      BY <1>3, <2>1
    <3>. QED  BY <3>1, <3>2 DEF TrueIn
  <2>. QED  BY <2>2, <2>3, <2>4
<1>. QED  BY <1>4 DEF TakenIn, b

-----------------------------------------------------------------------------
(* The search starts.                                                      *)
LEMMA ClauseFacts ==
    ASSUME LinesRead
    PROVE  /\ file.num_vars \in Nat \ {0} /\ Len(clauses) \in Nat
           /\ ClausesOver(file.num_vars, Len(clauses), clauses)
           /\ \A c \in 1 .. Len(clauses) :
                  clauses[c] \in Seq(LiteralsOf(file.num_vars)) /\ IsClean(clauses[c])
           /\ AllClauses = 1 .. Len(clauses)
           /\ Variables = 1 .. file.num_vars
           /\ Literals = LiteralsOf(file.num_vars)
           /\ num_read = Len(clauses)
<1>1. /\ file \in Files /\ Len(clauses) = num_read
      /\ \A c \in 1 .. num_read : IsClean(clauses[c])
  BY DEF LinesRead
<1>2. /\ num_read \in Nat
      /\ \A c \in 1 .. num_read : clauses[c] \in Seq(LiteralsOf(file.num_vars))
      /\ Formula(file.num_vars, num_read, clauses, count)
  BY FormulaFacts
<1>3. ClausesOver(file.num_vars, Len(clauses), clauses)
  BY <1>1, <1>2 DEF Formula, ClausesOver
<1>4. file.num_vars \in Nat \ {0} /\ Literals = LiteralsOf(file.num_vars)
  BY <1>1, FileFacts
<1>. QED  BY <1>1, <1>2, <1>3, <1>4 DEF AllClauses, Variables

(* get_first_satisfied_literal finds the one true literal of a clause.     *)
LEMMA FirstCounts ==
    ASSUME NEW n \in Nat, NEW clause \in Seq(LiteralsOf(n)), IsClean(clause), NEW a
    PROVE  IF Cardinality(TrueIn(clause, a)) = 1
           THEN FirstTrueLiteral(clause, a, 0) \in TrueIn(clause, a)
           ELSE TRUE
<1>. DEFINE z == 0
            S == TrueIn(clause, a)
<1>1. IsFiniteSet(S) /\ S \in SUBSET LiteralsOf(n)
  BY TrueOfClause
<1>2. \A x \in S : x # z
  BY <1>1, LiteralsFinite
<1>3. S \ {z} = S
  BY <1>2
<1>4. Cardinality(S) = 1 => S # {}
  <2>. HIDE DEF S
  <2>. QED  BY <1>1, SizeOfSet
<1>. HIDE DEF z
<1>5. IF S \ {z} = {} THEN FirstTrueLiteral(clause, a, z) = 0
      ELSE FirstTrueLiteral(clause, a, z) \in S \ {z}
  BY FirstTrueFound
<1>6. Cardinality(S) = 1 => FirstTrueLiteral(clause, a, z) \in S
  BY <1>3, <1>4, <1>5
<1>. QED  BY <1>6 DEF z

(* The constructor of serial_instance establishes the search part of the   *)
(* invariant.                                                              *)
LEMMA Constructed ==
    ASSUME LinesRead, NEW b, NEW values,
           IsBitfield(b, file.num_vars), ValueOf(b) = values,
           values \in Bits(file.num_vars), b.last_mod_index # NoIndex,
           Construct(b), pc' = "while"
    PROVE  SearchInv'
<1>. DEFINE n == file.num_vars
            m == Len(clauses)
            T == [c \in 1 .. m |-> TrueIn(clauses[c], values)]
            crit == [c \in 1 .. m |-> InitialCritical(c, values)]
            U == EmptyAmong(m, T)
<1>1. /\ n \in Nat /\ m \in Nat /\ AllClauses = 1 .. m /\ Variables = 1 .. n
      /\ \A c \in 1 .. m : clauses[c] \in Seq(LiteralsOf(n)) /\ IsClean(clauses[c])
  BY ClauseFacts
<1>2. ASSUME NEW c \in 1 .. m
      PROVE  /\ NumSatLit(c, values) = Cardinality(TrueIn(clauses[c], values))
             /\ TrueIn(clauses[c], values) \in SUBSET LiteralsOf(n)
             /\ Cardinality(TrueIn(clauses[c], values)) = 0 <=> TrueIn(clauses[c], values) = {}
             /\ IF Cardinality(TrueIn(clauses[c], values)) = 1
                THEN InitialCritical(c, values) \in TrueIn(clauses[c], values)
                ELSE InitialCritical(c, values) = 0
             /\ InitialCritical(c, values) \in Int
  <2>. DEFINE S == TrueIn(clauses[c], values)
  <2>. PICK clause : clause = clauses[c] /\ clause \in Seq(LiteralsOf(n)) /\ IsClean(clause)
    BY <1>1
  <2>1. /\ Cardinality(TruePlaces(clause, values)) = Cardinality(TrueIn(clause, values))
        /\ TrueIn(clause, values) \in SUBSET LiteralsOf(n)
        /\ IsFiniteSet(TrueIn(clause, values))
    BY <1>1, TrueOfClause
  <2>2. IF Cardinality(TrueIn(clause, values)) = 1
        THEN FirstTrueLiteral(clause, values, 0) \in TrueIn(clause, values)
        ELSE TRUE
    BY <1>1, FirstCounts
  <2>3. NumSatLit(c, values) = Cardinality(S)
    BY <2>1 DEF NumSatLit
  <2>4. IF Cardinality(S) = 1 THEN InitialCritical(c, values) \in S
        ELSE InitialCritical(c, values) = 0
    BY <2>2, <2>3 DEF InitialCritical
  <2>5. S \in SUBSET LiteralsOf(n) /\ IsFiniteSet(S) /\ \A x \in S : x \in Int
    BY <1>1, <2>1, LiteralsFinite
  <2>6. Cardinality(S) = 0 <=> S = {}
    <3>. HIDE DEF S
    <3>. QED  BY <2>5, SizeOfSet
  <2>. HIDE DEF S
  <2>7. InitialCritical(c, values) \in Int
    BY <2>4, <2>5
  <2>. QED  BY <2>3, <2>4, <2>5, <2>6, <2>7 DEF S
<1>3. /\ T \in [1 .. m -> SUBSET LiteralsOf(n)]
      /\ crit \in [1 .. m -> Int]
      /\ \A c \in 1 .. m : IF Cardinality(T[c]) = 1 THEN crit[c] \in T[c]
                           ELSE crit[c] = 0
  BY <1>2
<1>4. ListsAgree(m, n, T, ListOf(U), IndexOf(m, U, T), crit, BreaksOf(m, n, crit))
  <2>. HIDE DEF T, crit, m, n
  <2>. QED  BY <1>1, <1>3, FirstLists
<1>5. Unsatisfied(values) = U
  BY <1>1, <1>2 DEF Unsatisfied, EmptyAmong
<1>6. /\ belegung' = b
      /\ unsat_clauses' = ListOf(U)
      /\ unsat_clauses_location' = IndexOf(m, U, T)
      /\ crit_literal_in_clause' = crit
      /\ literal' = 0 /\ todo' = <<>>
      /\ UNCHANGED <<file, clauses>>
  <2>1. [c \in AllClauses |-> IF c \in U THEN PlaceAmong(U, c) ELSE -NumSatLit(c, values)]
            = IndexOf(m, U, T)
    <3>1. \A c \in 1 .. m : NumSatLit(c, values) = Cardinality(T[c])
      BY <1>2
    <3>. HIDE DEF T, U
    <3>. QED  BY <1>1, <3>1 DEF IndexOf
  <2>. HIDE DEF T, U
  <2>. QED  BY <1>1, <1>5, <2>1 DEF Construct, ListOf, cnf_vars
<1>7. num_breaks_by_flip' = BreaksOf(m, n, crit)
  <2>1. \A v : {c \in 1 .. m : InitialCritical(c, values) \in {v, -v}} =
               {c \in 1 .. m : crit[c] \in {v, -v}}
    OBVIOUS
  <2>2. num_breaks_by_flip' =
            [v \in 1 .. n |-> Cardinality({c \in 1 .. m : InitialCritical(c, values) \in {v, -v}})]
    BY <1>1 DEF Construct
  <2>. HIDE DEF crit
  <2>. QED  BY <2>1, <2>2 DEF BreaksOf
<1>8. CountedIn' = T
  <2>1. CountedIn' = TakenIn(m, clauses, values, 0, <<>>, "while")
    BY <1>6, CountedIsTaken
  <2>. QED  BY <2>1 DEF TakenIn, Taken
<1>. HIDE DEF T, U, crit
<1>9. ListsInv'
  BY <1>4, <1>6, <1>7, <1>8 DEF ListsInv
<1>. QED  BY <1>6, <1>9 DEF SearchInv

(* Uninitialised memory is a bitfield of the right length.                 *)
LEMMA NewIsBitfield ==
    ASSUME NEW n \in Nat \ {0}, NEW b \in NewBitfields(n)
    PROVE  IsBitfield(b, n)
<1>1. b \in [bits : Bits(n), last_mod_index : {0}, last_mod_value : {FALSE}]
  BY DEF NewBitfields, NoIndex, Bits
<1>. DEFINE B == Bits(n)
            I == 0 .. n
<1>2. 0 \in I /\ FALSE \in BOOLEAN
  OBVIOUS
<1>. HIDE DEF B, I
<1>3. {0} \subseteq I /\ {FALSE} \subseteq BOOLEAN
  BY <1>2
<1>4. b \in [bits : B, last_mod_index : I, last_mod_value : BOOLEAN]
  BY <1>1, <1>3 DEF B
<1>. QED  BY <1>4 DEF IsBitfield, B, I

(* A new assignment starts the search with lists that agree with it.       *)
LEMMA Configured ==
    ASSUME FormulaInv, RunInv, Configure
    PROVE  /\ SearchInv'
           /\ ValueOf(belegung') \in Bits(file.num_vars)
           /\ settings.program = "probsat" => IsBitfield(configuration', file.num_vars)
<1>. DEFINE n == file.num_vars
<1>1. LinesRead /\ file \in Files /\ n \in Nat \ {0} /\ Variables = 1 .. n
  BY ClauseFacts DEF FormulaInv, LinesRead
<1>2. PICK b, values :
          /\ b \in IF iteration = 1 THEN NewBitfields(n) ELSE {configuration}
          /\ values \in [1 .. n -> BOOLEAN]
          /\ Construct(AssignAll(b, values))
          /\ configuration' = IF settings.program = "task" THEN NotKept
                              ELSE AssignAll(b, values)
          /\ pc' = "while"
  BY <1>1 DEF Configure
<1>3. IsBitfield(b, n)
  <2>1. CASE iteration = 1
    BY <1>1, <1>2, <2>1, NewIsBitfield
  <2>2. CASE iteration # 1
    <3>1. pc = "again" /\ Searching
      BY <2>2 DEF Configure, RunInv, Searching
    <3>2. settings.program = "probsat"
      BY <1>1, <2>2, SolverAssumption DEF RunInv
    <3>. QED  BY <1>2, <2>2, <3>1, <3>2 DEF RunInv
  <2>. QED  BY <2>1, <2>2
<1>4. values \in Bits(n)
  BY <1>2 DEF Bits
<1>5. /\ IsBitfield(AssignAll(b, values), n)
      /\ ValueOf(AssignAll(b, values)) = values
      /\ AssignAll(b, values).last_mod_index # NoIndex
  <2>. HIDE DEF n
  <2>. QED  BY <1>1, <1>3, <1>4, AssignAllIsRead
<1>6. SearchInv'
  BY <1>1, <1>2, <1>4, <1>5, Constructed
<1>7. belegung' = AssignAll(b, values)
  BY <1>2 DEF Construct
<1>. QED  BY <1>2, <1>4, <1>5, <1>6, <1>7

-----------------------------------------------------------------------------
(* A flip: its literal is chosen.                                          *)
LEMMA BitfieldValue ==
    ASSUME NEW n \in Nat, NEW b, IsBitfield(b, n)
    PROVE  ValueOf(b) \in Bits(n)
BY UpdateKeepsValue DEF IsBitfield

(* The counted sets are sets of literals, one for each clause.             *)
LEMMA CountedTyped ==
    ASSUME LinesRead
    PROVE  /\ CountedIn \in [1 .. Len(clauses) -> SUBSET LiteralsOf(file.num_vars)]
           /\ \A c \in 1 .. Len(clauses) :
                  CountedIn[c] = Taken(clauses, ValueOf(belegung), literal, todo, pc, c)
<1>1. /\ file.num_vars \in Nat /\ Len(clauses) \in Nat
      /\ ClausesOver(file.num_vars, Len(clauses), clauses)
  BY ClauseFacts
<1>2. CountedIn = TakenIn(Len(clauses), clauses, ValueOf(belegung), literal, todo, pc)
  BY CountedIsTaken
<1>. QED  BY <1>1, <1>2, TakenTyped

(* The number of flips is a natural number.                                *)
LEMMA FlipsCounted ==
    ASSUME file \in Files, RunInv
    PROVE  MostFlips \in Nat /\ num_flips_done \in Nat
BY SolverAssumption DEF RunInv, MostFlips

(* do_flip takes a clause that is really unsatisfied.                      *)
LEMMA ClauseChosen ==
    ASSUME LinesRead, num_flips_done \in Nat, ListsInv,
           pc \notin {"break", "make"}, unsat_clauses # <<>>
    PROVE  \E c \in 1 .. Len(clauses) :
               /\ ChosenClause = clauses[c]
               /\ TrueIn(clauses[c], ValueOf(belegung)) = {}
<1>. DEFINE n == file.num_vars
            m == Len(clauses)
            T == CountedIn
            k == Len(unsat_clauses)
            i == (num_flips_done % k) + 1
<1>1. n \in Nat /\ m \in Nat /\ T \in [1 .. m -> SUBSET LiteralsOf(n)]
      /\ \A c \in 1 .. m : T[c] = TrueIn(clauses[c], ValueOf(belegung))
  <2>1. \A c : Taken(clauses, ValueOf(belegung), literal, todo, pc, c) =
                   TrueIn(clauses[c], ValueOf(belegung))
    BY DEF Taken
  <2>. QED  BY <2>1, ClauseFacts, CountedTyped
<1>2. /\ ListAgrees(m, unsat_clauses, unsat_clauses_location)
      /\ CountsAgree(m, T, unsat_clauses_location)
  BY DEF ListsInv, ListsAgree
<1>3. /\ k \in Nat /\ unsat_clauses \in Seq(1 .. m)
      /\ \A j \in 1 .. k : unsat_clauses[j] \in 1 .. m
                           /\ unsat_clauses_location[unsat_clauses[j]] = j - 1
  <2>. HIDE DEF m, T
  <2>. QED  BY <1>1, <1>2, PlacesOfList DEF ListAgrees
<1>4. k > 0
  <2>. DEFINE D == 1 .. m
  <2>. HIDE DEF D
  <2>1. unsat_clauses \in Seq(D)
    BY <1>3 DEF D
  <2>. QED  BY <1>3, <2>1, EmptySeq
<1>5. i \in 1 .. k
  <2>. HIDE DEF k
  <2>1. num_flips_done % k \in 0 .. k - 1
    BY <1>3, <1>4
  <2>. QED  BY <1>3, <1>4, <2>1
<1>6. PICK c : c = unsat_clauses[i]
  OBVIOUS
<1>7. c \in 1 .. m /\ unsat_clauses_location[c] = i - 1
  BY <1>3, <1>5, <1>6
<1>8. unsat_clauses_location[c] >= 0
  <2>. HIDE DEF i
  <2>. QED  BY <1>3, <1>5, <1>7
<1>9. T[c] = {}
  <2>. HIDE DEF m, T, n
  <2>. PICK S : S = T
    OBVIOUS
  <2>a. n \in Nat /\ m \in Nat /\ S \in [1 .. m -> SUBSET LiteralsOf(n)]
    BY <1>1
  <2>b. CountsAgree(m, S, unsat_clauses_location) /\ c \in 1 .. m
    BY <1>2, <1>7
  <2>1. /\ IsFiniteSet(S[c]) /\ Cardinality(S[c]) \in Nat
        /\ Cardinality(S[c]) = 0 <=> S[c] = {}
        /\ S[c] # {} => unsat_clauses_location[c] = -Cardinality(S[c])
    BY <2>a, <2>b, SetsCounted
  <2>. QED  BY <1>8, <2>1
<1>10. ChosenClause = clauses[c]
  BY <1>6 DEF ChosenClause
<1>. QED  BY <1>1, <1>7, <1>9, <1>10

(* Choosing a literal starts the break loop with the segment of its        *)
(* negation.                                                               *)
LEMMA FlipStarted ==
    ASSUME FormulaInv, SearchInv, RunInv, DoFlip
    PROVE  SearchInv'
<1>. DEFINE n == file.num_vars
            m == Len(clauses)
            a == ValueOf(belegung)
<1>1. /\ pc = "while" /\ unsat_clauses # <<>> /\ pc' = "break"
      /\ UNCHANGED <<file, clauses, belegung, unsat_clauses, unsat_clauses_location,
                     num_breaks_by_flip, crit_literal_in_clause>>
  BY DEF DoFlip, cnf_vars
<1>2. PICK lit \in ToSet(ChosenClause) : literal' = lit /\ todo' = Segment(-lit)
  BY DEF DoFlip
<1>3. /\ LinesRead /\ file \in Files /\ n \in Nat /\ m \in Nat
      /\ ClausesOver(n, m, clauses)
      /\ AllClauses = 1 .. m /\ Literals = LiteralsOf(n)
  BY ClauseFacts DEF FormulaInv, LinesRead
<1>4. /\ IsBitfield(belegung, n) /\ belegung.last_mod_index # NoIndex
      /\ ListsInv /\ todo = <<>>
  BY <1>1 DEF SearchInv
<1>5. PICK c \in 1 .. m : /\ ChosenClause = clauses[c]
                          /\ TrueIn(clauses[c], a) = {}
  BY <1>1, <1>3, <1>4, FlipsCounted, ClauseChosen
<1>6. lit \in ToSet(clauses[c]) /\ lit \in LiteralsOf(n) /\ -lit \in LiteralsOf(n)
  BY <1>2, <1>3, <1>5, LiteralsFinite DEF ClausesOver
<1>7. /\ Segment(-lit) \in Seq(AllClauses)
      /\ ToSet(Segment(-lit)) = ClausesWith(-lit)
      /\ \A i, j \in DOMAIN Segment(-lit) :
             i < j => Segment(-lit)[i] < Segment(-lit)[j]
  BY <1>1, <1>3, <1>6, SegmentFacts DEF Searching
<1>8. CountedIn' = CountedIn
  <2>1. Lists(todo', m, clauses, -lit)
    BY <1>2, <1>3, <1>7 DEF Lists, ClausesWith
  <2>2. TakenIn(m, clauses, a, lit, todo', "break") =
            TakenIn(m, clauses, a, literal, <<>>, "while")
    <3>. DEFINE phase == "while"
    <3>1. phase \notin {"break", "make"}
      OBVIOUS
    <3>. HIDE DEF phase, m, a
    <3>2. TakenIn(m, clauses, a, lit, todo', "break") =
              TakenIn(m, clauses, a, literal, <<>>, phase)
      BY <2>1, <3>1, TakenBetween
    <3>. QED  BY <3>2 DEF phase
  <2>3. CountedIn = TakenIn(m, clauses, a, literal, <<>>, "while")
    BY <1>1, <1>4, CountedIsTaken
  <2>4. CountedIn' = TakenIn(m, clauses, a, lit, todo', "break")
    BY <1>1, <1>2, CountedIsTaken
  <2>. QED  BY <2>2, <2>3, <2>4
<1>9. ListsInv'
  BY <1>1, <1>4, <1>8 DEF ListsInv
<1>10. FlipInv'
  <2>1. literal' \in Literals'
    BY <1>1, <1>2, <1>3, <1>6 DEF Literals, Variables
  <2>2. \E d \in AllClauses' : /\ literal' \in ToSet(clauses'[d])
                               /\ TrueLiterals(d, ValueOf(belegung))' = {}
    BY <1>1, <1>2, <1>3, <1>5, <1>6 DEF AllClauses, TrueLiterals, TrueIn
  <2>3. ToVisit(-literal)'
    BY <1>1, <1>2, <1>7 DEF ToVisit, AllClauses, ClausesWith
  <2>. QED  BY <1>1, <2>1, <2>2, <2>3 DEF FlipInv
<1>. QED  BY <1>1, <1>4, <1>9, <1>10 DEF SearchInv

-----------------------------------------------------------------------------
(* The loops: a clause is visited.                                         *)
LEMMA HeadLeftBehind ==
    ASSUME NEW m \in Nat, NEW s \in Seq(1 .. m), s # <<>>,
           \A i, j \in DOMAIN s : i < j => s[i] < s[j]
    PROVE  /\ Head(s) \in 1 .. m /\ Head(s) \in ToSet(s)
           /\ Tail(s) \in Seq(1 .. m)
           /\ \A i, j \in DOMAIN Tail(s) : i < j => Tail(s)[i] < Tail(s)[j]
           /\ ToSet(s) = ToSet(Tail(s)) \cup {Head(s)}
           /\ Head(s) \notin ToSet(Tail(s))
<1>. DEFINE D == 1 .. m
            t == Tail(s)
            k == Len(s)
<1>1. /\ k \in Nat \ {0} /\ DOMAIN s = 1 .. k /\ Head(s) = s[1] /\ Head(s) \in D
      /\ t \in Seq(D) /\ DOMAIN t = 1 .. k - 1
      /\ \A i \in DOMAIN t : i + 1 \in DOMAIN s /\ t[i] = s[i + 1]
  <2>1. s \in Seq(D)
    OBVIOUS
  <2>. HIDE DEF D
  <2>. QED  BY <2>1, FirstOfSeq
<1>. HIDE DEF t, k
<1>2. \A i, j \in 1 .. k - 1 : i < j => t[i] < t[j]
  <2>. SUFFICES ASSUME NEW i \in 1 .. k - 1, NEW j \in 1 .. k - 1, i < j
                PROVE  t[i] < t[j]
    OBVIOUS
  <2>1. i + 1 \in DOMAIN s /\ j + 1 \in DOMAIN s /\ i + 1 < j + 1
    BY <1>1
  <2>2. s[i + 1] < s[j + 1]
    BY <2>1
  <2>. QED  BY <1>1, <2>2
<1>3. ASSUME NEW i \in 1 .. k - 1 PROVE t[i] # Head(s)
  <2>1. PICK j \in 1 .. k : j = i + 1 /\ 1 < j /\ 1 \in 1 .. k
    BY <1>1
  <2>2. s[1] < s[j]
    BY <1>1, <2>1
  <2>3. s[1] \in Int /\ t[i] = s[j] /\ s[1] = Head(s)
    <3>1. i \in DOMAIN t
      BY <1>1
    <3>. QED  BY <1>1, <2>1, <3>1
  <2>. QED  BY <2>2, <2>3
<1>4. ToSet(s) = ToSet(t) \cup {Head(s)}
  <2>1. ASSUME NEW i \in 1 .. k, i # 1
        PROVE  \E j \in 1 .. k - 1 : s[i] = t[j]
    <3>1. PICK j \in 1 .. k - 1 : j + 1 = i
      BY <1>1, <2>1
    <3>2. t[j] = s[j + 1]
      BY <1>1
    <3>. QED  BY <3>1, <3>2
  <2>2. \A j \in 1 .. k - 1 : j + 1 \in 1 .. k /\ t[j] = s[j + 1]
    BY <1>1
  <2>3. 1 \in 1 .. k
    BY <1>1
  <2>4. ToSet(s) = {s[i] : i \in 1 .. k} /\ ToSet(t) = {t[j] : j \in 1 .. k - 1}
    BY <1>1 DEF ToSet
  <2>5. Head(s) = s[1]
    BY <1>1
  <2>. DEFINE K == 1 .. k
              J == 1 .. k - 1
  <2>6. /\ \A i \in K : i # 1 => \E j \in J : s[i] = t[j]
        /\ \A j \in J : \E i \in K : t[j] = s[i]
        /\ 1 \in K
    BY <2>1, <2>2, <2>3
  <2>7. ToSet(s) = {s[i] : i \in K} /\ ToSet(t) = {t[j] : j \in J}
    BY <2>4
  <2>. HIDE DEF K, J
  <2>. QED  BY <2>5, <2>6, <2>7
<1>. QED  BY <1>1, <1>2, <1>3, <1>4 DEF ToSet, t

(* The next clause of a loop has the literal and is not visited again.     *)
LEMMA HeadOfTodo ==
    ASSUME LinesRead, NEW lit, ToVisit(lit), todo # <<>>
    PROVE  /\ Head(todo) \in 1 .. Len(clauses)
           /\ lit \in ToSet(clauses[Head(todo)])
           /\ ToSet(todo) = ToSet(Tail(todo)) \cup {Head(todo)}
           /\ Head(todo) \notin ToSet(Tail(todo))
           /\ Tail(todo) \in Seq(AllClauses)
           /\ \A i, j \in DOMAIN Tail(todo) : i < j => Tail(todo)[i] < Tail(todo)[j]
           /\ ToSet(Tail(todo)) \subseteq ClausesWith(lit)
<1>1. Len(clauses) \in Nat /\ AllClauses = 1 .. Len(clauses)
  BY ClauseFacts
<1>2. /\ todo \in Seq(1 .. Len(clauses))
      /\ \A i, j \in DOMAIN todo : i < j => todo[i] < todo[j]
      /\ ToSet(todo) \subseteq ClausesWith(lit)
  BY <1>1 DEF ToVisit
<1>3. PICK s : s = todo
  OBVIOUS
<1>4. PICK m \in Nat : m = Len(clauses)
  BY <1>1
<1>5. /\ Head(s) \in 1 .. m /\ Head(s) \in ToSet(s)
      /\ Tail(s) \in Seq(1 .. m)
      /\ \A i, j \in DOMAIN Tail(s) : i < j => Tail(s)[i] < Tail(s)[j]
      /\ ToSet(s) = ToSet(Tail(s)) \cup {Head(s)}
      /\ Head(s) \notin ToSet(Tail(s))
  BY <1>2, <1>3, <1>4, HeadLeftBehind
<1>6. Head(s) \in ClausesWith(lit)
  BY <1>2, <1>3, <1>5
<1>. QED  BY <1>1, <1>2, <1>3, <1>4, <1>5, <1>6 DEF ClausesWith

(* During a flip the chosen literal is false and its negation true.        *)
LEMMA LiteralFalse ==
    ASSUME LinesRead, IsBitfield(belegung, file.num_vars), FlipInv
    PROVE  /\ literal \in LiteralsOf(file.num_vars)
           /\ -literal \in LiteralsOf(file.num_vars)
           /\ literal # -literal /\ Abs(-literal) = Abs(literal)
           /\ -(-literal) = literal
           /\ ~IsTrue(literal, ValueOf(belegung))
           /\ IsTrue(-literal, ValueOf(belegung))
<1>1. literal \in LiteralsOf(file.num_vars) /\ file.num_vars \in Nat
  BY ClauseFacts DEF FlipInv
<1>2. /\ literal \in Int /\ literal # 0 /\ -literal \in LiteralsOf(file.num_vars)
      /\ Abs(literal) \in 1 .. file.num_vars
  BY <1>1, LiteralsFinite
<1>3. ~IsTrue(literal, ValueOf(belegung))
  BY DEF FlipInv, TrueLiterals
<1>4. Abs(-literal) = Abs(literal) /\ literal # -literal /\ -(-literal) = literal
      /\ (literal > 0) = ~(-literal > 0)
  BY <1>2 DEF Abs
<1>5. ValueOf(belegung)[Abs(literal)] \in BOOLEAN
  <2>1. ValueOf(belegung) \in Bits(file.num_vars)
    BY <1>1, BitfieldValue
  <2>. QED  BY <1>2, <2>1 DEF Bits
<1>6. IsTrue(-literal, ValueOf(belegung))
  BY <1>3, <1>4, <1>5 DEF IsTrue
<1>. QED  BY <1>1, <1>2, <1>3, <1>4, <1>6

(* The literal that is found when a clause loses one of two.               *)
LEMMA LeftFound ==
    ASSUME LinesRead, NEW c \in 1 .. Len(clauses),
           TrueIn(clauses[c], ValueOf(belegung)) \ {-literal} # {}
    PROVE  /\ LeftCritical(c) \in TrueIn(clauses[c], ValueOf(belegung)) \ {-literal}
           /\ LeftCritical(c) # 0
<1>. DEFINE n == file.num_vars
            a == ValueOf(belegung)
            x == -literal
<1>1. PICK clause : clause = clauses[c] /\ clause \in Seq(LiteralsOf(n)) /\ n \in Nat
  BY ClauseFacts
<1>2. LeftCritical(c) = FirstTrueLiteral(clause, a, x)
  BY <1>1 DEF LeftCritical
<1>3. IF TrueIn(clause, a) \ {x} = {} THEN FirstTrueLiteral(clause, a, x) = 0
      ELSE FirstTrueLiteral(clause, a, x) \in TrueIn(clause, a) \ {x}
  <2>. HIDE DEF n, a, x
  <2>. QED  BY <1>1, FirstTrueFound
<1>4. LeftCritical(c) \in TrueIn(clause, a) \ {x}
  <2>. HIDE DEF a, x
  <2>1. TrueIn(clause, a) \ {x} # {}
    BY <1>1 DEF a, x
  <2>. QED  BY <1>2, <1>3, <2>1
<1>5. TrueIn(clause, a) \subseteq LiteralsOf(n)
  <2>1. clauses[c] = clause /\ ClausesOver(n, Len(clauses), clauses)
    BY <1>1, ClauseFacts
  <2>. QED  BY <2>1 DEF TrueIn, ClausesOver
<1>6. LeftCritical(c) # 0
  BY <1>1, <1>4, <1>5, LiteralsFinite
<1>. QED  BY <1>1, <1>4, <1>6

(* What the visit leaves alone.                                            *)
LEMMA VisitKeeps ==
    ASSUME LinesRead, SearchInv, pc \in {"break", "make"}, todo # <<>>,
           todo' = Tail(todo), UNCHANGED <<cnf_vars, pc, belegung, literal>>,
           ListsInv'
    PROVE  SearchInv'
<1>. DEFINE lit == IF pc = "break" THEN -literal ELSE literal
<1>1. /\ FlipInv /\ IsBitfield(belegung, file.num_vars)
      /\ belegung.last_mod_index # NoIndex
  BY DEF SearchInv
<1>2. UNCHANGED <<file, clauses>>
  BY DEF cnf_vars
<1>3. /\ Tail(todo) \in Seq(AllClauses)
      /\ \A i, j \in DOMAIN Tail(todo) : i < j => Tail(todo)[i] < Tail(todo)[j]
      /\ ToSet(Tail(todo)) \subseteq ClausesWith(lit)
  <2>1. ToVisit(lit)
    BY <1>1 DEF FlipInv
  <2>. HIDE DEF lit
  <2>. QED  BY <2>1, HeadOfTodo
<1>4. ToVisit(IF pc = "break" THEN -literal ELSE literal)'
  BY <1>2, <1>3 DEF ToVisit, AllClauses, ClausesWith
<1>5. literal' \in Literals'
  BY <1>1, <1>2 DEF FlipInv, Literals, Variables
<1>6. \E d \in AllClauses' : /\ literal' \in ToSet(clauses'[d])
                             /\ TrueLiterals(d, ValueOf(belegung))' = {}
  BY <1>1, <1>2 DEF FlipInv, AllClauses, TrueLiterals
<1>7. FlipInv'
  BY <1>4, <1>5, <1>6 DEF FlipInv
<1>. QED  BY <1>1, <1>2, <1>7 DEF SearchInv

(* A clause loses the literal that becomes false.                          *)
LEMMA ClauseBroken ==
    ASSUME LinesRead, SearchInv, BreakClause
    PROVE  SearchInv'
<1>. DEFINE n == file.num_vars
            m == Len(clauses)
            a == ValueOf(belegung)
            T == CountedIn
            c == Head(todo)
            x == -literal
            loc == unsat_clauses_location
            crit == crit_literal_in_clause
            breaks == num_breaks_by_flip
            unsat == unsat_clauses
<1>1. /\ pc = "break" /\ todo # <<>> /\ todo' = Tail(todo)
      /\ UNCHANGED <<cnf_vars, pc, belegung, num_flips_done, literal>>
      /\ UNCHANGED <<file, clauses>>
  BY DEF BreakClause, cnf_vars
<1>2. /\ n \in Nat /\ m \in Nat /\ ClausesOver(n, m, clauses)
      /\ \A d \in 1 .. m : clauses[d] \in Seq(LiteralsOf(n)) /\ IsClean(clauses[d])
      /\ T \in [1 .. m -> SUBSET LiteralsOf(n)]
      /\ \A d \in 1 .. m : T[d] = Taken(clauses, a, literal, todo, pc, d)
  BY ClauseFacts, CountedTyped
<1>3. IsBitfield(belegung, n) /\ FlipInv /\ ListsInv /\ ToVisit(x)
  BY <1>1 DEF SearchInv, FlipInv
<1>4. /\ c \in 1 .. m /\ x \in ToSet(clauses[c])
      /\ ToSet(todo) = ToSet(Tail(todo)) \cup {c} /\ c \notin ToSet(Tail(todo))
  <2>. HIDE DEF x
  <2>. QED  BY <1>1, <1>3, HeadOfTodo
<1>5. x \in LiteralsOf(n) /\ IsTrue(x, a) /\ Abs(x) = Abs(literal) /\ -x = literal
  BY <1>3, LiteralFalse
<1>6. T[c] = TrueIn(clauses[c], a) /\ x \in T[c]
  <2>1. c \in ToSet(todo)
    BY <1>4
  <2>2. Taken(clauses, a, literal, todo, pc, c) = TrueIn(clauses[c], a)
    BY <1>1, <2>1 DEF Taken
  <2>3. x \in TrueIn(clauses[c], a)
    BY <1>4, <1>5 DEF TrueIn
  <2>. QED  BY <1>2, <1>4, <2>2, <2>3
<1>7. CountedIn' = [T EXCEPT ![c] = T[c] \ {x}]
  <2>1. CountedIn = TakenIn(m, clauses, a, literal, todo, "break")
    BY <1>1, CountedIsTaken
  <2>2. CountedIn' = TakenIn(m, clauses, a, literal, todo', "break")
    BY <1>1, CountedIsTaken
  <2>3. PICK rest : rest = Tail(todo)
    OBVIOUS
  <2>4. TakenIn(m, clauses, a, literal, rest, "break") =
            [TakenIn(m, clauses, a, literal, todo, "break") EXCEPT ![c] =
                TakenIn(m, clauses, a, literal, todo, "break")[c] \ {-literal}]
    <3>1. c \in 1 .. m /\ ToSet(todo) = ToSet(rest) \cup {c} /\ c \notin ToSet(rest)
      BY <1>4, <2>3
    <3>2. Becomes(TakenIn(m, clauses, a, literal, rest, "break"),
                  TakenIn(m, clauses, a, literal, todo, "break"), c,
                  TakenIn(m, clauses, a, literal, todo, "break")[c] \ {-literal})
      <4>. HIDE DEF c, m, a
      <4>. QED  BY <3>1, TakenNext
    <3>. HIDE DEF c, m, a
    <3>. QED  BY <3>2 DEF Becomes
  <2>. QED  BY <1>1, <2>1, <2>2, <2>3, <2>4
<1>8. ListsAgree(m, n, T, unsat, loc, crit, breaks)
  BY <1>3 DEF ListsInv
<1>9. ListsAgree(m, n, [T EXCEPT ![c] = T[c] \ {x}], unsat_clauses',
                 unsat_clauses_location', crit_literal_in_clause', num_breaks_by_flip')
  <2>. DEFINE U == [T EXCEPT ![c] = T[c] \ {x}]
  <2>0. /\ IsFiniteSet(T[c]) /\ Cardinality(T[c]) \in Nat
        /\ Cardinality(T[c]) = 0 <=> T[c] = {}
        /\ T[c] # {} => loc[c] = -Cardinality(T[c])
    <3>1. CountsAgree(m, T, loc)
      BY <1>8 DEF ListsAgree
    <3>. PICK S : S = T
      OBVIOUS
    <3>2. n \in Nat /\ m \in Nat /\ S \in [1 .. m -> SUBSET LiteralsOf(n)]
          /\ CountsAgree(m, S, loc) /\ c \in 1 .. m
      BY <1>2, <1>4, <3>1
    <3>. HIDE DEF n, m, c, loc, T
    <3>3. /\ IsFiniteSet(S[c]) /\ Cardinality(S[c]) \in Nat
          /\ Cardinality(S[c]) = 0 <=> S[c] = {}
          /\ S[c] # {} => loc[c] = -Cardinality(S[c])
      BY <3>2, SetsCounted
    <3>. QED  BY <3>3
  <2>a. loc[c] < 0 /\ loc[c] \in Int
    <3>. HIDE DEF T, loc, x
    <3>. QED  BY <1>6, <2>0
  <2>1. CASE loc[c] = -1
    <3>1. /\ unsat_clauses' = Append(unsat, c)
          /\ unsat_clauses_location' = [loc EXCEPT ![c] = Len(unsat)]
          /\ num_breaks_by_flip' = [breaks EXCEPT ![Abs(x)] = @ + (-1)]
          /\ crit_literal_in_clause' = [crit EXCEPT ![c] = 0]
      BY <1>5, <2>1 DEF BreakClause, MakeClauseUnsat, AddBreaks, SetCritical
    <3>2. ListsAgree(m, n, [T EXCEPT ![c] = T[c] \ {x}], Append(unsat, c),
                     [loc EXCEPT ![c] = Len(unsat)], [crit EXCEPT ![c] = 0],
                     [breaks EXCEPT ![Abs(x)] = @ + (-1)])
      <4>. HIDE DEF m, n, a, T, c, x, loc, crit, breaks, unsat
      <4>. QED  BY <1>2, <1>4, <1>6, <1>8, <2>1, LosesLast
    <3>. QED  BY <3>1, <3>2
  <2>2. CASE loc[c] = -2
    <3>. DEFINE y == LeftCritical(c)
    <3>1. /\ unsat_clauses' = unsat
          /\ unsat_clauses_location' = [loc EXCEPT ![c] = @ + 1]
          /\ num_breaks_by_flip' = [breaks EXCEPT ![Abs(y)] = @ + 1]
          /\ crit_literal_in_clause' = [crit EXCEPT ![c] = y]
      BY <2>2 DEF BreakClause, AddBreaks, SetCritical
    <3>2. y \in T[c] \ {x}
      <4>1. T[c] \ {x} # {}
        <5>. HIDE DEF T, loc, x
        <5>1. Cardinality(T[c]) = 2
          BY <1>6, <2>0, <2>2
        <5>2. Cardinality(T[c] \ {x}) = Cardinality(T[c]) - 1
          BY <1>6, <2>0, SizeOfSet
        <5>. QED  BY <5>1, <5>2, FS_EmptySet
      <4>2. TrueIn(clauses[c], a) \ {x} # {}
        BY <1>6, <4>1
      <4>. QED  BY <1>4, <1>6, <4>2, LeftFound
    <3>3. ListsAgree(m, n, [T EXCEPT ![c] = T[c] \ {x}], unsat,
                     [loc EXCEPT ![c] = @ + 1], [crit EXCEPT ![c] = y],
                     [breaks EXCEPT ![Abs(y)] = @ + 1])
      <4>. HIDE DEF m, n, a, T, c, x, y, loc, crit, breaks, unsat
      <4>. QED  BY <1>2, <1>4, <1>6, <1>8, <2>2, <3>2, LosesOneOfTwo
    <3>. QED  BY <3>1, <3>3
  <2>3. CASE loc[c] < -2
    <3>1. /\ unsat_clauses' = unsat
          /\ unsat_clauses_location' = [loc EXCEPT ![c] = @ + 1]
          /\ num_breaks_by_flip' = breaks
          /\ crit_literal_in_clause' = crit
      BY <2>a, <2>3 DEF BreakClause
    <3>2. ListsAgree(m, n, [T EXCEPT ![c] = T[c] \ {x}], unsat,
                     [loc EXCEPT ![c] = @ + 1], crit, breaks)
      <4>. HIDE DEF m, n, a, T, c, x, loc, crit, breaks, unsat
      <4>. QED  BY <1>2, <1>4, <1>6, <1>8, <2>3, LosesOneOfMore
    <3>. QED  BY <3>1, <3>2
  <2>4. loc[c] = -1 \/ loc[c] = -2 \/ loc[c] < -2
    BY <2>a
  <2>. QED  BY <2>1, <2>2, <2>3, <2>4
<1>10. ListsInv'
  BY <1>1, <1>7, <1>9 DEF ListsInv
<1>. QED  BY <1>1, <1>10, VisitKeeps

(* A clause gains the literal that becomes true.                           *)
LEMMA ClauseMade ==
    ASSUME LinesRead, SearchInv, MakeClause
    PROVE  SearchInv'
<1>. DEFINE n == file.num_vars
            m == Len(clauses)
            a == ValueOf(belegung)
            T == CountedIn
            c == Head(todo)
            x == literal
            loc == unsat_clauses_location
            crit == crit_literal_in_clause
            breaks == num_breaks_by_flip
            unsat == unsat_clauses
<1>1. /\ pc = "make" /\ todo # <<>> /\ todo' = Tail(todo)
      /\ UNCHANGED <<cnf_vars, pc, belegung, num_flips_done, literal>>
      /\ UNCHANGED <<file, clauses>>
  BY DEF MakeClause, cnf_vars
<1>2. /\ n \in Nat /\ m \in Nat /\ ClausesOver(n, m, clauses)
      /\ T \in [1 .. m -> SUBSET LiteralsOf(n)]
      /\ \A d \in 1 .. m : T[d] = Taken(clauses, a, literal, todo, pc, d)
  BY ClauseFacts, CountedTyped
<1>3. IsBitfield(belegung, n) /\ FlipInv /\ ListsInv /\ ToVisit(x)
  BY <1>1 DEF SearchInv, FlipInv
<1>4. /\ c \in 1 .. m /\ x \in ToSet(clauses[c])
      /\ ToSet(todo) = ToSet(Tail(todo)) \cup {c} /\ c \notin ToSet(Tail(todo))
  <2>. HIDE DEF x
  <2>. QED  BY <1>1, <1>3, HeadOfTodo
<1>5. x \in LiteralsOf(n) /\ ~IsTrue(x, a)
  BY <1>3, LiteralFalse
<1>6. x \notin T[c]
  <2>1. c \in ToSet(todo)
    BY <1>4
  <2>2. Taken(clauses, a, literal, todo, pc, c) \subseteq TrueIn(clauses[c], a)
    BY <1>1, <2>1 DEF Taken
  <2>3. x \notin TrueIn(clauses[c], a)
    BY <1>5 DEF TrueIn
  <2>. QED  BY <1>2, <1>4, <2>2, <2>3
<1>7. CountedIn' = [T EXCEPT ![c] = T[c] \cup {x}]
  <2>1. CountedIn = TakenIn(m, clauses, a, literal, todo, "make")
    BY <1>1, CountedIsTaken
  <2>2. CountedIn' = TakenIn(m, clauses, a, literal, todo', "make")
    BY <1>1, CountedIsTaken
  <2>3. PICK rest : rest = Tail(todo)
    OBVIOUS
  <2>4. TakenIn(m, clauses, a, literal, rest, "make") =
            [TakenIn(m, clauses, a, literal, todo, "make") EXCEPT ![c] =
                TakenIn(m, clauses, a, literal, todo, "make")[c] \cup {literal}]
    <3>1. /\ c \in 1 .. m /\ ToSet(todo) = ToSet(rest) \cup {c} /\ c \notin ToSet(rest)
          /\ literal \in ToSet(clauses[c])
      BY <1>4, <2>3
    <3>2. Becomes(TakenIn(m, clauses, a, literal, rest, "make"),
                  TakenIn(m, clauses, a, literal, todo, "make"), c,
                  TakenIn(m, clauses, a, literal, todo, "make")[c] \cup {literal})
      <4>. HIDE DEF c, m, a
      <4>. QED  BY <3>1, GainedNext
    <3>. HIDE DEF c, m, a
    <3>. QED  BY <3>2 DEF Becomes
  <2>. QED  BY <1>1, <2>1, <2>2, <2>3, <2>4
<1>8. ListsAgree(m, n, T, unsat, loc, crit, breaks)
  BY <1>3 DEF ListsInv
<1>9. ListsAgree(m, n, [T EXCEPT ![c] = T[c] \cup {x}], unsat_clauses',
                 unsat_clauses_location', crit_literal_in_clause', num_breaks_by_flip')
  <2>a. loc[c] \in Int
    BY <1>4, <1>8 DEF ListsAgree, ListAgrees
  <2>1. CASE loc[c] >= 0
    <3>1. /\ unsat_clauses' = ListShrunk(unsat, loc[c])
          /\ unsat_clauses_location' = IndexShrunk(unsat, loc, c)
          /\ num_breaks_by_flip' = [breaks EXCEPT ![Abs(x)] = @ + 1]
          /\ crit_literal_in_clause' = [crit EXCEPT ![c] = x]
      <4>1. MakeClauseSat(c) /\ AddBreaks(x, 1) /\ SetCritical(c, x)
        BY <2>a, <2>1 DEF MakeClause
      <4>2. /\ unsat_clauses' = ListShrunk(unsat, loc[c])
            /\ unsat_clauses_location' = IndexShrunk(unsat, loc, c)
        BY <4>1 DEF MakeClauseSat, Moved, ListShrunk, IndexShrunk, IndexMoved
      <4>. QED  BY <4>1, <4>2 DEF AddBreaks, SetCritical
    <3>2. ListsAgree(m, n, [T EXCEPT ![c] = T[c] \cup {x}],
                     ListShrunk(unsat, loc[c]),
                     IndexShrunk(unsat, loc, c), [crit EXCEPT ![c] = x],
                     [breaks EXCEPT ![Abs(x)] = @ + 1])
      <4>. HIDE DEF m, n, a, T, c, x, loc, crit, breaks, unsat
      <4>. QED  BY <1>2, <1>4, <1>5, <1>8, <2>1, GainsFirst
    <3>. QED  BY <3>1, <3>2
  <2>2. CASE loc[c] = -1
    <3>1. /\ unsat_clauses' = unsat
          /\ unsat_clauses_location' = [loc EXCEPT ![c] = @ - 1]
          /\ num_breaks_by_flip' = [breaks EXCEPT ![Abs(crit[c])] = @ + (-1)]
          /\ crit_literal_in_clause' = crit
      BY <2>2 DEF MakeClause, AddBreaks, CachedCritical
    <3>2. ListsAgree(m, n, [T EXCEPT ![c] = T[c] \cup {x}], unsat,
                     [loc EXCEPT ![c] = @ - 1], crit,
                     [breaks EXCEPT ![Abs(crit[c])] = @ + (-1)])
      <4>. HIDE DEF m, n, a, T, c, x, loc, crit, breaks, unsat
      <4>. QED  BY <1>2, <1>4, <1>5, <1>6, <1>8, <2>2, GainsSecond
    <3>. QED  BY <3>1, <3>2
  <2>3. CASE loc[c] < -1
    <3>1. /\ unsat_clauses' = unsat
          /\ unsat_clauses_location' = [loc EXCEPT ![c] = @ - 1]
          /\ num_breaks_by_flip' = breaks
          /\ crit_literal_in_clause' = crit
      BY <2>a, <2>3 DEF MakeClause
    <3>2. ListsAgree(m, n, [T EXCEPT ![c] = T[c] \cup {x}], unsat,
                     [loc EXCEPT ![c] = @ - 1], crit, breaks)
      <4>. HIDE DEF m, n, a, T, c, x, loc, crit, breaks, unsat
      <4>. QED  BY <1>2, <1>4, <1>5, <1>6, <1>8, <2>3, GainsAnother
    <3>. QED  BY <3>1, <3>2
  <2>4. loc[c] >= 0 \/ loc[c] = -1 \/ loc[c] < -1
    BY <2>a
  <2>. QED  BY <2>1, <2>2, <2>3, <2>4
<1>10. ListsInv'
  BY <1>1, <1>7, <1>9 DEF ListsInv
<1>. QED  BY <1>1, <1>10, VisitKeeps

-----------------------------------------------------------------------------
(* From the break loop to the make loop, and the end of the flip.          *)
LEMMA BreakEnds ==
    ASSUME FormulaInv, SearchInv, BreakDone
    PROVE  SearchInv'
<1>. DEFINE n == file.num_vars
            m == Len(clauses)
            a == ValueOf(belegung)
<1>1. /\ pc = "break" /\ todo = <<>> /\ todo' = Segment(literal) /\ pc' = "make"
      /\ UNCHANGED <<file, clauses, belegung, unsat_clauses, unsat_clauses_location,
                     num_breaks_by_flip, crit_literal_in_clause, literal>>
  BY DEF BreakDone, cnf_vars
<1>2. /\ LinesRead /\ AllClauses = 1 .. m /\ Literals = LiteralsOf(n)
  BY ClauseFacts DEF FormulaInv
<1>3. /\ IsBitfield(belegung, n) /\ belegung.last_mod_index # NoIndex
      /\ ListsInv /\ FlipInv
  BY <1>1 DEF SearchInv
<1>4. literal \in Literals
  BY <1>3 DEF FlipInv
<1>5. /\ Segment(literal) \in Seq(AllClauses)
      /\ ToSet(Segment(literal)) = ClausesWith(literal)
      /\ \A i, j \in DOMAIN Segment(literal) :
             i < j => Segment(literal)[i] < Segment(literal)[j]
  BY <1>1, <1>4, SegmentFacts DEF Searching
<1>6. CountedIn' = CountedIn
  <2>1. Lists(todo', m, clauses, literal)
    BY <1>1, <1>2, <1>5 DEF Lists, ClausesWith
  <2>2. TakenIn(m, clauses, a, literal, todo', "make") =
            TakenIn(m, clauses, a, literal, <<>>, "break")
    <3>. DEFINE phase == "while"
    <3>1. phase \notin {"break", "make"}
      OBVIOUS
    <3>. HIDE DEF phase, m, a
    <3>. QED  BY <2>1, <3>1, TakenBetween
  <2>3. CountedIn = TakenIn(m, clauses, a, literal, <<>>, "break")
    BY <1>1, CountedIsTaken
  <2>4. CountedIn' = TakenIn(m, clauses, a, literal, todo', "make")
    BY <1>1, CountedIsTaken
  <2>. QED  BY <2>2, <2>3, <2>4
<1>7. ListsInv'
  BY <1>1, <1>3, <1>6 DEF ListsInv
<1>8. FlipInv'
  <2>1. literal' \in Literals'
    BY <1>1, <1>4 DEF Literals, Variables
  <2>2. \E d \in AllClauses' : /\ literal' \in ToSet(clauses'[d])
                               /\ TrueLiterals(d, ValueOf(belegung))' = {}
    BY <1>1, <1>3 DEF FlipInv, AllClauses, TrueLiterals
  <2>3. ToVisit(literal)'
    BY <1>1, <1>5 DEF ToVisit, AllClauses, ClausesWith
  <2>. QED  BY <1>1, <2>1, <2>2, <2>3 DEF FlipInv
<1>. QED  BY <1>1, <1>3, <1>7, <1>8 DEF SearchInv

(* A flip through two references to one bit changes that bit for a reader, *)
(* and no other.                                                           *)
LEMMA BitFlipped ==
    ASSUME NEW n \in Nat, NEW b, IsBitfield(b, n), NEW v \in 1 .. n
    PROVE  /\ IsBitfield(Flipped(b, v), n)
           /\ Flipped(b, v).last_mod_index = v
           /\ ValueOf(Flipped(b, v)) = [ValueOf(b) EXCEPT ![v] = ~@]
<1>1. /\ IsBitfield(Access(b, v), n)
      /\ ValueOf(Access(b, v)) = ValueOf(b)
      /\ Access(b, v).last_mod_value = Get(b, v)
  BY AccessKeepsValue
<1>2. ValueOf(b)[v] = Get(b, v) /\ ValueOf(b) \in Bits(n)
  <2>1. ValueOf(b) \in Bits(n)
    BY BitfieldValue
  <2>2. DOMAIN b.bits = 1 .. n
    BY DEF IsBitfield, Bits
  <2>. QED  BY <2>1, <2>2 DEF ValueOf
<1>3. PICK w \in BOOLEAN : w = ~Access(b, v).last_mod_value
  OBVIOUS
<1>4. /\ IsBitfield(Assign(Access(b, v), v, w), n)
      /\ ValueOf(Assign(Access(b, v), v, w)) = [ValueOf(Access(b, v)) EXCEPT ![v] = w]
  BY <1>1, ReadAfterWrite
<1>5. Flipped(b, v) = Assign(Access(b, v), v, w)
  BY <1>3 DEF Flipped
<1>6. Flipped(b, v).last_mod_index = v
  BY DEF Flipped, Assign, Access
<1>7. w = ~ValueOf(b)[v]
  BY <1>1, <1>2, <1>3
<1>. QED  BY <1>1, <1>4, <1>5, <1>6, <1>7

(* The lists as they are when the make loop is done are those of the       *)
(* assignment with the variable flipped.                                   *)
LEMMA FlipEnds ==
    ASSUME LinesRead, SearchInv, MakeDone, pc' \in {"while", "stop"}
    PROVE  /\ SearchInv'
           /\ ValueOf(belegung)' = [ValueOf(belegung) EXCEPT ![Abs(literal)] = ~@]
<1>. DEFINE n == file.num_vars
            m == Len(clauses)
            a == ValueOf(belegung)
            v == Abs(literal)
<1>1. /\ pc = "make" /\ todo = <<>> /\ todo' = <<>>
      /\ belegung' = Flipped(belegung, v)
      /\ UNCHANGED <<file, clauses, unsat_clauses, unsat_clauses_location,
                     num_breaks_by_flip, crit_literal_in_clause>>
  BY DEF MakeDone, cnf_vars
<1>2. /\ n \in Nat /\ m \in Nat /\ ClausesOver(n, m, clauses)
  BY ClauseFacts
<1>3. IsBitfield(belegung, n) /\ ListsInv /\ FlipInv
  BY <1>1 DEF SearchInv
<1>4. literal \in LiteralsOf(n) /\ ~IsTrue(literal, a) /\ v \in 1 .. n
  <2>1. literal \in LiteralsOf(n) /\ ~IsTrue(literal, a)
    BY <1>3, LiteralFalse
  <2>. QED  BY <1>2, <2>1, LiteralsFinite
<1>5. /\ IsBitfield(Flipped(belegung, v), n)
      /\ Flipped(belegung, v).last_mod_index = v
      /\ ValueOf(Flipped(belegung, v)) = [a EXCEPT ![v] = ~@]
  <2>. HIDE DEF n, v
  <2>1. /\ IsBitfield(Flipped(belegung, v), n)
        /\ Flipped(belegung, v).last_mod_index = v
        /\ ValueOf(Flipped(belegung, v)) = [ValueOf(belegung) EXCEPT ![v] = ~@]
    BY <1>2, <1>3, <1>4, BitFlipped
  <2>. QED  BY <2>1
<1>6. ValueOf(belegung)' = [a EXCEPT ![v] = ~@]
  BY <1>1, <1>5
<1>7. CountedIn' = CountedIn
  <2>1. PICK phase : phase = pc'
    OBVIOUS
  <2>2. PICK other : other = literal'
    OBVIOUS
  <2>3. CountedIn' = TakenIn(m, clauses, [a EXCEPT ![v] = ~@], other, <<>>, phase)
    BY <1>1, <1>6, <2>1, <2>2, CountedIsTaken
  <2>4. CountedIn = TakenIn(m, clauses, a, literal, <<>>, "make")
    BY <1>1, CountedIsTaken
  <2>5. phase \notin {"break", "make"}
    BY <2>1
  <2>6. a \in Bits(n)
    BY <1>2, <1>3, BitfieldValue
  <2>7. TakenIn(m, clauses, [a EXCEPT ![Abs(literal)] = ~@], other, <<>>, phase) =
            TakenIn(m, clauses, a, literal, <<>>, "make")
    <3>. HIDE DEF n, m, a
    <3>. QED  BY <1>2, <1>4, <2>5, <2>6, TakenFlipped
  <2>. QED  BY <2>3, <2>4, <2>7
<1>8. ListsInv'
  BY <1>1, <1>3, <1>7 DEF ListsInv
<1>9. belegung'.last_mod_index # NoIndex
  BY <1>1, <1>4, <1>5 DEF NoIndex
<1>. QED  BY <1>1, <1>5, <1>6, <1>8, <1>9 DEF SearchInv

-----------------------------------------------------------------------------
(* The whole invariant.                                                    *)
LEMMA SearchKept ==
    ASSUME SearchInv, UNCHANGED <<cnf_vars, instance_vars>>,
           pc' = pc \/ {pc, pc'} \cap {"break", "make"} = {},
           pc' = "again" => unsat_clauses # <<>>
    PROVE  SearchInv'
<1>1. UNCHANGED <<file, clauses, belegung, unsat_clauses, unsat_clauses_location,
                  num_breaks_by_flip, crit_literal_in_clause, literal, todo>>
  BY DEF cnf_vars, instance_vars
<1>2. pc' = pc \/ (pc \notin {"break", "make"} /\ pc' \notin {"break", "make"})
  OBVIOUS
<1>3. CountedIn' = CountedIn
  <2>1. \A c : Taken(clauses, ValueOf(belegung), literal, todo, pc, c)' =
               Taken(clauses, ValueOf(belegung), literal, todo, pc, c)
    BY <1>1, <1>2 DEF Taken
  <2>. QED  BY <1>1, <2>1, CountedIsTaken DEF TakenIn
<1>4. ListsInv'
  BY <1>1, <1>3 DEF SearchInv, ListsInv
<1>5. pc' \in {"break", "make"} => FlipInv /\ pc' = pc
  BY <1>2 DEF SearchInv
<1>6. pc' \in {"break", "make"} => FlipInv'
  <2>1. SUFFICES ASSUME FlipInv, pc' = pc PROVE FlipInv'
    BY <1>5
  <2>2. ToVisit(IF pc = "break" THEN -literal ELSE literal)'
    BY <1>1, <2>1 DEF FlipInv, ToVisit, AllClauses, ClausesWith
  <2>3. literal' \in Literals'
    BY <1>1, <2>1 DEF FlipInv, Literals, Variables
  <2>4. \E d \in AllClauses' : /\ literal' \in ToSet(clauses'[d])
                               /\ TrueLiterals(d, ValueOf(belegung))' = {}
    BY <1>1, <2>1 DEF FlipInv, AllClauses, TrueLiterals
  <2>. QED  BY <2>2, <2>3, <2>4 DEF FlipInv
<1>7. pc' \notin {"break", "make"} => todo' = <<>>
  BY <1>1, <1>2 DEF SearchInv
<1>. QED  BY <1>1, <1>4, <1>6, <1>7 DEF SearchInv

(* Every step of the program keeps the search part of the invariant.       *)
LEMMA SearchNext ==
    ASSUME Inv, FormulaInv', [Next]_vars, Searching'
    PROVE  SearchInv'
<1>1. FormulaInv /\ LinesRead /\ RunInv /\ (Searching => SearchInv)
  BY DEF Inv, FormulaInv
<1>2. CASE ReadFormula /\ UNCHANGED <<instance_vars, solver_vars>>
  <2>1. pc' \in {"read", "failed", "fill"}
    BY <1>2 DEF ReadFormula, ParseClause, RejectClause, LayOut, FillClause
  <2>. QED  BY <2>1 DEF Searching
<1>3. CASE Configure
  BY <1>1, <1>3, Configured
<1>4. CASE Flip
  <2>1. SearchInv
    BY <1>1, <1>4 DEF Flip, DoFlip, BreakClause, BreakDone, MakeClause, Searching
  <2>2. CASE DoFlip
    BY <1>1, <2>1, <2>2, FlipStarted
  <2>3. CASE BreakClause
    BY <1>1, <2>1, <2>3, ClauseBroken
  <2>4. CASE BreakDone
    BY <1>1, <2>1, <2>4, BreakEnds
  <2>5. CASE MakeClause
    BY <1>1, <2>1, <2>5, ClauseMade
  <2>. QED  BY <1>4, <2>2, <2>3, <2>4, <2>5 DEF Flip
<1>5. CASE AfterFlip
  <2>1. pc = "make" /\ pc' \in {"while", "stop"} /\ MakeDone
    BY <1>5 DEF AfterFlip, MakeDone
  <2>. QED  BY <1>1, <2>1, FlipEnds DEF Searching
<1>6. CASE Solved
  <2>1. /\ pc \in {"while", "stop"} /\ pc' = "done"
        /\ UNCHANGED <<cnf_vars, instance_vars>>
    BY <1>6 DEF Solved
  <2>. QED  BY <1>1, <2>1, SearchKept DEF Searching
<1>7. CASE Unsolved
  <2>1. /\ pc = "stop" /\ pc' \in {"again", "done"} /\ unsat_clauses # <<>>
        /\ UNCHANGED <<cnf_vars, instance_vars>>
    BY <1>7 DEF Unsolved, FoundSolution
  <2>. QED  BY <1>1, <2>1, SearchKept DEF Searching
<1>8. CASE UNCHANGED vars
  <2>1. pc' = pc /\ UNCHANGED <<cnf_vars, instance_vars>> /\ Searching
    BY <1>8 DEF vars, Searching
  <2>2. pc' = "again" => unsat_clauses # <<>>
    BY <1>1, <2>1 DEF SearchInv
  <2>. QED  BY <1>1, <2>1, <2>2, SearchKept
<1>. QED  BY <1>2, <1>3, <1>4, <1>5, <1>6, <1>7, <1>8 DEF Next

(* Limits and counters of the programs are numbers.                        *)
LEMMA RunFacts ==
    ASSUME file \in Files, RunInv
    PROVE  /\ FlipBound \in Nat /\ settings.max_flips \in Nat
           /\ settings.num_iterations \in Nat \ {0}
           /\ MostFlips \in Nat
           /\ MostFlips = IF settings.max_flips = 0 THEN FlipBound
                          ELSE settings.max_flips
           /\ iteration \in 1 .. settings.num_iterations
           /\ num_flips_done \in 0 .. MostFlips
BY SolverAssumption DEF RunInv, MostFlips

(* Every step of the program keeps what is known of attempts and results.  *)
LEMMA RunNext ==
    ASSUME Inv, [Next]_vars
    PROVE  /\ RunInv'
           /\ pc' \in {"read", "fill", "failed", "while", "break", "make", "stop",
                       "again", "done"}
<1>1. /\ file \in Files /\ RunInv /\ FormulaInv
      /\ settings \in SettingsFor(file)
      /\ (pc # "done" => result = "none")
      /\ result \in {"none", "solved", "unsolved"}
      /\ (result = "solved" => pc = "done" /\ unsat_clauses = <<>>)
      /\ (pc \in {"read", "fill", "failed"} => iteration = 1 /\ InstanceInit)
      /\ (pc = "again" => iteration > 1)
      /\ (Searching /\ settings.program = "probsat" =>
              IsBitfield(configuration, file.num_vars))
      /\ pc \in {"read", "fill", "failed", "while", "break", "make", "stop",
                 "again", "done"}
  BY DEF Inv, RunInv, FormulaInv, LinesRead
<1>2. /\ FlipBound \in Nat /\ settings.max_flips \in Nat
      /\ settings.num_iterations \in Nat \ {0}
      /\ MostFlips \in Nat
      /\ MostFlips = IF settings.max_flips = 0 THEN FlipBound
                     ELSE settings.max_flips
      /\ iteration \in 1 .. settings.num_iterations
      /\ num_flips_done \in 0 .. MostFlips
  BY <1>1, RunFacts
<1>3. file' = file
  BY DEF Next, ReadFormula, ParseClause, RejectClause, LayOut, FillClause,
         Configure, Construct, Flip, DoFlip, BreakClause, BreakDone, MakeClause,
         AfterFlip, MakeDone, Solved, Unsolved, vars, cnf_vars
<1>4. settings' = settings
  BY DEF Next, Configure, Flip, AfterFlip, Solved, Unsolved, vars, solver_vars
<1>5. MostFlips' = MostFlips /\ settings' \in SettingsFor(file')
  BY <1>1, <1>3, <1>4 DEF MostFlips
<1>6. CASE ReadFormula /\ UNCHANGED <<instance_vars, solver_vars>>
  <2>1. pc \in {"read", "fill"} /\ pc' \in {"read", "failed", "fill"}
    BY <1>6 DEF ReadFormula, ParseClause, RejectClause, LayOut, FillClause
  <2>2. InstanceInit'
    BY <1>1, <1>6, <2>1 DEF InstanceInit, instance_vars
  <2>3. UNCHANGED <<num_flips_done, iteration, result, configuration>>
    BY <1>6 DEF instance_vars, solver_vars
  <2>. QED  BY <1>1, <1>2, <1>3, <1>4, <1>5, <2>1, <2>2, <2>3 DEF RunInv, Searching
<1>7. CASE Configure
  <2>1. pc \in {"fill", "again"} /\ pc' = "while" /\ num_flips_done' = 0
        /\ UNCHANGED <<iteration, result>>
    BY <1>7 DEF Configure, Construct
  <2>2. settings.program = "probsat" => IsBitfield(configuration', file.num_vars)
    BY <1>1, <1>7, Configured
  <2>. QED  BY <1>1, <1>2, <1>3, <1>4, <1>5, <2>1, <2>2 DEF RunInv, Searching
<1>8. CASE Flip
  <2>1. /\ pc \in {"while", "break", "make"} /\ pc' \in {"break", "make"}
        /\ UNCHANGED <<num_flips_done, iteration, result, configuration>>
    BY <1>8 DEF Flip, DoFlip, BreakClause, BreakDone, MakeClause, solver_vars
  <2>2. num_flips_done < MostFlips
    <3>1. CASE DoFlip
      <4>1. pc = "while" /\ (settings.max_flips = 0 => num_flips_done < FlipBound)
        BY <1>8, <3>1 DEF Flip, DoFlip, BreakClause, BreakDone, MakeClause
      <4>2. settings.max_flips # 0 => num_flips_done < MostFlips
        BY <1>1, <4>1 DEF RunInv
      <4>. QED  BY <1>2, <4>1, <4>2
    <3>2. CASE ~DoFlip
      <4>1. pc \in {"break", "make"}
        BY <1>8, <3>2 DEF Flip, BreakClause, BreakDone, MakeClause
      <4>. QED  BY <1>1, <4>1 DEF RunInv
    <3>. QED  BY <3>1, <3>2
  <2>. QED  BY <1>1, <1>2, <1>3, <1>4, <1>5, <2>1, <2>2 DEF RunInv, Searching
<1>9. CASE AfterFlip
  <2>1. /\ pc = "make" /\ pc' \in {"while", "stop"}
        /\ num_flips_done' = num_flips_done + 1
        /\ UNCHANGED <<iteration, result, configuration>>
    BY <1>9 DEF AfterFlip, MakeDone, solver_vars
  <2>2. num_flips_done < MostFlips
    BY <1>1, <2>1 DEF RunInv
  <2>3. num_flips_done' \in 0 .. MostFlips
    BY <1>2, <2>1, <2>2
  <2>4. pc' = "while" /\ settings.max_flips # 0 => num_flips_done' < MostFlips
    BY <1>2, <1>9 DEF AfterFlip, FlipsLeft
  <2>. QED  BY <1>1, <1>2, <1>3, <1>4, <1>5, <2>1, <2>3, <2>4 DEF RunInv, Searching
<1>10. CASE Solved
  <2>1. /\ pc \in {"while", "stop"} /\ pc' = "done" /\ result' = "solved"
        /\ unsat_clauses' = <<>>
        /\ UNCHANGED <<num_flips_done, iteration, configuration>>
    BY <1>10 DEF Solved, instance_vars, FoundSolution
  <2>. QED  BY <1>1, <1>2, <1>3, <1>4, <1>5, <2>1 DEF RunInv, Searching
<1>11. CASE Unsolved
  <2>1. pc = "stop" /\ UNCHANGED <<num_flips_done, configuration>>
    BY <1>11 DEF Unsolved, instance_vars
  <2>2. \/ /\ iteration < settings.num_iterations /\ iteration' = iteration + 1
           /\ pc' = "again" /\ result' = result
        \/ pc' = "done" /\ result' = "unsolved" /\ iteration' = iteration
    BY <1>11 DEF Unsolved
  <2>3. iteration' \in 1 .. settings.num_iterations
        /\ (pc' = "again" => iteration' > 1)
    BY <1>2, <2>2
  <2>4. /\ pc' \in {"again", "done"} /\ (pc' # "done" => result' = "none")
        /\ result' \in {"none", "solved", "unsolved"} /\ result' # "solved"
    BY <1>1, <2>1, <2>2
  <2>. QED  BY <1>1, <1>2, <1>3, <1>4, <1>5, <2>1, <2>3, <2>4 DEF RunInv, Searching
<1>12. CASE UNCHANGED vars
  <2>1. UNCHANGED <<pc, file, settings, iteration, num_flips_done, result, configuration,
                    unsat_clauses>>
    BY <1>12 DEF vars, cnf_vars, instance_vars, solver_vars
  <2>2. InstanceInit => InstanceInit'
    BY <1>12 DEF vars, instance_vars, InstanceInit
  <2>. QED  BY <1>1, <1>5, <2>1, <2>2 DEF RunInv, Searching
<1>. QED  BY <1>6, <1>7, <1>8, <1>9, <1>10, <1>11, <1>12 DEF Next

(* The invariant holds before anything is read.                            *)
LEMMA InvInit ==
    ASSUME Init
    PROVE  Inv
<1>1. /\ file \in Files /\ pc = "read" /\ settings \in SettingsFor(file)
      /\ iteration = 1 /\ result = "none" /\ InstanceInit /\ num_flips_done = 0
  BY DEF Init, CnfInit, InstanceInit
<1>2. MostFlips \in Nat /\ settings.num_iterations \in Nat \ {0}
  BY <1>1, SolverAssumption DEF MostFlips
<1>3. RunInv
  BY <1>1, <1>2 DEF RunInv, Searching
<1>. QED  BY <1>1, <1>3, FormulaInit DEF Inv, Searching

(* Each step of Next, from parse_clause to the result, keeps the invariant.*)
THEOREM InvNext ==
    ASSUME NoTautologies
    PROVE  Inv /\ [Next]_vars => Inv'
<1>. SUFFICES ASSUME Inv, [Next]_vars PROVE Inv'
  OBVIOUS
<1>1. FormulaInv'
  <2>1. FormulaInv
    BY DEF Inv
  <2>. QED  BY <2>1, FormulaNext
<1>2. /\ RunInv'
      /\ pc' \in {"read", "fill", "failed", "while", "break", "make", "stop",
                  "again", "done"}
  BY RunNext
<1>3. Searching' => SearchInv'
  BY <1>1, SearchNext
<1>. QED  BY <1>1, <1>2, <1>3 DEF Inv

(* Whatever is read and flipped (worker_task.hpp:100-200, probsat.cpp), the*)
(* lists of serial_instance agree on one set of true literals per clause at*)
(* every step of flip_literal.                                             *)
THEOREM Invariant ==
    ASSUME NoTautologies
    PROVE  Spec => []Inv
<1>1. Init => Inv
  BY InvInit
<1>2. Inv /\ [Next]_vars => Inv'
  BY InvNext
<1>. QED  BY <1>1, <1>2, PTL DEF Spec

-----------------------------------------------------------------------------
(* What follows from the invariant, for every file without an always-true  *)
(* line, every limit of flips and both programs.                           *)

(* Every variable has its type; a task or an attempt makes no more flips   *)
(* than it may (worker_task.hpp:170, probsat.cpp:81).                      *)
THEOREM SolverTypes ==
    ASSUME NoTautologies
    PROVE  Spec => []TypeOK
<1>1. ASSUME Inv PROVE TypeOK
  <2>1. /\ FormulaInv /\ LinesRead /\ RunInv /\ file \in Files
        /\ (Searching => SearchInv)
        /\ clauses \in Seq(Seq(Literals))
        /\ pc \in {"read", "fill", "failed", "while", "break", "make", "stop",
                   "again", "done"}
    BY <1>1 DEF Inv, FormulaInv, LinesRead
  <2>2. \A slot \in DOMAIN clauses_with_vars :
            clauses_with_vars[slot] \in 1 .. Len(file.lines)
    <3>1. CASE pc \in {"read", "failed"}
      BY <2>1, <3>1 DEF FormulaInv
    <3>2. CASE pc \notin {"read", "failed"}
      <4>1. LaidOut
        BY <2>1, <3>2 DEF FormulaInv, Searching
      <4>. QED  BY <4>1 DEF LaidOut
    <3>. QED  BY <3>1, <3>2
  <2>3. AllClauses = 1 .. Len(clauses)
    BY DEF AllClauses
  <2>4. todo \in Seq(AllClauses) /\ unsat_clauses \in Seq(AllClauses)
    <3>1. CASE Searching
      <4>1. unsat_clauses \in Seq(AllClauses)
        BY <2>1, <2>3, <3>1 DEF SearchInv, ListsInv, ListsAgree, ListAgrees
      <4>2. todo = <<>> \/ todo \in Seq(AllClauses)
        BY <2>1, <3>1 DEF SearchInv, FlipInv, ToVisit
      <4>. QED  BY <4>1, <4>2, EmptySeq
    <3>2. CASE ~Searching
      <4>1. InstanceInit
        BY <2>1, <3>2 DEF Searching, RunInv
      <4>. QED  BY <4>1, EmptySeq DEF InstanceInit
    <3>. QED  BY <3>1, <3>2
  <2>5. Solving => /\ belegung.bits \in [Variables -> BOOLEAN]
                   /\ belegung.last_mod_index \in Variables
                   /\ belegung.last_mod_value \in BOOLEAN
    <3>1. SUFFICES ASSUME Solving PROVE /\ belegung.bits \in [Variables -> BOOLEAN]
                                        /\ belegung.last_mod_index \in Variables
                                        /\ belegung.last_mod_value \in BOOLEAN
      OBVIOUS
    <3>2. SearchInv
      BY <2>1, <3>1 DEF Solving, AtRest, Searching
    <3>3. /\ belegung.bits \in Bits(file.num_vars)
          /\ belegung.last_mod_index \in 0 .. file.num_vars
          /\ belegung.last_mod_index # 0
          /\ belegung.last_mod_value \in BOOLEAN
      BY <3>2 DEF SearchInv, IsBitfield, NoIndex
    <3>4. file.num_vars \in Nat
      BY <2>1, FileFacts
    <3>. QED  BY <3>3, <3>4 DEF Variables, Bits
  <2>6. /\ num_flips_done \in
               0 .. (IF settings.max_flips = 0 THEN FlipBound ELSE settings.max_flips)
        /\ iteration \in 1 .. settings.num_iterations
        /\ result \in {"none", "solved", "unsolved"}
    BY <2>1 DEF RunInv, MostFlips
  <2>. QED  BY <2>1, <2>2, <2>4, <2>5, <2>6 DEF TypeOK
<1>. QED  BY <1>1, Invariant, PTL

(* The segments that the loops of flip_literal walk along (cnf_formula.hpp:*)
(* 311-352) are exact for every formula, whatever its size.                *)
THEOREM SegmentsAreExact ==
    ASSUME NoTautologies
    PROVE  Spec => []SegmentsExact
<1>1. ASSUME Inv PROVE SegmentsExact
  <2>1. Solving => FormulaInv /\ Searching
    BY <1>1 DEF Inv, Solving, AtRest, Searching
  <2>. QED  BY <2>1, SegmentFacts DEF SegmentsExact
<1>. QED  BY <1>1, Invariant, PTL

(* The list of unsatisfied clauses and its index agree at every step of    *)
(* make_clause_sat and make_clause_unsat (instance.hpp:367-395).           *)
THEOREM ListAndIndexMatch ==
    ASSUME NoTautologies
    PROVE  Spec => []ListMatchesIndex
<1>1. ASSUME Inv PROVE ListMatchesIndex
  <2>1. SUFFICES ASSUME Solving
                 PROVE  /\ \A i \in DOMAIN unsat_clauses :
                               unsat_clauses_location[unsat_clauses[i]] = i - 1
                        /\ \A c \in AllClauses :
                               unsat_clauses_location[c] >= 0 => c \in ToSet(unsat_clauses)
    BY DEF ListMatchesIndex
  <2>2. SearchInv
    BY <1>1, <2>1 DEF Inv, Solving, AtRest, Searching
  <2>3. ListAgrees(Len(clauses), unsat_clauses, unsat_clauses_location)
    BY <2>2 DEF SearchInv, ListsInv, ListsAgree
  <2>. QED  BY <2>3 DEF ListAgrees, AllClauses, ToSet
<1>. QED  BY <1>1, Invariant, PTL

(* Between two flips what is counted is what is true.                      *)
LEMMA CountedAtRest ==
    ASSUME Inv, AtRest
    PROVE  /\ LinesRead /\ SearchInv /\ pc \notin {"break", "make"}
           /\ \A c \in 1 .. Len(clauses) :
                  /\ CountedIn[c] = TrueIn(clauses[c], ValueOf(belegung))
                  /\ NumSatLit(c, ValueOf(belegung)) = Cardinality(CountedIn[c])
<1>1. LinesRead /\ SearchInv /\ pc \notin {"break", "make"}
  BY DEF Inv, FormulaInv, AtRest, Searching
<1>2. ASSUME NEW c \in 1 .. Len(clauses)
      PROVE  /\ CountedIn[c] = TrueIn(clauses[c], ValueOf(belegung))
             /\ NumSatLit(c, ValueOf(belegung)) = Cardinality(CountedIn[c])
  <2>1. CountedIn[c] = Taken(clauses, ValueOf(belegung), literal, todo, pc, c)
    BY <1>1, CountedTyped
  <2>2. CountedIn[c] = TrueIn(clauses[c], ValueOf(belegung))
    BY <1>1, <2>1 DEF Taken
  <2>3. PICK clause : /\ clause = clauses[c] /\ IsClean(clause)
                      /\ clause \in Seq(LiteralsOf(file.num_vars))
                      /\ file.num_vars \in Nat
    BY <1>1, ClauseFacts
  <2>4. PICK a : a = ValueOf(belegung)
    OBVIOUS
  <2>5. Cardinality(TruePlaces(clause, a)) = Cardinality(TrueIn(clause, a))
    BY <2>3, TrueOfClause
  <2>. QED  BY <2>2, <2>3, <2>4, <2>5 DEF NumSatLit
<1>. QED  BY <1>1, <1>2

(* "if a clause is satisfied, location is negative count of satisfied      *)
(* literals in clause" (instance.hpp:55), whatever flips were made.        *)
THEOREM LocationsCountSatisfied ==
    ASSUME NoTautologies
    PROVE  Spec => []LocationCountsSatisfied
<1>1. ASSUME Inv PROVE LocationCountsSatisfied
  <2>1. SUFFICES ASSUME AtRest, NEW c \in AllClauses
                 PROVE  IF NumSatLit(c, ValueOf(belegung)) > 0
                        THEN unsat_clauses_location[c] = -NumSatLit(c, ValueOf(belegung))
                        ELSE unsat_clauses_location[c] >= 0
    BY DEF LocationCountsSatisfied
  <2>. DEFINE n == file.num_vars
              m == Len(clauses)
              loc == unsat_clauses_location
  <2>2. /\ LinesRead /\ SearchInv /\ c \in 1 .. m
        /\ NumSatLit(c, ValueOf(belegung)) = Cardinality(CountedIn[c])
    BY <1>1, <2>1, CountedAtRest DEF AllClauses
  <2>3. PICK T : T = CountedIn
    OBVIOUS
  <2>4. /\ n \in Nat /\ m \in Nat /\ T \in [1 .. m -> SUBSET LiteralsOf(n)]
    BY <2>2, <2>3, ClauseFacts, CountedTyped
  <2>5. CountsAgree(m, T, loc)
    BY <2>2, <2>3 DEF SearchInv, ListsInv, ListsAgree
  <2>6. /\ IsFiniteSet(T[c]) /\ Cardinality(T[c]) \in Nat
        /\ Cardinality(T[c]) = 0 <=> T[c] = {}
        /\ T[c] = {} => loc[c] >= 0
        /\ T[c] # {} => loc[c] = -Cardinality(T[c])
    <3>. HIDE DEF n, m, loc
    <3>. QED  BY <2>2, <2>4, <2>5, SetsCounted
  <2>. QED  BY <2>2, <2>3, <2>6
<1>. QED  BY <1>1, Invariant, PTL

(* A flip of a variable breaks the clauses whose one true literal is its.  *)
THEOREM BreaksAreExact ==
    ASSUME NoTautologies
    PROVE  Spec => []NumBreaksExact
<1>1. ASSUME Inv PROVE NumBreaksExact
  <2>. DEFINE n == file.num_vars
              m == Len(clauses)
              a == ValueOf(belegung)
              T == CountedIn
  <2>1. SUFFICES ASSUME AtRest, NEW v \in Variables
                 PROVE  num_breaks_by_flip[v] =
                            Cardinality(BrokenByFlip(IF Get(belegung, v) THEN v ELSE -v, a))
    BY DEF NumBreaksExact
  <2>2. /\ LinesRead /\ SearchInv
        /\ \A c \in 1 .. m : /\ T[c] = TrueIn(clauses[c], a)
                             /\ NumSatLit(c, a) = Cardinality(T[c])
    BY <1>1, <2>1, CountedAtRest
  <2>3. /\ n \in Nat /\ m \in Nat /\ T \in [1 .. m -> SUBSET LiteralsOf(n)]
        /\ ClausesOver(n, m, clauses) /\ v \in 1 .. n
    BY <2>1, <2>2, ClauseFacts, CountedTyped
  <2>4. num_breaks_by_flip[v] = Cardinality(DependOn(m, T, v))
    BY <2>2, <2>3 DEF SearchInv, ListsInv, ListsAgree, BreaksAgree
  <2>5. PICK l : l = IF Get(belegung, v) THEN v ELSE -v
    OBVIOUS
  <2>6. a[v] = Get(belegung, v) /\ a[v] \in BOOLEAN
    <3>1. IsBitfield(belegung, n)
      BY <2>2 DEF SearchInv
    <3>2. DOMAIN belegung.bits = 1 .. n
      BY <3>1 DEF IsBitfield, Bits
    <3>3. a \in Bits(n)
      BY <2>3, <3>1, BitfieldValue
    <3>4. a[v] = Get(belegung, v)
      BY <2>3, <3>2 DEF ValueOf
    <3>. QED  BY <2>3, <3>3, <3>4 DEF Bits
  <2>7. /\ l = v \/ l = -v
        /\ IsTrue(l, a) /\ ~IsTrue(-l, a) /\ -(-l) = l
        /\ {v, -v} = {l, -l}
    <3>1. Abs(v) = v /\ Abs(-v) = v /\ v > 0 /\ ~(-v > 0) /\ -(-v) = v
      BY <2>3 DEF Abs
    <3>2. CASE a[v]
      <4>1. l = v
        BY <2>5, <2>6, <3>2
      <4>. QED  BY <3>1, <3>2, <4>1 DEF IsTrue
    <3>3. CASE ~a[v]
      <4>1. l = -v
        BY <2>5, <2>6, <3>3
      <4>. QED  BY <2>6, <3>1, <3>3, <4>1 DEF IsTrue
    <3>. QED  BY <2>6, <3>2, <3>3
  <2>8. ASSUME NEW c \in 1 .. m
        PROVE  (T[c] = {v} \/ T[c] = {-v}) <=>
                   (l \in ToSet(clauses[c]) /\ Cardinality(T[c]) = 1)
    <3>. PICK S : S = T[c]
      OBVIOUS
    <3>1. S = {lit \in ToSet(clauses[c]) : IsTrue(lit, a)} /\ S \subseteq LiteralsOf(n)
      BY <2>2, <2>3 DEF TrueIn
    <3>2. IsFiniteSet(S) /\ \A x \in S : Cardinality(S) = 1 <=> S = {x}
      <4>1. IsFiniteSet(S)
        BY <2>3, <3>1, LiteralsFinite, FS_Subset
      <4>. QED  BY <4>1, SizeOfSet
    <3>3. -l \notin S
      BY <2>7, <3>1
    <3>4. l \in S <=> l \in ToSet(clauses[c])
      BY <2>7, <3>1
    <3>5. (S = {v} \/ S = {-v}) <=> S = {l}
      BY <2>7, <3>3
    <3>6. S = {l} <=> (l \in S /\ Cardinality(S) = 1)
      BY <3>2
    <3>. QED  BY <3>4, <3>5, <3>6
  <2>9. DependOn(m, T, v) = BrokenByFlip(l, a)
    <3>. HIDE DEF T, a
    <3>1. BrokenByFlip(l, a) = {c \in 1 .. m : l \in ToSet(clauses[c]) /\ Cardinality(T[c]) = 1}
      BY <2>2 DEF BrokenByFlip, ClausesWith
    <3>. QED  BY <2>8, <3>1 DEF DependOn
  <2>. QED  BY <2>4, <2>5, <2>9
<1>. QED  BY <1>1, Invariant, PTL

(* At any moment the clauses that depend on a variable do so by the same   *)
(* one of its literals.                                                    *)
LEMMA OneSided ==
    ASSUME NEW n \in Nat, NEW m \in Nat, NEW cs, NEW a \in Bits(n),
           NEW lit \in LiteralsOf(n), NEW td, NEW phase, NEW v \in 1 .. n
    PROVE  \E l \in {v, -v} :
               /\ {v, -v} = {l, -l}
               /\ \A c \in 1 .. m : -l \notin Taken(cs, a, lit, td, phase, c)
<1>1. lit \in Int /\ lit # 0 /\ -(-v) = v /\ (lit = Abs(lit) \/ lit = -Abs(lit))
      /\ Abs(lit) \in 1 .. n
  BY LiteralsFinite
<1>2. CASE phase = "make" /\ Abs(lit) = v
  <2>1. lit \in {v, -v} /\ {v, -v} = {lit, -lit} /\ lit # -lit
    BY <1>1, <1>2
  <2>2. \A c \in 1 .. m : -lit \notin Taken(cs, a, lit, td, phase, c)
    BY <1>2, <2>1 DEF Taken
  <2>. QED  BY <2>1, <2>2
<1>3. CASE phase # "make" \/ Abs(lit) # v
  <2>1. a[v] \in BOOLEAN
    BY DEF Bits
  <2>2. Abs(v) = v /\ Abs(-v) = v /\ v > 0 /\ ~(-v > 0)
    BY DEF Abs
  <2>3. PICK l : l = IF a[v] THEN v ELSE -v
    OBVIOUS
  <2>4. l \in {v, -v} /\ {v, -v} = {l, -l}
    BY <1>1, <2>3
  <2>5. ~IsTrue(-l, a)
    <3>1. CASE a[v]
      <4>1. -l = -v
        BY <2>3, <3>1
      <4>. QED  BY <2>2, <3>1, <4>1 DEF IsTrue
    <3>2. CASE ~a[v]
      <4>1. -l = v
        BY <1>1, <2>3, <3>2
      <4>. QED  BY <2>1, <2>2, <3>2, <4>1 DEF IsTrue
    <3>. QED  BY <2>1, <3>1, <3>2
  <2>6. \A c \in 1 .. m : -l \notin TrueIn(cs[c], a)
    BY <2>5 DEF TrueIn
  <2>7. phase = "make" => -l # lit
    <3>1. -l \in {v, -v}
      BY <2>4
    <3>2. \A x \in {v, -v} : Abs(x) = v
      BY <2>2
    <3>. QED  BY <1>3, <3>1, <3>2
  <2>8. \A c \in 1 .. m : -l \notin Taken(cs, a, lit, td, phase, c)
    BY <2>6, <2>7 DEF Taken
  <2>. QED  BY <2>4, <2>8
<1>. QED  BY <1>2, <1>3

(* The number of breaks never leaves the table of the probability function *)
(* nor cnt_t (cached.hpp:34, cnf_formula.hpp:348).                         *)
THEOREM BreaksInRange ==
    ASSUME NoTautologies
    PROVE  Spec => []NumBreaksInRange
<1>1. ASSUME Inv PROVE NumBreaksInRange
  <2>. DEFINE n == file.num_vars
              m == Len(clauses)
              a == ValueOf(belegung)
              T == CountedIn
              most == max_num_breaks_possible
  <2>1. SUFFICES ASSUME Solving, NEW v \in Variables
                 PROVE  /\ num_breaks_by_flip[v] \in 0 .. most
                        /\ num_breaks_by_flip[v] <= CntMax
    BY DEF NumBreaksInRange
  <2>2. /\ LinesRead /\ SearchInv /\ Searching /\ FormulaInv
        /\ Filled /\ num_filled = num_read /\ most \in Nat
    BY <1>1, <2>1 DEF Inv, FormulaInv, Solving, AtRest, Searching
  <2>3. /\ n \in Nat /\ m \in Nat /\ T \in [1 .. m -> SUBSET LiteralsOf(n)]
        /\ ClausesOver(n, m, clauses) /\ v \in 1 .. n /\ num_read = m
        /\ Literals = LiteralsOf(n) /\ CntMax \in Nat
        /\ \A c \in 1 .. m : T[c] = Taken(clauses, a, literal, todo, pc, c)
    BY <2>1, <2>2, ClauseFacts, CountedTyped, FileFacts DEF LinesRead
  <2>4. num_breaks_by_flip[v] = Cardinality(DependOn(m, T, v))
    BY <2>2, <2>3 DEF SearchInv, ListsInv, ListsAgree, BreaksAgree
  <2>5. PICK l \in {v, -v} :
            /\ {v, -v} = {l, -l}
            /\ \A c \in 1 .. m : -l \notin T[c]
    <3>1. a \in Bits(n)
      BY <2>2, <2>3, BitfieldValue DEF SearchInv
    <3>2. PICK lit \in LiteralsOf(n) :
              pc \in {"break", "make"} => lit = literal
      <4>1. v \in LiteralsOf(n)
        BY <2>3 DEF LiteralsOf
      <4>2. pc \in {"break", "make"} => literal \in LiteralsOf(n)
        BY <2>2, <2>3 DEF SearchInv, FlipInv
      <4>. QED  BY <4>1, <4>2
    <3>3. \A c : Taken(clauses, a, literal, todo, pc, c) = Taken(clauses, a, lit, todo, pc, c)
      BY <3>2 DEF Taken
    <3>4. \E x \in {v, -v} :
              /\ {v, -v} = {x, -x}
              /\ \A c \in 1 .. m : -x \notin Taken(clauses, a, lit, todo, pc, c)
      <4>. HIDE DEF n, m, a
      <4>. QED  BY <2>3, <3>1, OneSided
    <3>. HIDE DEF T, a, m, n
    <3>. QED  BY <2>3, <3>3, <3>4
  <2>6. DependOn(m, T, v) \subseteq With(l, num_read)
    <3>1. ASSUME NEW c \in 1 .. m, T[c] = {v} \/ T[c] = {-v}
          PROVE  l \in ToSet(clauses[c])
      <4>1. T[c] = {l}
        BY <2>5, <3>1
      <4>2. T[c] \subseteq ToSet(clauses[c])
        <5>1. Taken(clauses, a, literal, todo, pc, c) \subseteq ToSet(clauses[c])
          BY <2>3, TakenTyped
        <5>. QED  BY <2>3, <5>1
      <4>. QED  BY <4>1, <4>2
    <3>. QED  BY <2>3, <3>1 DEF DependOn, With
  <2>7. l \in LiteralsOf(n)
    BY <2>3 DEF LiteralsOf
  <2>8. count[l] = Cardinality(With(l, num_read)) /\ count[l] \in 0 .. CntMax
    BY <2>2, <2>3, <2>7 DEF LinesRead
  <2>9. IsFiniteSet(With(l, num_read))
    <3>1. With(l, num_read) \subseteq 1 .. m /\ IsFiniteSet(1 .. m)
      BY <2>3, FS_Interval DEF With
    <3>. QED  BY <3>1, FS_Subset
  <2>10. /\ Cardinality(DependOn(m, T, v)) \in Nat
         /\ Cardinality(DependOn(m, T, v)) <= count[l]
         /\ IsFiniteSet(DependOn(m, T, v))
    <3>1. PICK D : D = DependOn(m, T, v)
      OBVIOUS
    <3>2. IsFiniteSet(D) /\ Cardinality(D) <= Cardinality(With(l, num_read))
      BY <2>6, <2>9, <3>1, FS_Subset
    <3>. QED  BY <2>8, <3>1, <3>2, FS_CardinalityType
  <2>11. DependOn(m, T, v) # {} => count[l] <= most
    <3>1. SUFFICES ASSUME NEW c \in DependOn(m, T, v) PROVE count[l] <= most
      OBVIOUS
    <3>2. c \in 1 .. num_filled /\ l \in ToSet(clauses[c])
      BY <2>2, <2>6, <3>1 DEF With
    <3>. QED  BY <2>2, <3>2 DEF Filled
  <2>12. DependOn(m, T, v) = {} => Cardinality(DependOn(m, T, v)) = 0
    BY FS_EmptySet
  <2>13. Cardinality(DependOn(m, T, v)) <= most /\ Cardinality(DependOn(m, T, v)) <= CntMax
    <3>. HIDE DEF most, T, m
    <3>. QED  BY <2>2, <2>3, <2>8, <2>10, <2>11, <2>12
  <2>. HIDE DEF most, T, m
  <2>. QED  BY <2>2, <2>4, <2>10, <2>13
<1>. QED  BY <1>1, Invariant, PTL

(* The assertions of ADDITIONAL_CHECKS (instance.hpp:355, 405 and 553) hold*)
(* whether or not they are compiled in.                                    *)
THEOREM ChecksHold ==
    ASSUME NoTautologies
    PROVE  Spec => []AdditionalChecks
<1>1. ASSUME Inv PROVE AdditionalChecks
  <2>. DEFINE n == file.num_vars
              m == Len(clauses)
              a == ValueOf(belegung)
              c == Head(todo)
              loc == unsat_clauses_location
              R == TrueIn(clauses[c], a) \ {-literal}
  <2>1. ASSUME pc = "while", unsat_clauses # <<>>
        PROVE  TruePlaces(ChosenClause, a) = {}
    <3>1. /\ LinesRead /\ RunInv /\ SearchInv /\ file \in Files
      BY <1>1, <2>1 DEF Inv, FormulaInv, LinesRead, Searching
    <3>2. PICK d \in 1 .. m : /\ ChosenClause = clauses[d]
                              /\ TrueIn(clauses[d], a) = {}
      BY <2>1, <3>1, FlipsCounted, ClauseChosen DEF SearchInv
    <3>. QED  BY <3>2 DEF TruePlaces, TrueIn, ToSet
  <2>2. ASSUME pc \in {"break", "make"}, todo # <<>>
        PROVE  /\ LinesRead /\ c \in 1 .. m
               /\ IsFiniteSet(CountedIn[c]) /\ Cardinality(CountedIn[c]) \in Nat
               /\ loc[c] < 0 => loc[c] = -Cardinality(CountedIn[c])
               /\ pc = "break" => CountedIn[c] = TrueIn(clauses[c], a)
               /\ pc = "make" => CountedIn[c] = R
               /\ Cardinality(CountedIn[c]) = 1 =>
                      CountedIn[c] = {crit_literal_in_clause[c]}
               /\ R # {} => LeftCritical(c) \in R /\ LeftCritical(c) # 0
    <3>1. LinesRead /\ SearchInv
      BY <1>1, <2>2 DEF Inv, FormulaInv, Searching
    <3>2. ToVisit(IF pc = "break" THEN -literal ELSE literal) /\ ListsInv
      BY <2>2, <3>1 DEF SearchInv, FlipInv
    <3>3. c \in 1 .. m /\ c \in ToSet(todo)
      <4>. DEFINE lit == IF pc = "break" THEN -literal ELSE literal
      <4>1. ToVisit(lit)
        BY <3>2
      <4>. HIDE DEF lit
      <4>. QED  BY <2>2, <3>1, <4>1, HeadOfTodo
    <3>4. CountedIn[c] = Taken(clauses, a, literal, todo, pc, c)
      BY <3>1, <3>3, CountedTyped
    <3>5. /\ pc = "break" => CountedIn[c] = TrueIn(clauses[c], a)
          /\ pc = "make" => CountedIn[c] = R
      BY <3>3, <3>4 DEF Taken
    <3>6. /\ CountsAgree(m, CountedIn, loc)
          /\ CriticalAgrees(m, CountedIn, crit_literal_in_clause)
      BY <3>2 DEF ListsInv, ListsAgree
    <3>7. PICK T : T = CountedIn
      OBVIOUS
    <3>8. n \in Nat /\ m \in Nat /\ T \in [1 .. m -> SUBSET LiteralsOf(n)]
      BY <3>1, <3>7, ClauseFacts, CountedTyped
    <3>9. /\ IsFiniteSet(T[c]) /\ Cardinality(T[c]) \in Nat
          /\ Cardinality(T[c]) = 0 <=> T[c] = {}
          /\ T[c] = {} => loc[c] >= 0
          /\ T[c] # {} => loc[c] = -Cardinality(T[c])
      <4>1. CountsAgree(m, T, loc)
        BY <3>6, <3>7
      <4>. HIDE DEF n, m, loc, c
      <4>. QED  BY <3>3, <3>8, <4>1, SetsCounted
    <3>10. loc[c] < 0 => loc[c] = -Cardinality(T[c])
      <4>1. loc[c] \in Int
        BY <3>2, <3>3 DEF ListsInv, ListsAgree, ListAgrees
      <4>. HIDE DEF loc, c
      <4>. QED  BY <3>9, <4>1
    <3>11. Cardinality(T[c]) = 1 => T[c] = {crit_literal_in_clause[c]}
      BY <3>3, <3>6, <3>7 DEF CriticalAgrees
    <3>12. R # {} => LeftCritical(c) \in R /\ LeftCritical(c) # 0
      BY <3>1, <3>3, LeftFound
    <3>. QED  BY <3>1, <3>3, <3>5, <3>7, <3>9, <3>10, <3>11, <3>12
  <2>3. ASSUME pc = "break", todo # <<>>, loc[c] = -2
        PROVE  LeftCritical(c) # 0
    <3>1. PICK S : S = TrueIn(clauses[c], a)
      OBVIOUS
    <3>2. IsFiniteSet(S) /\ Cardinality(S) = 2
      <4>. HIDE DEF loc, c, m, R
      <4>. QED  BY <2>2, <2>3, <3>1
    <3>3. S \ {-literal} # {}
      <4>1. -literal \in S => Cardinality(S \ {-literal}) = Cardinality(S) - 1
        BY <3>2, SizeOfSet
      <4>2. S \ {-literal} = {} => Cardinality(S \ {-literal}) = 0
        BY FS_EmptySet
      <4>3. -literal \notin S => S \ {-literal} = S
        OBVIOUS
      <4>. QED  BY <3>2, <4>1, <4>2, <4>3
    <3>4. R # {} => LeftCritical(c) # 0
      BY <2>2, <2>3
    <3>. QED  BY <3>1, <3>3, <3>4
  <2>4. ASSUME pc = "make", todo # <<>>, loc[c] = -1
        PROVE  /\ CachedCritical(c) # 0
               /\ CachedCritical(c) \in {LeftCritical(c), literal}
    <3>1. /\ Cardinality(CountedIn[c]) = 1 /\ CountedIn[c] = R
      <4>. HIDE DEF loc, c, m, R
      <4>. QED  BY <2>2, <2>4
    <3>2. R = {crit_literal_in_clause[c]}
      BY <2>2, <2>4, <3>1
    <3>3. LeftCritical(c) \in R /\ LeftCritical(c) # 0
      BY <2>2, <2>4, <3>2
    <3>. QED  BY <3>2, <3>3 DEF CachedCritical
  <2>. QED  BY <2>1, <2>3, <2>4 DEF AdditionalChecks
<1>. QED  BY <1>1, Invariant, PTL

-----------------------------------------------------------------------------
(* The refinement of Walk.                                                 *)
LEMMA SatisfiedLine ==
    ASSUME NEW line
    PROVE  W!Satisfied(line) <=> TrueIn(line, ValueOf(belegung)) # {}
<1>1. W!ToSet(line) = ToSet(line)
  BY DEF W!ToSet, ToSet
<1>2. \A lit : W!VariableOf(lit) = Abs(lit)
  BY DEF W!VariableOf, Abs
<1>3. W!Satisfied(line) <=>
        \E lit \in ToSet(line) : ValueOf(belegung)[Abs(lit)] = (lit > 0)
  BY <1>1, <1>2 DEF W!Satisfied
<1>. QED  BY <1>3 DEF TrueIn, IsTrue

(* Walk's own names for helpers of the model mean the same.                *)
LEMMA SameSets == \A s : W!ToSet(s) = ToSet(s)
BY DEF W!ToSet, ToSet

(* Walk's satisfied assignment, in the terms of the lists.                 *)
LEMMA SatisfiedAlways ==
    W!AllSatisfied <=> \A line \in ToSet(file.lines) : TrueIn(line, ValueOf(belegung)) # {}
BY SatisfiedLine, SameSets DEF W!AllSatisfied

(* At the end of an attempt the list tells whether every line is satisfied.*)
LEMMA ListTells ==
    ASSUME Inv, Searching, pc \notin {"break", "make"}
    PROVE  W!AllSatisfied <=> unsat_clauses = <<>>
<1>. DEFINE n == file.num_vars
            m == Len(clauses)
            a == ValueOf(belegung)
            T == CountedIn
            loc == unsat_clauses_location
<1>1. /\ LinesRead /\ LaidOut /\ SearchInv /\ RunInv /\ file \in Files
      /\ num_read = Len(file.lines)
  BY DEF Inv, FormulaInv, LinesRead, LaidOut
<1>2. /\ n \in Nat /\ m \in Nat /\ num_read = m
      /\ T \in [1 .. m -> SUBSET LiteralsOf(n)]
      /\ \A c \in 1 .. m : /\ T[c] = Taken(clauses, a, literal, todo, pc, c)
                           /\ clauses[c] = file.lines[c]
  BY <1>1, ClauseFacts, CountedTyped DEF LinesRead
<1>3. \A c \in 1 .. m : T[c] = TrueIn(clauses[c], a)
  BY <1>2 DEF Taken
<1>4. W!AllSatisfied <=> \A c \in 1 .. m : TrueIn(clauses[c], a) # {}
  <2>1. DOMAIN file.lines = 1 .. m
    BY <1>1, <1>2, FileFacts, LenProperties
  <2>2. ToSet(file.lines) = {clauses[c] : c \in 1 .. m}
    BY <1>2, <2>1 DEF ToSet
  <2>3. W!AllSatisfied <=> \A line \in ToSet(file.lines) : TrueIn(line, a) # {}
    BY SatisfiedAlways
  <2>. QED  BY <2>2, <2>3
<1>5. /\ ListAgrees(m, unsat_clauses, loc) /\ CountsAgree(m, T, loc) /\ ListsInv
  BY <1>1 DEF SearchInv, ListsInv, ListsAgree
<1>6. ASSUME unsat_clauses = <<>>, NEW c \in 1 .. m
      PROVE  T[c] # {}
  <2>1. T[c] = {} => loc[c] >= 0
    BY <1>5 DEF CountsAgree
  <2>2. loc[c] >= 0 => loc[c] + 1 \in DOMAIN unsat_clauses
    BY <1>5 DEF ListAgrees
  <2>3. loc[c] + 1 \notin DOMAIN unsat_clauses
    BY <1>6
  <2>. QED  BY <2>1, <2>2, <2>3
<1>7. ASSUME unsat_clauses # <<>>
      PROVE  \E c \in 1 .. m : TrueIn(clauses[c], a) = {}
  <2>1. num_flips_done \in Nat
    BY <1>1, FlipsCounted
  <2>. QED  BY <1>1, <1>5, <1>7, <2>1, ClauseChosen
<1>. QED  BY <1>3, <1>4, <1>6, <1>7

(* There is an assignment exactly while there is an instance.              *)
LEMMA AssignmentMade ==
    ASSUME Inv
    PROVE  /\ Searching => /\ ValueOf(belegung) \in Bits(file.num_vars)
                           /\ ValueOf(belegung) # W!NoAssignment
           /\ ~Searching => ValueOf(belegung) = W!NoAssignment
<1>1. ASSUME Searching
      PROVE  /\ ValueOf(belegung) \in Bits(file.num_vars)
             /\ ValueOf(belegung) # W!NoAssignment
  <2>1. /\ file.num_vars \in Nat \ {0} /\ IsBitfield(belegung, file.num_vars)
    BY <1>1, FileFacts DEF Inv, FormulaInv, LinesRead, SearchInv
  <2>2. ValueOf(belegung) \in Bits(file.num_vars)
    BY <2>1, BitfieldValue
  <2>3. 1 \in DOMAIN ValueOf(belegung)
    BY <2>1, <2>2 DEF Bits
  <2>4. DOMAIN <<>> = {}
    OBVIOUS
  <2>. QED  BY <2>2, <2>3, <2>4 DEF W!NoAssignment
<1>2. ASSUME ~Searching PROVE ValueOf(belegung) = W!NoAssignment
  <2>1. belegung.bits = <<>>
    BY <1>2 DEF Inv, RunInv, Searching, InstanceInit
  <2>. QED  BY <2>1 DEF ValueOf, W!NoAssignment
<1>. QED  BY <1>1, <1>2

(* Every step of the program is a step of Walk or changes nothing that Walk*)
(* sees.                                                                   *)
LEMMA WalkStep ==
    ASSUME NoTautologies, Inv, Inv', Next
    PROVE  [W!Next]_(W!vars)
<1>. DEFINE a == ValueOf(belegung)
            starts == settings.num_iterations - StartsMade
            res == IF pc = "failed" THEN "failed" ELSE result
<1>1. /\ FormulaInv /\ LinesRead /\ RunInv /\ file \in Files
      /\ (Searching => SearchInv)
      /\ (pc # "done" => result = "none")
      /\ settings.num_iterations \in Nat \ {0}
      /\ iteration \in 1 .. settings.num_iterations
      /\ (pc \in {"read", "fill", "failed"} => iteration = 1)
  <2>1. FormulaInv /\ LinesRead /\ RunInv /\ file \in Files /\ (Searching => SearchInv)
    BY DEF Inv, FormulaInv, LinesRead
  <2>. QED  BY <2>1, RunFacts DEF RunInv
<1>2. CASE ReadFormula /\ UNCHANGED <<instance_vars, solver_vars>>
  <2>1. /\ pc \in {"read", "fill"} /\ pc' \in {"read", "fill", "failed"}
        /\ file' = file /\ belegung' = belegung
        /\ UNCHANGED <<settings, iteration, result>>
    BY <1>2 DEF ReadFormula, ParseClause, RejectClause, LayOut, FillClause,
                cnf_vars, instance_vars, solver_vars
  <2>2. UNCHANGED <<a, starts>> /\ a = W!NoAssignment /\ result = "none"
    BY <1>1, <2>1, AssignmentMade DEF StartsMade, Searching
  <2>3. CASE pc' = "failed"
    <3>1. res = "none" /\ res' = "failed"
      BY <2>1, <2>2, <2>3
    <3>2. W!Reject
      BY <2>2, <3>1 DEF W!Reject
    <3>. QED  BY <2>1, <3>1, <3>2 DEF W!Next
  <2>4. CASE pc' # "failed"
    <3>1. res' = res
      BY <2>1, <2>4
    <3>. QED  BY <2>1, <2>2, <3>1 DEF W!vars
  <2>. QED  BY <2>3, <2>4
<1>3. CASE Configure
  <2>1. /\ pc \in {"fill", "again"} /\ pc' = "while"
        /\ UNCHANGED <<file, settings, iteration, result>>
    BY <1>3 DEF Configure, Construct, cnf_vars
  <2>2. a # W!NoAssignment => ~W!AllSatisfied
    <3>1. CASE pc = "fill"
      BY <3>1, AssignmentMade DEF Searching
    <3>2. CASE pc = "again"
      BY <1>1, <3>2, ListTells DEF Searching, SearchInv
    <3>. QED  BY <2>1, <3>1, <3>2
  <2>3. starts > 0 /\ starts' = starts - 1
    BY <1>1, <2>1 DEF StartsMade
  <2>4. a' \in [1 .. file.num_vars -> BOOLEAN]
    <3>1. ValueOf(belegung') \in Bits(file.num_vars)
      BY <1>1, <1>3, Configured
    <3>. QED  BY <3>1 DEF Bits
  <2>5. res = "none" /\ res' = res
    BY <1>1, <2>1
  <2>6. W!Start
    BY <2>2, <2>3, <2>4, <2>5 DEF W!Start
  <2>. QED  BY <2>1, <2>5, <2>6 DEF W!Next
<1>4. CASE Flip
  <2>1. /\ pc \in {"while", "break", "make"} /\ pc' \in {"break", "make"}
        /\ UNCHANGED <<file, belegung, settings, iteration, result>>
    BY <1>4 DEF Flip, DoFlip, BreakClause, BreakDone, MakeClause, solver_vars, cnf_vars
  <2>2. UNCHANGED <<a, starts, res>>
    BY <2>1 DEF StartsMade
  <2>. QED  BY <2>1, <2>2 DEF W!vars
<1>5. CASE AfterFlip
  <2>1. /\ pc = "make" /\ pc' \in {"while", "stop"} /\ MakeDone
        /\ UNCHANGED <<file, settings, iteration, result>>
    BY <1>5 DEF AfterFlip, MakeDone, solver_vars, cnf_vars
  <2>2. SearchInv /\ FlipInv
    BY <1>1, <2>1 DEF Searching, SearchInv
  <2>3. a' = [a EXCEPT ![Abs(literal)] = ~@]
    BY <1>1, <2>1, <2>2, FlipEnds
  <2>4. /\ literal \in LiteralsOf(file.num_vars) /\ ~IsTrue(literal, a)
        /\ a \in Bits(file.num_vars)
    BY <1>1, <2>1, <2>2, LiteralFalse, AssignmentMade DEF SearchInv, Searching
  <2>5. a' = [a EXCEPT ![W!VariableOf(literal)] = literal > 0]
    <3>1. Abs(literal) \in 1 .. file.num_vars /\ file.num_vars \in Nat
      BY <1>1, <2>4, LiteralsFinite, FileFacts
    <3>2. a[Abs(literal)] \in BOOLEAN
      BY <2>4, <3>1 DEF Bits
    <3>3. (~a[Abs(literal)]) = (literal > 0)
      BY <2>4, <3>2 DEF IsTrue
    <3>4. W!VariableOf(literal) = Abs(literal)
      BY DEF W!VariableOf, Abs
    <3>5. [a EXCEPT ![Abs(literal)] = ~@] = [a EXCEPT ![Abs(literal)] = ~a[Abs(literal)]]
      OBVIOUS
    <3>6. a' = [a EXCEPT ![Abs(literal)] = ~a[Abs(literal)]]
      BY <2>3, <3>5
    <3>7. PICK v : v = (literal > 0)
      OBVIOUS
    <3>8. (~a[Abs(literal)]) = v
      BY <3>3, <3>7
    <3>9. a' = [a EXCEPT ![Abs(literal)] = v]
      BY <3>6, <3>8, Zenon
    <3>. QED  BY <3>4, <3>7, <3>9, Zenon
  <2>6. PICK c \in AllClauses : /\ literal \in ToSet(clauses[c])
                                /\ TrueLiterals(c, a) = {}
    BY <2>2 DEF FlipInv
  <2>7. clauses[c] \in ToSet(file.lines) /\ ~W!Satisfied(clauses[c])
    <3>1. clauses[c] = file.lines[c] /\ c \in DOMAIN file.lines
      <4>1. /\ c \in 1 .. num_read /\ num_read \in 0 .. Len(file.lines)
            /\ \A d \in 1 .. num_read : clauses[d] = file.lines[d]
        BY <1>1 DEF LinesRead, AllClauses
      <4>2. DOMAIN file.lines = 1 .. Len(file.lines) /\ Len(file.lines) \in Nat
        BY <1>1, FileFacts, LenProperties
      <4>. QED  BY <4>1, <4>2
    <3>2. TrueIn(clauses[c], a) = {}
      BY <2>6 DEF TrueLiterals, TrueIn
    <3>. QED  BY <3>1, <3>2, SatisfiedLine DEF ToSet
  <2>8. a # W!NoAssignment
    BY <2>1, AssignmentMade DEF Searching
  <2>9. starts' = starts /\ res = "none" /\ res' = res
    BY <1>1, <2>1 DEF StartsMade
  <2>10. W!Flip
    <3>1. clauses[c] \in W!ToSet(file.lines) /\ literal \in W!ToSet(clauses[c])
      BY <2>6, <2>7, SameSets
    <3>. QED  BY <2>5, <2>7, <2>8, <2>9, <3>1 DEF W!Flip
  <2>. QED  BY <2>1, <2>9, <2>10 DEF W!Next
<1>6. CASE Solved
  <2>1. /\ pc \in {"while", "stop"} /\ pc' = "done" /\ unsat_clauses = <<>>
        /\ result' = "solved"
        /\ UNCHANGED <<file, belegung, settings, iteration>>
    BY <1>6 DEF Solved, FoundSolution, cnf_vars, instance_vars
  <2>2. W!AllSatisfied /\ a # W!NoAssignment
    BY <2>1, ListTells, AssignmentMade DEF Searching
  <2>3. UNCHANGED <<a, starts>> /\ res = "none" /\ res' = "solved"
    BY <1>1, <2>1 DEF StartsMade
  <2>4. W!Finish
    BY <2>2, <2>3 DEF W!Finish
  <2>. QED  BY <2>1, <2>3, <2>4 DEF W!Next
<1>7. CASE Unsolved
  <2>1. /\ pc = "stop" /\ unsat_clauses # <<>>
        /\ UNCHANGED <<file, belegung, settings>>
    BY <1>7 DEF Unsolved, FoundSolution, cnf_vars, instance_vars
  <2>2. ~W!AllSatisfied /\ a # W!NoAssignment
    BY <2>1, ListTells, AssignmentMade DEF Searching
  <2>3. CASE iteration < settings.num_iterations
    <3>1. iteration' = iteration + 1 /\ pc' = "again" /\ result' = result
      BY <1>7, <2>3 DEF Unsolved
    <3>2. UNCHANGED <<a, starts, res>>
      BY <1>1, <2>1, <3>1 DEF StartsMade
    <3>. QED  BY <2>1, <3>2 DEF W!vars
  <2>4. CASE ~(iteration < settings.num_iterations)
    <3>1. iteration' = iteration /\ pc' = "done" /\ result' = "unsolved"
      BY <1>7, <2>4 DEF Unsolved
    <3>2. /\ UNCHANGED <<a, starts>> /\ starts = 0
          /\ res = "none" /\ res' = "unsolved"
      BY <1>1, <2>1, <2>4, <3>1 DEF StartsMade
    <3>3. W!Finish
      BY <2>2, <3>2 DEF W!Finish
    <3>. QED  BY <2>1, <3>2, <3>3 DEF W!Next
  <2>. QED  BY <2>3, <2>4
<1>. QED  BY <1>2, <1>3, <1>4, <1>5, <1>6, <1>7 DEF Next

(* A run of a task, or of probsat with its num_iterations attempts, is a   *)
(* walk over assignments that flips a variable of an unsatisfied line at   *)
(* every step and that says "solved" only of a satisfying assignment.      *)
THEOREM SolverIsWalk ==
    ASSUME NoTautologies
    PROVE  Spec => ImplementsWalk
<1>1. Init => W!Init
  <2>1. SUFFICES ASSUME Init PROVE W!Init
    OBVIOUS
  <2>2. /\ file \in Files /\ pc = "read" /\ iteration = 1 /\ result = "none"
        /\ settings \in SettingsFor(file)
    BY <2>1 DEF Init, CnfInit
  <2>3. settings.num_iterations \in Nat \ {0}
    BY <2>2, SolverAssumption
  <2>4. ValueOf(belegung) = W!NoAssignment
    <3>1. Inv
      BY <2>1, InvInit
    <3>. QED  BY <2>2, <3>1, AssignmentMade DEF Searching
  <2>5. settings.num_iterations - StartsMade \in Nat \ {0}
    BY <2>2, <2>3 DEF StartsMade
  <2>. QED  BY <2>2, <2>4, <2>5 DEF W!Init
<1>2. Inv /\ Inv' /\ [Next]_vars => [W!Next]_(W!vars)
  <2>1. ASSUME Inv, Inv', Next PROVE [W!Next]_(W!vars)
    BY <2>1, WalkStep
  <2>2. ASSUME UNCHANGED vars PROVE UNCHANGED W!vars
    BY <2>2 DEF vars, W!vars, cnf_vars, instance_vars, solver_vars, StartsMade
  <2>. QED  BY <2>1, <2>2
<1>. QED  BY <1>1, <1>2, Invariant, PTL DEF Spec, ImplementsWalk, W!Spec

(* assert(solver.check_assignment()), worker_task.hpp:184: what a dropped  *)
(* line breaks is true of every file that has none.                        *)
THEOREM SolvedMeansSatisfied ==
    ASSUME NoTautologies
    PROVE  Spec => []SolvedIsSatisfied
<1>1. ASSUME Inv PROVE SolvedIsSatisfied
  <2>1. SUFFICES ASSUME result = "solved", NEW c \in AllClauses,
                        NumSatLit(c, ValueOf(belegung)) = 0
                 PROVE  FALSE
    BY DEF SolvedIsSatisfied, Unsatisfied
  <2>2. AtRest /\ pc = "done" /\ unsat_clauses = <<>>
    BY <1>1, <2>1 DEF Inv, RunInv, AtRest
  <2>3. W!AllSatisfied
    BY <1>1, <2>2, ListTells DEF Searching
  <2>4. /\ LinesRead /\ num_read = Len(file.lines) /\ file \in Files
    BY <1>1, <2>2 DEF Inv, FormulaInv, LinesRead, LaidOut, Searching
  <2>5. clauses[c] = file.lines[c] /\ c \in DOMAIN file.lines
    <3>1. c \in 1 .. num_read /\ clauses[c] = file.lines[c]
      BY <2>4 DEF LinesRead, AllClauses
    <3>. QED  BY <2>4, <3>1, FileFacts, LenProperties
  <2>6. TrueIn(clauses[c], ValueOf(belegung)) # {}
    BY <2>3, <2>5, SatisfiedAlways DEF ToSet
  <2>7. TrueIn(clauses[c], ValueOf(belegung)) = {}
    <3>1. c \in 1 .. Len(clauses) /\ file.num_vars \in Nat
      BY <2>4, FileFacts DEF AllClauses
    <3>2. PICK S : S = CountedIn[c]
      OBVIOUS
    <3>3. S = TrueIn(clauses[c], ValueOf(belegung)) /\ Cardinality(S) = 0
      BY <1>1, <2>1, <2>2, <3>1, <3>2, CountedAtRest
    <3>4. S \in SUBSET LiteralsOf(file.num_vars)
      BY <2>4, <3>1, <3>2, CountedTyped
    <3>5. IsFiniteSet(S)
      BY <3>1, <3>4, LiteralsFinite, FS_Subset
    <3>. QED  BY <3>3, <3>5, SizeOfSet
  <2>. QED  BY <2>6, <2>7
<1>. QED  BY <1>1, Invariant, PTL
=============================================================================
