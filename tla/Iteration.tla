------------------------------ MODULE Iteration ------------------------------
(* Induction and recursion over the naturals, stated with sets and         *)
(* functions: what the proofs about the recursive functions of the pass    *)
(* scheduler and of the evidence queue rest on.                            *)
EXTENDS Integers, FiniteSetTheorems, WellFoundedInduction, TLAPS

(* Numbers have a least one.                                               *)
LEMMA LeastIn ==
  ASSUME NEW S \in SUBSET Nat, S # {}
  PROVE  \E k \in S : \A j \in S : k <= j
<1> DEFINE Upto(k) == S \cap (0 .. k)
           T == {Upto(k) : k \in S}
           R == StrictSubsetOrdering(Nat)
<1>1. T \in SUBSET FiniteSubsetsOf(Nat) /\ T # {}
  <2>1. ASSUME NEW k \in S PROVE Upto(k) \subseteq Nat /\ IsFiniteSet(Upto(k))
    <3>1. IsFiniteSet(0 .. k)
      BY FS_Interval
    <3> QED
      BY <3>1, FS_Subset
  <2> QED
    BY <2>1 DEF FiniteSubsetsOf
<1>2. IsWellFoundedOn(R, FiniteSubsetsOf(Nat))
  BY FS_StrictSubsetOrderingWellFounded
<1> HIDE DEF R
<1>3. PICK x \in T : \A y \in T : ~(<<y, x>> \in R)
  BY <1>1, <1>2, WFMin
<1>4. PICK k \in S : x = Upto(k)
  BY <1>3
<1>5. ASSUME NEW j \in S, j < k PROVE FALSE
  <2>1. k \in Upto(k) /\ k \notin Upto(j)
    BY <1>5
  <2>2. Upto(j) \in T /\ Upto(j) \subseteq Upto(k) /\ Upto(j) # Upto(k)
    BY <1>5, <2>1
  <2>3. Upto(j) \in SUBSET Nat /\ Upto(k) \in SUBSET Nat
    OBVIOUS
  <2>4. <<Upto(j), Upto(k)>> \in R
    BY <2>2, <2>3 DEF R, StrictSubsetOrdering
  <2> QED
    BY <1>3, <1>4, <2>2, <2>4
<1> QED
  BY <1>5

(* What holds of zero and of every successor holds of every number.        *)
LEMMA EveryNatural ==
  ASSUME NEW S, 0 \in S, \A n \in Nat : n \in S => n + 1 \in S
  PROVE  \A n \in Nat : n \in S
<1> SUFFICES ASSUME NEW n \in Nat, n \notin S PROVE FALSE
  OBVIOUS
<1> DEFINE Out == {m \in Nat : m \notin S}
<1>1. PICK k \in Out : \A j \in Out : k <= j
  BY LeastIn
<1>2. k # 0 /\ k - 1 \in Nat /\ k - 1 \notin Out
  BY <1>1
<1> QED
  BY <1>1, <1>2

(* A function applied again and again: the sequence of its values exists.  *)
LEMMA Iterated ==
  ASSUME NEW S, NEW x \in S, NEW F \in [S -> S]
  PROVE  \E f \in [Nat -> S] : f[0] = x /\ \A n \in Nat : f[n + 1] = F[f[n]]
<1> DEFINE Upto(n) == {g \in [0 .. n -> S] :
                         g[0] = x /\ \A i \in 0 .. (n - 1) : g[i + 1] = F[g[i]]}
<1>1. \A n \in Nat : Upto(n) # {}
  <2> DEFINE N == {n \in Nat : Upto(n) # {}}
  <2>1. 0 \in N
    <3>1. [i \in 0 .. 0 |-> x] \in Upto(0)
      OBVIOUS
    <3> QED
      BY <3>1
  <2>2. ASSUME NEW n \in Nat, n \in N PROVE n + 1 \in N
    <3>1. PICK g \in Upto(n) : TRUE
      BY <2>2
    <3> DEFINE h == [i \in 0 .. (n + 1) |-> IF i = n + 1 THEN F[g[n]] ELSE g[i]]
    <3>2. \A i \in 0 .. n : g[i] \in S
      BY <3>1
    <3>3. h \in [0 .. (n + 1) -> S] /\ h[0] = x
      BY <3>1, <3>2
    <3>4. \A i \in 0 .. n : h[i + 1] = F[h[i]]
      BY <3>1
    <3>5. h \in Upto(n + 1)
      BY <3>3, <3>4
    <3> HIDE DEF Upto, h
    <3> QED
      BY <3>5
  <2> HIDE DEF N
  <2>3. \A n \in Nat : n \in N
    BY <2>1, <2>2, EveryNatural
  <2> QED
    BY <2>3 DEF N
<1>2. \A i \in Nat : \A m, n \in Nat : \A g \in Upto(m), h \in Upto(n) :
        i <= m /\ i <= n => g[i] = h[i]
  <2> DEFINE N == {i \in Nat : \A m, n \in Nat : \A g \in Upto(m), h \in Upto(n) :
                                 i <= m /\ i <= n => g[i] = h[i]}
  <2>1. 0 \in N
    OBVIOUS
  <2>2. ASSUME NEW i \in Nat, i \in N PROVE i + 1 \in N
    <3> HIDE DEF Upto
    <3> SUFFICES ASSUME NEW m \in Nat, NEW n \in Nat, NEW g \in Upto(m), NEW h \in Upto(n),
                        i + 1 <= m, i + 1 <= n
                 PROVE  g[i + 1] = h[i + 1]
      OBVIOUS
    <3>1. g[i] = h[i]
      <4>1. i <= m /\ i <= n
        OBVIOUS
      <4> QED
        BY <2>2, <4>1
    <3>2. i \in 0 .. (m - 1) /\ i \in 0 .. (n - 1)
      OBVIOUS
    <3>3. g[i + 1] = F[g[i]]
      BY <3>2 DEF Upto
    <3>4. h[i + 1] = F[h[i]]
      BY <3>2 DEF Upto
    <3> QED
      BY <3>1, <3>3, <3>4
  <2> HIDE DEF N
  <2>3. \A i \in Nat : i \in N
    BY <2>1, <2>2, EveryNatural
  <2> QED
    BY <2>3 DEF N
<1> DEFINE G(n) == CHOOSE g \in Upto(n) : TRUE
           f == [n \in Nat |-> G(n)[n]]
<1>3. \A n \in Nat : G(n) \in Upto(n)
  BY <1>1
<1> HIDE DEF G
<1>4. f \in [Nat -> S] /\ f[0] = x
  BY <1>3
<1>5. ASSUME NEW n \in Nat PROVE f[n + 1] = F[f[n]]
  <2>1. G(n + 1) \in Upto(n + 1) /\ G(n) \in Upto(n) /\ n + 1 \in Nat
    BY <1>3
  <2>2. G(n + 1)[n + 1] = F[G(n + 1)[n]]
    BY <2>1
  <2>3. G(n + 1)[n] = G(n)[n]
    <3>1. n <= n + 1 /\ n <= n
      OBVIOUS
    <3> HIDE DEF Upto
    <3> QED
      BY <1>2, <2>1, <3>1
  <2> QED
    BY <2>1, <2>2, <2>3
<1> QED
  BY <1>4, <1>5

=============================================================================
