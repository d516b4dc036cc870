--------------------------- MODULE ServingProofs ----------------------------
(* Proofs about Serving, for every size of heap, number of globals and     *)
(* bound on the calls: the machine in the instance keeps a frame and       *)
(* scratch words for each call in progress and one evaluation for each     *)
(* global, no reference leads to what was swept or left, and every request *)
(* starts on the machine the service was published with.                   *)
EXTENDS Serving, RunnerProofs, FiniteSetTheorems, SequenceTheorems, Iteration, TLAPS

-----------------------------------------------------------------------------
LEMMA SameCardinality == \A S : M!Cardinality(S) = Cardinality(S)
BY DEF M!Cardinality, Cardinality

-----------------------------------------------------------------------------
(* Everything a set of references leads to.                                *)

(* What the references of a set lead to, one edge further.                 *)
Further(h, marks) == marks \cup ((UNION {h[o] : o \in marks}) \cap DOMAIN h)

LEMMA MarkedSteps ==
  ASSUME NEW h, NEW R, IsFiniteSet(DOMAIN h)
  PROVE  \E f : /\ f \in [Nat -> SUBSET DOMAIN h]
                /\ f[0] = R \cap DOMAIN h
                /\ \A n \in Nat : f[n + 1] = Further(h, f[n])
                /\ M!Reached(h, R) = f[Cardinality(DOMAIN h)]
<1> DEFINE D == DOMAIN h
           K == Cardinality(D)
           S == SUBSET D
           First == R \cap D
           More(marks) == (UNION {h[o] : o \in marks}) \cap D
           F == [marks \in S |-> marks \cup More(marks)]
           G(g) == [n \in 0 .. K |-> IF n = 0 THEN First ELSE g[n - 1] \cup More(g[n - 1])]
<1>0. K \in Nat
  BY FS_CardinalityType
<1>1. First \in S /\ F \in [S -> S]
  <2>1. \A marks : More(marks) \subseteq D
    OBVIOUS
  <2> HIDE DEF More
  <2> QED
    BY <2>1
<1>2. PICK f \in [Nat -> S] : f[0] = First /\ \A n \in Nat : f[n + 1] = F[f[n]]
  <2>1. \A T : \A x \in T : \A H \in [T -> T] :
          \E f \in [Nat -> T] : f[0] = x /\ \A n \in Nat : f[n + 1] = H[f[n]]
    BY Iterated
  <2> HIDE DEF D, K, S, F, First, More, G
  <2>2. First \in S /\ F \in [S -> S]
    BY <1>1
  <2>3. \A x \in S : \A H \in [S -> S] :
          \E f \in [Nat -> S] : f[0] = x /\ \A n \in Nat : f[n + 1] = H[f[n]]
    BY <2>1, SMTT(20)
  <2>4. \A H \in [S -> S] :
          \E f \in [Nat -> S] : f[0] = First /\ \A n \in Nat : f[n + 1] = H[f[n]]
    BY <2>2, <2>3
  <2> QED
    BY <2>2, <2>4
<1>3. \A n \in Nat : f[n + 1] = f[n] \cup More(f[n])
  <2> SUFFICES ASSUME NEW n \in Nat PROVE f[n + 1] = f[n] \cup More(f[n])
    OBVIOUS
  <2> HIDE DEF More
  <2>1. f[n] \in S /\ f[n + 1] = F[f[n]]
    BY <1>2
  <2> QED
    BY <2>1
<1>4. M!Reached(h, R) = (CHOOSE g : g = G(g))[K]
  <2>1. M!Cardinality(DOMAIN h) = Cardinality(DOMAIN h)
    BY SameCardinality
  <2> QED
    BY <2>1 DEF M!Reached
<1> HIDE DEF First, More
<1> DEFINE m == [n \in 0 .. K |-> f[n]]
<1>5. m = G(m)
  <2>1. ASSUME NEW n \in 0 .. K PROVE m[n] = G(m)[n]
    <3>1. CASE n = 0
      BY <1>2, <3>1
    <3>2. CASE n # 0
      <4>1. n - 1 \in Nat /\ (n - 1) + 1 = n /\ n - 1 \in 0 .. K
        BY <1>0, <3>2
      <4>2. f[n] = f[n - 1] \cup More(f[n - 1])
        BY <1>3, <4>1
      <4> QED
        BY <3>2, <4>1, <4>2
    <3> QED
      BY <3>1, <3>2
  <2> QED
    BY <2>1
<1> DEFINE c == CHOOSE g : g = G(g)
<1>6. c = G(c)
  <2> HIDE DEF G, m
  <2> QED
    BY <1>5
<1> HIDE DEF c
<1>7. \A n \in 0 .. K : c[n] = f[n]
  <2> DEFINE N == {n \in Nat : n \in 0 .. K => c[n] = f[n]}
  <2>1. 0 \in N
    <3>1. 0 \in 0 .. K
      BY <1>0
    <3>2. c[0] = First
      BY <1>6, <3>1
    <3> QED
      BY <1>2, <3>2
  <2>2. ASSUME NEW n \in Nat, n \in N PROVE n + 1 \in N
    <3> SUFFICES ASSUME n + 1 \in 0 .. K PROVE c[n + 1] = f[n + 1]
      OBVIOUS
    <3>1. n \in 0 .. K /\ n + 1 # 0 /\ (n + 1) - 1 = n
      BY <1>0
    <3>2. c[n + 1] = c[n] \cup More(c[n])
      BY <1>6, <3>1
    <3>3. c[n] = f[n]
      BY <2>2, <3>1
    <3> QED
      BY <1>3, <3>2, <3>3
  <2> HIDE DEF N
  <2>3. \A n \in Nat : n \in N
    BY <2>1, <2>2, EveryNatural
  <2> QED
    BY <1>0, <2>3 DEF N
<1>8. M!Reached(h, R) = f[K]
  BY <1>0, <1>4, <1>7 DEF c
<1>9. \A marks : More(marks) = (UNION {h[o] : o \in marks}) \cap DOMAIN h
  BY DEF More
<1>10. \A n \in Nat : f[n + 1] = Further(h, f[n])
  BY <1>3, <1>9 DEF Further
<1> QED
  BY <1>2, <1>8, <1>10 DEF First

(* A set that leads nowhere else.                                          *)
Closed(h, S) == \A o \in S : h[o] \cap DOMAIN h \subseteq S

(* What is reached is the least closed set of what is there.               *)
LEMMA ReachedLeast ==
  ASSUME NEW h, NEW R, IsFiniteSet(DOMAIN h)
  PROVE  /\ R \cap DOMAIN h \subseteq M!Reached(h, R) /\ M!Reached(h, R) \subseteq DOMAIN h
         /\ Closed(h, M!Reached(h, R))
         /\ \A S : R \cap DOMAIN h \subseteq S /\ Closed(h, S) => M!Reached(h, R) \subseteq S
<1> DEFINE K == Cardinality(DOMAIN h)
<1>0. K \in Nat
  BY FS_CardinalityType
<1>1. PICK f : /\ f \in [Nat -> SUBSET DOMAIN h]
               /\ f[0] = R \cap DOMAIN h
               /\ \A n \in Nat : f[n + 1] = Further(h, f[n])
               /\ M!Reached(h, R) = f[K]
  BY MarkedSteps
<1> HIDE DEF K
<1>2. \A n \in Nat : f[n] \subseteq f[n + 1]
  BY <1>1 DEF Further
<1>3. \A n \in Nat : R \cap DOMAIN h \subseteq f[n]
  <2> DEFINE N == {n \in Nat : R \cap DOMAIN h \subseteq f[n]}
  <2>1. 0 \in N
    BY <1>1
  <2>2. ASSUME NEW n \in Nat, n \in N PROVE n + 1 \in N
    BY <1>2, <2>2
  <2> HIDE DEF N
  <2>3. \A n \in Nat : n \in N
    BY <2>1, <2>2, EveryNatural
  <2> QED
    BY <2>3 DEF N
<1>4. ASSUME NEW S, R \cap DOMAIN h \subseteq S, Closed(h, S)
      PROVE  \A n \in Nat : f[n] \subseteq S
  <2> DEFINE N == {n \in Nat : f[n] \subseteq S}
  <2>1. 0 \in N
    BY <1>1, <1>4
  <2>2. ASSUME NEW n \in Nat, n \in N PROVE n + 1 \in N
    <3>1. f[n + 1] = Further(h, f[n]) /\ f[n] \subseteq S
      BY <1>1, <2>2
    <3> QED
      BY <1>4, <3>1 DEF Further, Closed
  <2> HIDE DEF N
  <2>3. \A n \in Nat : n \in N
    BY <2>1, <2>2, EveryNatural
  <2> QED
    BY <2>3 DEF N
<1>5. \E j \in Nat : j <= K /\ f[j + 1] = f[j]
  <2> DEFINE Stops(j) == f[j + 1] = f[j]
             N == {n \in Nat : (\E j \in Nat : j < n /\ Stops(j)) \/ Cardinality(f[n]) >= n}
  <2>1. ASSUME NEW n \in Nat
        PROVE  IsFiniteSet(f[n]) /\ Cardinality(f[n]) \in Nat /\ Cardinality(f[n]) <= K
    BY <1>1, FS_Subset, FS_CardinalityType DEF K
  <2>2. 0 \in N
    BY <2>1
  <2>3. ASSUME NEW n \in Nat, n \in N PROVE n + 1 \in N
    <3>1. CASE \E j \in Nat : j < n /\ Stops(j)
      <4>1. PICK j \in Nat : j < n /\ Stops(j)
        BY <3>1
      <4>2. j < n + 1
        BY <4>1
      <4> HIDE DEF Stops
      <4> QED
        BY <4>1, <4>2
    <3>2. CASE Cardinality(f[n]) >= n /\ Stops(n)
      <4>1. n < n + 1
        OBVIOUS
      <4> HIDE DEF Stops
      <4> QED
        BY <3>2, <4>1
    <3>3. CASE Cardinality(f[n]) >= n /\ ~Stops(n)
      <4>1. f[n] \subseteq f[n + 1] /\ f[n] # f[n + 1]
        BY <1>2, <3>3, Zenon
      <4>2. IsFiniteSet(f[n + 1]) /\ Cardinality(f[n + 1]) \in Nat
        BY <2>1
      <4>3. Cardinality(f[n]) < Cardinality(f[n + 1])
        BY <2>1, <4>1, <4>2, FS_Subset
      <4>4. Cardinality(f[n + 1]) >= n + 1
        BY <2>1, <3>3, <4>2, <4>3
      <4> QED
        BY <4>4
    <3> QED
      BY <2>3, <3>1, <3>2, <3>3
  <2> HIDE DEF N
  <2>4. \A n \in Nat : n \in N
    BY <2>2, <2>3, EveryNatural
  <2>5. K + 1 \in N /\ ~(Cardinality(f[K + 1]) >= K + 1)
    BY <1>0, <2>1, <2>4
  <2>6. PICK j \in Nat : j < K + 1 /\ Stops(j)
    BY <1>0, <2>5 DEF N
  <2> QED
    BY <1>0, <2>6
<1>6. PICK j \in Nat : j <= K /\ f[j + 1] = f[j]
  BY <1>5
<1>7. Closed(h, f[j])
  BY <1>1, <1>6 DEF Further, Closed
<1>8. \A n \in Nat : f[n] \subseteq f[j]
  BY <1>3, <1>4, <1>7
<1>9. f[j] \subseteq f[K]
  <2> DEFINE N == {n \in Nat : f[j] \subseteq f[j + n]}
  <2>1. 0 \in N
    OBVIOUS
  <2>2. ASSUME NEW n \in Nat, n \in N PROVE n + 1 \in N
    <3>1. j + n \in Nat /\ j + (n + 1) = (j + n) + 1
      OBVIOUS
    <3>2. f[j + n] \subseteq f[(j + n) + 1]
      BY <1>2, <3>1
    <3> QED
      BY <2>2, <3>1, <3>2
  <2> HIDE DEF N
  <2>3. \A n \in Nat : n \in N
    BY <2>1, <2>2, EveryNatural
  <2>4. K - j \in Nat /\ j + (K - j) = K
    BY <1>0, <1>6
  <2> QED
    BY <2>3, <2>4 DEF N
<1>10. f[K] = f[j]
  BY <1>0, <1>8, <1>9
<1>11. f[K] \in SUBSET DOMAIN h
  BY <1>0, <1>1
<1> QED
  BY <1>0, <1>1, <1>3, <1>4, <1>7, <1>10, <1>11

-----------------------------------------------------------------------------
(* Heaps.                                                                  *)

(* No allocation refers to one that is not there.                          *)
Heaps(h) ==
  /\ DOMAIN h \subseteq M!Allocations
  /\ h = [o \in DOMAIN h |-> h[o]]
  /\ \A o \in DOMAIN h : h[o] \subseteq DOMAIN h

LEMMA HeapFinite ==
  ASSUME M!Assumption, NEW h, DOMAIN h \subseteq M!Allocations
  PROVE  IsFiniteSet(DOMAIN h) /\ Cardinality(DOMAIN h) \in Nat
<1>1. IsFiniteSet(1 .. HeapSize)
  BY FS_Interval DEF M!Assumption
<1> QED
  BY <1>1, FS_Subset, FS_CardinalityType DEF M!Allocations

LEMMA ReachedHas ==
  ASSUME M!Assumption, NEW h, Heaps(h), NEW R
  PROVE  /\ R \cap DOMAIN h \subseteq M!Reached(h, R) /\ M!Reached(h, R) \subseteq DOMAIN h
         /\ \A o \in M!Reached(h, R) : h[o] \subseteq M!Reached(h, R)
<1>1. /\ R \cap DOMAIN h \subseteq M!Reached(h, R) /\ M!Reached(h, R) \subseteq DOMAIN h
      /\ Closed(h, M!Reached(h, R))
  BY HeapFinite, ReachedLeast DEF Heaps
<1> QED
  BY <1>1 DEF Closed, Heaps

LEMMA ReachedIn ==
  ASSUME M!Assumption, NEW h, Heaps(h), NEW R, NEW S,
         R \cap DOMAIN h \subseteq S, \A o \in S : h[o] \subseteq S
  PROVE  M!Reached(h, R) \subseteq S
<1>1. Closed(h, S)
  BY DEF Closed
<1> QED
  BY <1>1, HeapFinite, ReachedLeast DEF Heaps

LEMMA ReachedFrom ==
  ASSUME M!Assumption, NEW h, Heaps(h), NEW R, NEW Q, Q \cap DOMAIN h \subseteq M!Reached(h, R)
  PROVE  M!Reached(h, Q) \subseteq M!Reached(h, R)
BY ReachedHas, ReachedIn

LEMMA ReachedMonotone ==
  ASSUME M!Assumption, NEW h, Heaps(h), NEW R, NEW Q, Q \subseteq R
  PROVE  M!Reached(h, Q) \subseteq M!Reached(h, R)
<1>1. Q \cap DOMAIN h \subseteq M!Reached(h, R)
  BY ReachedHas
<1> QED
  BY <1>1, ReachedFrom

(* What is reached stays so while it is spared and nothing of it forgotten.*)
LEMMA ReachedStays ==
  ASSUME M!Assumption, NEW h, Heaps(h), NEW g, Heaps(g), NEW R,
         M!Reached(h, R) \subseteq DOMAIN g,
         \A o \in M!Reached(h, R) : h[o] \subseteq g[o]
  PROVE  M!Reached(h, R) \subseteq M!Reached(g, R)
<1> DEFINE S == M!Reached(h, R) \cap M!Reached(g, R)
<1>1. R \cap DOMAIN h \subseteq S
  BY ReachedHas
<1>2. \A o \in S : h[o] \subseteq S
  BY ReachedHas
<1> HIDE DEF S
<1>3. M!Reached(h, R) \subseteq S
  BY <1>1, <1>2, ReachedIn
<1> QED
  BY <1>3 DEF S

(* Allocation.                                                             *)
LEMMA FreeIs ==
  ASSUME M!Assumption, NEW h, DOMAIN h \subseteq M!Allocations, job \in M!Jobs, M!Fits(h)
  PROVE  M!Free(h) \in M!Allocations /\ M!Free(h) \notin DOMAIN h /\ M!Free(h) # M!None
<1>1. MaxHeap[job] \in 0 .. HeapSize /\ Cardinality(DOMAIN h) \in Nat
  BY HeapFinite DEF M!Assumption
<1>2. Cardinality(DOMAIN h) < HeapSize
  BY <1>1, SameCardinality DEF M!Fits, M!Assumption
<1>3. IsFiniteSet(1 .. HeapSize) /\ Cardinality(1 .. HeapSize) = HeapSize
  BY FS_Interval DEF M!Assumption
<1>4. DOMAIN h # 1 .. HeapSize
  <2> SUFFICES ASSUME DOMAIN h = 1 .. HeapSize PROVE FALSE
    OBVIOUS
  <2>1. Cardinality(DOMAIN h) = HeapSize
    BY <1>3
  <2> QED
    BY <1>1, <1>2, <2>1 DEF M!Assumption
<1>5. \E o \in M!Allocations : o \notin DOMAIN h
  BY <1>4 DEF M!Allocations
<1>6. M!Free(h) \in M!Allocations /\ M!Free(h) \notin DOMAIN h
  BY <1>5 DEF M!Free
<1> QED
  BY <1>6 DEF M!Allocations, M!None

LEMMA WithIs ==
  ASSUME NEW h, Heaps(h), NEW o \in M!Allocations, o \notin DOMAIN h,
         NEW c, c \subseteq DOMAIN h \cup {o}
  PROVE  /\ Heaps(M!With(h, o, c)) /\ DOMAIN M!With(h, o, c) = DOMAIN h \cup {o}
         /\ M!With(h, o, c)[o] = c
         /\ \A x \in DOMAIN h : M!With(h, o, c)[x] = h[x]
BY DEF M!With, Heaps

LEMMA WriteIs ==
  ASSUME NEW h, Heaps(h), NEW o \in DOMAIN h, NEW c, c \subseteq DOMAIN h
  PROVE  LET g == [h EXCEPT ![o] = c] IN
         /\ Heaps(g) /\ DOMAIN g = DOMAIN h /\ g[o] = c
         /\ \A x \in DOMAIN h \ {o} : g[x] = h[x]
BY DEF Heaps

LEMMA PartIs ==
  ASSUME NEW h, Heaps(h), NEW L, L \subseteq DOMAIN h, \A o \in L : h[o] \subseteq L
  PROVE  LET g == [o \in L |-> h[o]] IN
         Heaps(g) /\ DOMAIN g = L /\ \A o \in L : g[o] = h[o]
BY DEF Heaps

-----------------------------------------------------------------------------
(* Stacks: what is pushed and popped.                                      *)

LEMMA PushIs ==
  ASSUME NEW S, NEW s \in Seq(S), NEW x \in S
  PROVE  /\ Append(s, x) \in Seq(S) /\ Append(s, x) # <<>>
         /\ Len(s) \in Nat /\ Len(Append(s, x)) = Len(s) + 1
         /\ \A i \in 1 .. Len(s) : Append(s, x)[i] = s[i]
         /\ Append(s, x)[Len(s) + 1] = x
OBVIOUS

LEMMA PartOf ==
  ASSUME NEW S, NEW s \in Seq(S), NEW n \in 0 .. Len(s)
  PROVE  /\ SubSeq(s, 1, n) \in Seq(S) /\ Len(SubSeq(s, 1, n)) = n
         /\ \A i \in 1 .. n : SubSeq(s, 1, n)[i] = s[i]
OBVIOUS

LEMMA PopIs ==
  ASSUME NEW S, NEW s \in Seq(S), s # <<>>
  PROVE  /\ M!Pop(s) \in Seq(S) /\ Len(s) \in Nat /\ Len(s) >= 1
         /\ Len(M!Pop(s)) = Len(s) - 1 /\ s[Len(s)] \in S
         /\ \A i \in 1 .. Len(s) - 1 : M!Pop(s)[i] = s[i]
<1>1. Len(s) \in Nat /\ Len(s) >= 1 /\ Len(s) - 1 \in 0 .. Len(s)
  OBVIOUS
<1>2. s[Len(s)] \in S
  BY <1>1
<1> QED
  BY <1>1, <1>2, PartOf DEF M!Pop

LEMMA SameSequence ==
  ASSUME NEW S, NEW s \in Seq(S), NEW t \in Seq(S), Len(s) = Len(t),
         \A i \in 1 .. Len(s) : s[i] = t[i]
  PROVE  s = t
OBVIOUS

(* The top of a stack is replaced by popping it.                           *)
LEMMA ReplaceIs ==
  ASSUME NEW S, NEW s \in Seq(S), s # <<>>, NEW x \in S
  PROVE  LET u == [s EXCEPT ![Len(s)] = x]
         IN  /\ u = Append(M!Pop(s), x)
             /\ u \in Seq(S) /\ Len(u) = Len(s) /\ u[Len(s)] = x
             /\ \A i \in 1 .. Len(s) - 1 : u[i] = s[i]
<1> DEFINE t == Append(M!Pop(s), x)
           u == [s EXCEPT ![Len(s)] = x]
<1>1. /\ M!Pop(s) \in Seq(S) /\ Len(s) \in Nat /\ Len(s) >= 1 /\ Len(M!Pop(s)) = Len(s) - 1
      /\ \A i \in 1 .. Len(s) - 1 : M!Pop(s)[i] = s[i]
  BY PopIs
<1>2. /\ t \in Seq(S) /\ Len(t) = Len(s) /\ t[Len(s)] = x
      /\ \A i \in 1 .. Len(s) - 1 : t[i] = s[i]
  BY <1>1, PushIs
<1>3. /\ u \in Seq(S) /\ Len(u) = Len(s) /\ u[Len(s)] = x
      /\ \A i \in 1 .. Len(s) - 1 : u[i] = s[i]
  BY <1>1
<1> HIDE DEF t, u
<1>4. \A i \in 1 .. Len(u) : u[i] = t[i]
  BY <1>1, <1>2, <1>3
<1> QED
  BY <1>2, <1>3, <1>4, SameSequence DEF t, u

LEMMA Prefixes ==
  ASSUME NEW S, NEW s \in Seq(S), NEW x \in S
  PROVE  /\ \A i \in 1 .. Len(s) : SubSeq(Append(s, x), 1, i - 1) = SubSeq(s, 1, i - 1)
         /\ SubSeq(Append(s, x), 1, Len(s)) = s
         /\ M!Pop(Append(s, x)) = s
<1> DEFINE t == Append(s, x)
<1>1. /\ t \in Seq(S) /\ Len(s) \in Nat /\ Len(t) = Len(s) + 1
      /\ \A i \in 1 .. Len(s) : t[i] = s[i]
  BY PushIs
<1> HIDE DEF t
<1>2. ASSUME NEW i \in 1 .. Len(s) PROVE SubSeq(t, 1, i - 1) = SubSeq(s, 1, i - 1)
  <2>1. i - 1 \in 0 .. Len(s) /\ i - 1 \in 0 .. Len(t)
    BY <1>1
  <2>2. /\ SubSeq(t, 1, i - 1) \in Seq(S) /\ Len(SubSeq(t, 1, i - 1)) = i - 1
        /\ \A j \in 1 .. i - 1 : SubSeq(t, 1, i - 1)[j] = t[j]
    BY <1>1, <2>1, PartOf
  <2>3. /\ SubSeq(s, 1, i - 1) \in Seq(S) /\ Len(SubSeq(s, 1, i - 1)) = i - 1
        /\ \A j \in 1 .. i - 1 : SubSeq(s, 1, i - 1)[j] = s[j]
    BY <2>1, PartOf
  <2>4. \A j \in 1 .. i - 1 : SubSeq(t, 1, i - 1)[j] = SubSeq(s, 1, i - 1)[j]
    BY <1>1, <2>2, <2>3
  <2> QED
    BY <2>2, <2>3, <2>4, SameSequence
<1>3. SubSeq(t, 1, Len(s)) = s
  <2>1. Len(s) \in 0 .. Len(t)
    BY <1>1
  <2>2. /\ SubSeq(t, 1, Len(s)) \in Seq(S) /\ Len(SubSeq(t, 1, Len(s))) = Len(s)
        /\ \A j \in 1 .. Len(s) : SubSeq(t, 1, Len(s))[j] = t[j]
    BY <1>1, <2>1, PartOf
  <2> QED
    BY <1>1, <2>2, SameSequence
<1>4. Len(t) - 1 = Len(s)
  BY <1>1
<1> QED
  BY <1>2, <1>3, <1>4 DEF t, M!Pop

LEMMA PopPush ==
  ASSUME NEW S, NEW s \in Seq(S), s # <<>>
  PROVE  /\ s = Append(M!Pop(s), s[Len(s)])
         /\ \A i \in 1 .. Len(M!Pop(s)) : SubSeq(s, 1, i - 1) = SubSeq(M!Pop(s), 1, i - 1)
         /\ SubSeq(s, 1, Len(s) - 1) = M!Pop(s)
<1> DEFINE x == s[Len(s)]
<1>1. x \in S /\ M!Pop(s) \in Seq(S)
  BY PopIs
<1>2. s = [s EXCEPT ![Len(s)] = x]
  OBVIOUS
<1>3. s = Append(M!Pop(s), x)
  <2> HIDE DEF x
  <2>1. [s EXCEPT ![Len(s)] = x] = Append(M!Pop(s), x)
    BY <1>1, ReplaceIs
  <2> QED
    BY <1>2, <2>1
<1>4. \A i \in 1 .. Len(M!Pop(s)) : SubSeq(Append(M!Pop(s), x), 1, i - 1) = SubSeq(M!Pop(s), 1, i - 1)
  BY <1>1, Prefixes
<1> HIDE DEF x
<1> QED
  BY <1>3, <1>4 DEF M!Pop, x

-----------------------------------------------------------------------------
(* The calls, and what they publish.                                       *)

RootSlots == [ref : Nat, value : BOOLEAN]
RootFrames == [params : SUBSET RootSlots, slots : Seq(RootSlots)]
GuestCalls == [demand : 0 .. Demands, env : Nat, arg : Nat, out : Nat, base : Nat,
               saved : [on : BOOLEAN, rows : Nat, error : Nat], locals : Seq(Nat)]

(* The scratch frames of a stack.                                          *)
Level(cs) == Cardinality({k \in 1 .. Len(cs) : cs[k].demand = M!None})

(* A function has words of its own and a place for its result; a global    *)
(* has neither, and what it handles are allocations.                       *)
Kind(c, level) ==
  IF c.demand = M!None
    THEN /\ c.base = M!Scratch(level + 1)
         /\ c.out # M!None /\ c.out <= M!Scratch(level)
    ELSE /\ c.env = M!None /\ c.arg = M!None /\ c.out = M!None /\ c.base = M!None
         /\ ~c.saved.on
         /\ \A n \in 1 .. Len(c.locals) : c.locals[n] \in M!Allocations

(* The caller has the place it provided in its last local, as a storage.   *)
Linked(cs, fs, out) ==
  /\ cs[Len(cs)].locals # <<>> /\ fs[Len(cs)].slots # <<>>
  /\ cs[Len(cs)].locals[Len(cs[Len(cs)].locals)] = out
  /\ fs[Len(cs)].slots[Len(fs[Len(cs)].slots)] = M!Storage(out)

(* A call and its frame, on top of a stack.                                *)
Atop(cs, fs, c, f) ==
  /\ Len(f.slots) = Len(c.locals)
  /\ Kind(c, Level(cs))
  /\ cs # <<>> /\ c.out \in M!Allocations => Linked(cs, fs, c.out)
  /\ c.demand # M!None => \A j \in 1 .. Len(cs) : cs[j].demand # c.demand
  /\ c.saved.on =>
       /\ cs # <<>> /\ c.out \in M!Allocations
       /\ \A j \in 1 .. Len(cs) : cs[j].saved.on => cs[j].saved.rows <= c.saved.rows

Shaped(cs, fs) ==
  /\ cs \in Seq(GuestCalls) /\ fs \in Seq(RootFrames) /\ Len(fs) = Len(cs)
  /\ \A i \in 1 .. Len(cs) : Atop(SubSeq(cs, 1, i - 1), SubSeq(fs, 1, i - 1), cs[i], fs[i])

LEMMA LevelIs ==
  ASSUME NEW cs \in Seq(GuestCalls)
  PROVE  /\ Level(cs) \in Nat /\ (cs = <<>> => Level(cs) = 0)
         /\ \A c \in GuestCalls :
              Level(Append(cs, c)) = IF c.demand = M!None THEN Level(cs) + 1 ELSE Level(cs)
<1> DEFINE L(s) == {k \in 1 .. Len(s) : s[k].demand = M!None}
<1>0. Len(cs) \in Nat /\ Len(cs) + 1 \notin 1 .. Len(cs)
  OBVIOUS
<1>1. IsFiniteSet(L(cs)) /\ Cardinality(L(cs)) \in Nat
  <2>1. IsFiniteSet(1 .. Len(cs))
    BY <1>0, FS_Interval
  <2> QED
    BY <2>1, FS_Subset, FS_CardinalityType
<1>2. ASSUME cs = <<>> PROVE Cardinality(L(cs)) = 0
  <2>1. L(cs) = {}
    BY <1>2
  <2> HIDE DEF L
  <2> QED
    BY <2>1, FS_EmptySet
<1>3. ASSUME NEW c \in GuestCalls
      PROVE  Cardinality(L(Append(cs, c)))
               = IF c.demand = M!None THEN Cardinality(L(cs)) + 1 ELSE Cardinality(L(cs))
  <2> DEFINE t == Append(cs, c)
  <2>1. /\ Len(t) = Len(cs) + 1 /\ t[Len(cs) + 1] = c
        /\ \A i \in 1 .. Len(cs) : t[i] = cs[i]
    BY PushIs
  <2> HIDE DEF t
  <2>2. CASE c.demand = M!None
    <3>1. L(t) = L(cs) \cup {Len(cs) + 1} /\ Len(cs) + 1 \notin L(cs)
      BY <1>0, <2>1, <2>2
    <3> HIDE DEF L
    <3> QED
      BY <1>1, <2>2, <3>1, FS_AddElement DEF t
  <2>3. CASE c.demand # M!None
    <3>1. L(t) = L(cs)
      BY <1>0, <2>1, <2>3
    <3> HIDE DEF L
    <3> QED
      BY <2>3, <3>1 DEF t
  <2> QED
    BY <2>2, <2>3
<1> HIDE DEF L
<1>4. \A s : Level(s) = Cardinality(L(s))
  BY DEF Level, L
<1> QED
  BY <1>1, <1>2, <1>3, <1>4

LEMMA ShapedPush ==
  ASSUME NEW cs, NEW fs, Shaped(cs, fs), NEW c \in GuestCalls, NEW f \in RootFrames,
         Atop(cs, fs, c, f)
  PROVE  Shaped(Append(cs, c), Append(fs, f))
<1> DEFINE ct == Append(cs, c)
           ft == Append(fs, f)
<1>0. cs \in Seq(GuestCalls) /\ fs \in Seq(RootFrames) /\ Len(fs) = Len(cs)
  BY DEF Shaped
<1>1. /\ ct \in Seq(GuestCalls) /\ Len(cs) \in Nat /\ Len(ct) = Len(cs) + 1
      /\ \A i \in 1 .. Len(cs) : ct[i] = cs[i]
      /\ ct[Len(cs) + 1] = c
  BY <1>0, PushIs
<1>2. /\ ft \in Seq(RootFrames) /\ Len(ft) = Len(cs) + 1
      /\ \A i \in 1 .. Len(cs) : ft[i] = fs[i]
      /\ ft[Len(cs) + 1] = f
  BY <1>0, PushIs
<1>3. /\ \A i \in 1 .. Len(cs) : SubSeq(ct, 1, i - 1) = SubSeq(cs, 1, i - 1)
      /\ \A i \in 1 .. Len(cs) : SubSeq(ft, 1, i - 1) = SubSeq(fs, 1, i - 1)
      /\ SubSeq(ct, 1, Len(cs)) = cs /\ SubSeq(ft, 1, Len(cs)) = fs
  BY <1>0, Prefixes
<1> HIDE DEF ct, ft
<1>4. ASSUME NEW i \in 1 .. Len(ct)
      PROVE  Atop(SubSeq(ct, 1, i - 1), SubSeq(ft, 1, i - 1), ct[i], ft[i])
  <2>1. CASE i \in 1 .. Len(cs)
    BY <1>1, <1>2, <1>3, <2>1 DEF Shaped
  <2>2. CASE i = Len(cs) + 1
    <3>1. i - 1 = Len(cs)
      BY <1>1, <2>2
    <3> QED
      BY <1>1, <1>2, <1>3, <2>2, <3>1
  <2> QED
    BY <1>1, <2>1, <2>2
<1> QED
  BY <1>1, <1>2, <1>4 DEF Shaped, ct, ft

LEMMA ShapedPop ==
  ASSUME NEW cs, NEW fs, Shaped(cs, fs), cs # <<>>
  PROVE  /\ Shaped(M!Pop(cs), M!Pop(fs)) /\ Atop(M!Pop(cs), M!Pop(fs), cs[Len(cs)], fs[Len(cs)])
         /\ cs[Len(cs)] \in GuestCalls /\ fs[Len(cs)] \in RootFrames
         /\ cs = Append(M!Pop(cs), cs[Len(cs)]) /\ fs = Append(M!Pop(fs), fs[Len(cs)])
         /\ Level(cs) = Level(M!Pop(cs)) + IF cs[Len(cs)].demand = M!None THEN 1 ELSE 0
<1>0. cs \in Seq(GuestCalls) /\ fs \in Seq(RootFrames) /\ Len(fs) = Len(cs) /\ fs # <<>>
  BY DEF Shaped
<1>1. /\ M!Pop(cs) \in Seq(GuestCalls) /\ Len(cs) \in Nat /\ Len(cs) >= 1
      /\ Len(M!Pop(cs)) = Len(cs) - 1 /\ cs[Len(cs)] \in GuestCalls
      /\ \A i \in 1 .. Len(cs) - 1 : M!Pop(cs)[i] = cs[i]
  BY <1>0, PopIs
<1>2. /\ M!Pop(fs) \in Seq(RootFrames) /\ Len(M!Pop(fs)) = Len(cs) - 1 /\ fs[Len(cs)] \in RootFrames
      /\ \A i \in 1 .. Len(cs) - 1 : M!Pop(fs)[i] = fs[i]
  BY <1>0, PopIs
<1>3. /\ cs = Append(M!Pop(cs), cs[Len(cs)]) /\ SubSeq(cs, 1, Len(cs) - 1) = M!Pop(cs)
      /\ \A i \in 1 .. Len(cs) - 1 : SubSeq(cs, 1, i - 1) = SubSeq(M!Pop(cs), 1, i - 1)
  BY <1>0, <1>1, PopPush
<1>4. /\ fs = Append(M!Pop(fs), fs[Len(cs)]) /\ SubSeq(fs, 1, Len(cs) - 1) = M!Pop(fs)
      /\ \A i \in 1 .. Len(cs) - 1 : SubSeq(fs, 1, i - 1) = SubSeq(M!Pop(fs), 1, i - 1)
  BY <1>0, <1>2, PopPush
<1>5. Atop(M!Pop(cs), M!Pop(fs), cs[Len(cs)], fs[Len(cs)])
  <2>1. Len(cs) \in 1 .. Len(cs)
    BY <1>1
  <2> QED
    BY <1>3, <1>4, <2>1 DEF Shaped
<1>6. \A i \in 1 .. Len(M!Pop(cs)) :
        Atop(SubSeq(M!Pop(cs), 1, i - 1), SubSeq(M!Pop(fs), 1, i - 1), M!Pop(cs)[i], M!Pop(fs)[i])
  <2> SUFFICES ASSUME NEW i \in 1 .. Len(cs) - 1
               PROVE  Atop(SubSeq(cs, 1, i - 1), SubSeq(fs, 1, i - 1), cs[i], fs[i])
    BY <1>1, <1>2, <1>3, <1>4
  <2>1. i \in 1 .. Len(cs)
    BY <1>1
  <2> QED
    BY <2>1 DEF Shaped
<1>7. Shaped(M!Pop(cs), M!Pop(fs))
  BY <1>1, <1>2, <1>6 DEF Shaped
<1>8. /\ Level(M!Pop(cs)) \in Nat
      /\ Level(Append(M!Pop(cs), cs[Len(cs)]))
           = IF cs[Len(cs)].demand = M!None THEN Level(M!Pop(cs)) + 1 ELSE Level(M!Pop(cs))
  BY <1>1, LevelIs
<1>9. Level(Append(M!Pop(cs), cs[Len(cs)])) = Level(cs)
  BY <1>3, Zenon
<1>10. Level(cs) = Level(M!Pop(cs)) + IF cs[Len(cs)].demand = M!None THEN 1 ELSE 0
  BY <1>8, <1>9
<1> QED
  BY <1>1, <1>2, <1>3, <1>4, <1>5, <1>7, <1>10

-----------------------------------------------------------------------------
(* The running call in its frame, over the stack below.                    *)

LEMMA TopIs ==
  ASSUME NEW S, NEW s \in Seq(S), s # <<>>, NEW x \in S
  PROVE  [s EXCEPT ![Len(s)] = x] = Append(M!Pop(s), x)
<1>1. LET u == [s EXCEPT ![Len(s)] = x] IN u = Append(M!Pop(s), x)
  BY ReplaceIs
<1> QED
  BY <1>1

WithLocals(c, l) == [c EXCEPT !.locals = l]
WithSlots(f, s) == [f EXCEPT !.slots = s]

Edited(c, g, l) ==
  /\ g \in GuestCalls /\ g.locals = l
  /\ g.demand = c.demand /\ g.env = c.env /\ g.arg = c.arg /\ g.out = c.out
  /\ g.base = c.base /\ g.saved = c.saved
Slotted(f, e, s) == e \in RootFrames /\ e.params = f.params /\ e.slots = s

(* Other locals and slots.                                                 *)
LEMMA AtopLocals ==
  ASSUME NEW cs, NEW fs, NEW c \in GuestCalls, NEW f \in RootFrames, Atop(cs, fs, c, f),
         NEW l \in Seq(Nat), NEW s \in Seq(RootSlots), Len(s) = Len(l),
         c.demand # M!None => \A n \in 1 .. Len(l) : l[n] \in M!Allocations
  PROVE  /\ Atop(cs, fs, WithLocals(c, l), WithSlots(f, s))
         /\ Edited(c, WithLocals(c, l), l) /\ Slotted(f, WithSlots(f, s), s)
<1> DEFINE g == WithLocals(c, l)
           e == WithSlots(f, s)
<1>2. /\ g \in GuestCalls /\ g.demand = c.demand /\ g.env = c.env /\ g.arg = c.arg
      /\ g.out = c.out /\ g.base = c.base /\ g.saved = c.saved /\ g.locals = l
  BY DEF GuestCalls, WithLocals
<1>3. e \in RootFrames /\ e.params = f.params /\ e.slots = s
  BY DEF RootFrames, WithSlots
<1> HIDE DEF g, e
<1>4. Kind(g, Level(cs))
  BY <1>2 DEF Atop, Kind
<1>5. Atop(cs, fs, g, e)
  BY <1>2, <1>3, <1>4 DEF Atop
<1> QED
  BY <1>2, <1>3, <1>5 DEF g, e, Edited, Slotted

(* One more local and slot.                                                *)
LEMMA AtopLocal ==
  ASSUME NEW cs, NEW fs, NEW c \in GuestCalls, NEW f \in RootFrames, Atop(cs, fs, c, f),
         NEW r \in Nat, NEW s \in RootSlots, c.demand # M!None => r \in M!Allocations
  PROVE  LET l == Append(c.locals, r)
             t == Append(f.slots, s)
         IN  /\ Atop(cs, fs, WithLocals(c, l), WithSlots(f, t))
             /\ Edited(c, WithLocals(c, l), l) /\ Slotted(f, WithSlots(f, t), t)
<1> DEFINE l == Append(c.locals, r)
           t == Append(f.slots, s)
           k == c.locals
<1>1. /\ k \in Seq(Nat) /\ f.slots \in Seq(RootSlots) /\ Len(f.slots) = Len(k)
      /\ c.demand # M!None => \A n \in 1 .. Len(k) : k[n] \in M!Allocations
  BY DEF Atop, Kind, GuestCalls, RootFrames
<1> HIDE DEF k
<1>2. /\ Append(k, r) \in Seq(Nat) /\ Len(k) \in Nat /\ Len(Append(k, r)) = Len(k) + 1
      /\ \A i \in 1 .. Len(k) : Append(k, r)[i] = k[i]
      /\ Append(k, r)[Len(k) + 1] = r
  BY <1>1, PushIs
<1>3. t \in Seq(RootSlots) /\ Len(t) = Len(f.slots) + 1
  BY <1>1, PushIs
<1>4. l = Append(k, r)
  BY DEF k
<1> HIDE DEF l, t
<1>5. c.demand # M!None => \A n \in 1 .. Len(l) : l[n] \in M!Allocations
  <2> SUFFICES ASSUME c.demand # M!None, NEW n \in 1 .. Len(l)
               PROVE  l[n] \in M!Allocations
    OBVIOUS
  <2>1. n \in 1 .. Len(k) \/ n = Len(k) + 1
    BY <1>2, <1>4
  <2> QED
    BY <1>1, <1>2, <1>4, <2>1
<1>6. l \in Seq(Nat) /\ t \in Seq(RootSlots) /\ Len(t) = Len(l)
  BY <1>1, <1>2, <1>3, <1>4
<1>7. /\ Atop(cs, fs, WithLocals(c, l), WithSlots(f, t))
      /\ Edited(c, WithLocals(c, l), l) /\ Slotted(f, WithSlots(f, t), t)
  BY <1>5, <1>6, AtopLocals
<1> QED
  BY <1>7 DEF l, t

(* The caller of a place it provides.                                      *)
LEMMA LinkedLocal ==
  ASSUME NEW cs \in Seq(GuestCalls), NEW fs \in Seq(RootFrames), Len(fs) = Len(cs),
         NEW c \in GuestCalls, NEW f \in RootFrames, NEW l \in Seq(Nat), NEW r \in Nat,
         NEW s \in Seq(RootSlots),
         c.locals = Append(l, r), f.slots = Append(s, M!Storage(r))
  PROVE  Linked(Append(cs, c), Append(fs, f), r)
<1> DEFINE ct == Append(cs, c)
           ft == Append(fs, f)
<1>1. M!Storage(r) \in RootSlots
  BY DEF M!Storage, RootSlots
<1>2. Len(cs) \in Nat /\ Len(ct) = Len(cs) + 1 /\ ct[Len(cs) + 1] = c /\ ft[Len(cs) + 1] = f
  <2>1. Len(ct) = Len(cs) + 1 /\ ct[Len(cs) + 1] = c
    BY PushIs
  <2>2. ft[Len(fs) + 1] = f
    BY PushIs
  <2> QED
    BY <2>1, <2>2
<1> HIDE DEF ct, ft
<1>3. c.locals # <<>> /\ c.locals[Len(c.locals)] = r
  <2> DEFINE N == Nat
  <2>0. l \in Seq(N) /\ r \in N /\ c.locals = Append(l, r)
    OBVIOUS
  <2> HIDE DEF N
  <2>1. /\ Append(l, r) # <<>> /\ Len(Append(l, r)) = Len(l) + 1
        /\ Append(l, r)[Len(l) + 1] = r
    BY <2>0, PushIs
  <2> QED
    BY <2>0, <2>1
<1>4. f.slots # <<>> /\ f.slots[Len(f.slots)] = M!Storage(r)
  <2> DEFINE x == M!Storage(r)
  <2>0. x \in RootSlots /\ f.slots = Append(s, x)
    BY <1>1
  <2> HIDE DEF x
  <2>1. /\ Append(s, x) # <<>> /\ Len(Append(s, x)) = Len(s) + 1
        /\ Append(s, x)[Len(s) + 1] = x
    BY <2>0, PushIs
  <2> QED
    BY <2>0, <2>1 DEF x
<1> QED
  BY <1>2, <1>3, <1>4 DEF Linked, ct, ft

(* The rows captures began with, and the globals that are evaluated.       *)
Rows(cs, n) == \A i \in 1 .. Len(cs) : cs[i].saved.on => cs[i].saved.rows <= n
Evaluating(cs, d) == \E i \in 1 .. Len(cs) : cs[i].demand = d

LEMMA RowsPush ==
  ASSUME NEW cs \in Seq(GuestCalls), NEW c \in GuestCalls, NEW n
  PROVE  Rows(Append(cs, c), n) <=> Rows(cs, n) /\ (c.saved.on => c.saved.rows <= n)
<1> DEFINE t == Append(cs, c)
<1>1. /\ Len(t) = Len(cs) + 1 /\ Len(cs) \in Nat /\ t[Len(cs) + 1] = c
      /\ \A i \in 1 .. Len(cs) : t[i] = cs[i]
  BY PushIs
<1> HIDE DEF t
<1>2. ASSUME Rows(t, n) PROVE Rows(cs, n) /\ (c.saved.on => c.saved.rows <= n)
  BY <1>1, <1>2 DEF Rows
<1>3. ASSUME Rows(cs, n), c.saved.on => c.saved.rows <= n PROVE Rows(t, n)
  <2> SUFFICES ASSUME NEW i \in 1 .. Len(t), t[i].saved.on PROVE t[i].saved.rows <= n
    BY DEF Rows
  <2>1. i \in 1 .. Len(cs) \/ i = Len(cs) + 1
    BY <1>1
  <2> QED
    BY <1>1, <1>3, <2>1 DEF Rows
<1> QED
  BY <1>2, <1>3 DEF t

LEMMA EvaluatingPush ==
  ASSUME NEW cs \in Seq(GuestCalls), NEW c \in GuestCalls, NEW d
  PROVE  Evaluating(Append(cs, c), d) <=> Evaluating(cs, d) \/ c.demand = d
<1> DEFINE t == Append(cs, c)
<1>1. /\ Len(t) = Len(cs) + 1 /\ Len(cs) \in Nat /\ t[Len(cs) + 1] = c
      /\ \A i \in 1 .. Len(cs) : t[i] = cs[i]
  BY PushIs
<1> HIDE DEF t
<1>2. ASSUME Evaluating(t, d) PROVE Evaluating(cs, d) \/ c.demand = d
  <2>1. PICK i \in 1 .. Len(t) : t[i].demand = d
    BY <1>2 DEF Evaluating
  <2>2. i \in 1 .. Len(cs) \/ i = Len(cs) + 1
    BY <1>1
  <2> QED
    BY <1>1, <2>1, <2>2 DEF Evaluating
<1>3. ASSUME Evaluating(cs, d) PROVE Evaluating(t, d)
  <2>1. PICK i \in 1 .. Len(cs) : cs[i].demand = d
    BY <1>3 DEF Evaluating
  <2>2. i \in 1 .. Len(t)
    BY <1>1
  <2> QED
    BY <1>1, <2>1, <2>2 DEF Evaluating
<1>4. ASSUME c.demand = d PROVE Evaluating(t, d)
  <2>1. Len(cs) + 1 \in 1 .. Len(t)
    BY <1>1
  <2> QED
    BY <1>1, <1>4, <2>1 DEF Evaluating
<1> QED
  BY <1>2, <1>3, <1>4 DEF t

-----------------------------------------------------------------------------
(* What holds of the machine whatever the heap contains: its types, a      *)
(* frame and a scratch frame for each call, and the globals of the calls.  *)

DemandStates == {"pending", "running", "ready", "failed"}
GuestServices == [initializer : Nat, handler : Nat, values : SUBSET M!Allocations]

Demanded(dm) ==
  /\ dm \in [M!Globals -> [state : DemandStates, value : Nat]]
  /\ \A d \in M!Globals : dm[d].state = "ready" => dm[d].value \in M!Allocations

Evaluated(cs, dm) ==
  \A d \in M!Globals : /\ dm[d].state = "running" => Evaluating(cs, d)
                       /\ dm[d].state \in {"pending", "ready"} => ~Evaluating(cs, d)

ImageShape(i) ==
  /\ DOMAIN i.heap \subseteq M!Allocations
  /\ Demanded(i.demand) /\ \A d \in M!Globals : i.demand[d].state # "running"
  /\ i.feedback \in Seq(Nat) /\ i.handler \in Nat

Shape ==
  /\ DOMAIN heap \subseteq M!Allocations
  /\ Shaped(calls, frames) /\ scratch = Level(calls)
  /\ Demanded(demand) /\ Evaluated(calls, demand)
  /\ feedback \in Seq(Nat) /\ Rows(calls, Len(feedback))
  /\ error \in Nat /\ failing \in BOOLEAN
  /\ service \in GuestServices /\ job \in M!Jobs /\ result \in Nat
  /\ M!Idle => M!AtRest
  /\ ImageShape(stored)

(* The running call, its frame, and the stack below them.                  *)
LEMMA RunningIs ==
  ASSUME Shape, calls # <<>>
  PROVE  /\ calls = Append(M!Pop(calls), M!Here) /\ frames = Append(M!Pop(frames), frames[M!Top])
         /\ Shaped(M!Pop(calls), M!Pop(frames))
         /\ M!Pop(calls) \in Seq(GuestCalls) /\ M!Pop(frames) \in Seq(RootFrames)
         /\ Len(M!Pop(frames)) = Len(M!Pop(calls))
         /\ M!Here \in GuestCalls /\ frames[M!Top] \in RootFrames
         /\ Atop(M!Pop(calls), M!Pop(frames), M!Here, frames[M!Top])
         /\ calls \in Seq(GuestCalls) /\ frames \in Seq(RootFrames) /\ Len(frames) = M!Top
         /\ frames # <<>> /\ M!Top \in Nat /\ M!Top >= 1 /\ Len(M!Pop(calls)) = M!Top - 1
         /\ Level(calls) = Level(M!Pop(calls)) + IF M!Here.demand = M!None THEN 1 ELSE 0
         /\ Level(M!Pop(calls)) \in Nat
<1>1. Shaped(calls, frames)
  BY DEF Shape
<1>2. calls \in Seq(GuestCalls) /\ frames \in Seq(RootFrames) /\ Len(frames) = Len(calls)
  BY <1>1 DEF Shaped
<1>3. /\ M!Pop(calls) \in Seq(GuestCalls) /\ Len(calls) \in Nat /\ Len(calls) >= 1
      /\ Len(M!Pop(calls)) = Len(calls) - 1
  BY <1>2, PopIs
<1>4. frames # <<>>
  BY <1>2, <1>3
<1>5. M!Pop(frames) \in Seq(RootFrames) /\ Len(M!Pop(frames)) = Len(frames) - 1
  BY <1>2, <1>4, PopIs
<1>6. Level(M!Pop(calls)) \in Nat
  BY <1>3, LevelIs
<1>7. /\ Shaped(M!Pop(calls), M!Pop(frames))
      /\ Atop(M!Pop(calls), M!Pop(frames), calls[Len(calls)], frames[Len(calls)])
      /\ calls[Len(calls)] \in GuestCalls /\ frames[Len(calls)] \in RootFrames
      /\ calls = Append(M!Pop(calls), calls[Len(calls)])
      /\ frames = Append(M!Pop(frames), frames[Len(calls)])
      /\ Level(calls) = Level(M!Pop(calls)) + IF calls[Len(calls)].demand = M!None THEN 1 ELSE 0
  BY <1>1, ShapedPop
<1>8. M!Top = Len(calls) /\ M!Here = calls[Len(calls)]
  BY DEF M!Top, M!Here
<1> QED
  BY <1>2, <1>3, <1>4, <1>5, <1>6, <1>7, <1>8

LEMMA StackIs ==
  ASSUME NEW cs, NEW fs, Shaped(cs, fs), NEW c \in GuestCalls, NEW f \in RootFrames,
         Atop(cs, fs, c, f)
  PROVE  /\ Shaped(Append(cs, c), Append(fs, f)) /\ Append(cs, c) # <<>>
         /\ Level(Append(cs, c)) = Level(cs) + IF c.demand = M!None THEN 1 ELSE 0
         /\ Level(cs) \in Nat
         /\ \A n : Rows(Append(cs, c), n) <=> Rows(cs, n) /\ (c.saved.on => c.saved.rows <= n)
         /\ \A d : Evaluating(Append(cs, c), d) <=> Evaluating(cs, d) \/ c.demand = d
<1>1. cs \in Seq(GuestCalls)
  BY DEF Shaped
<1>2. /\ Level(cs) \in Nat
      /\ Level(Append(cs, c)) = IF c.demand = M!None THEN Level(cs) + 1 ELSE Level(cs)
  BY <1>1, LevelIs
<1>3. Append(cs, c) # <<>>
  BY <1>1, PushIs
<1>4. Shaped(Append(cs, c), Append(fs, f))
  BY ShapedPush
<1>5. Level(Append(cs, c)) = Level(cs) + IF c.demand = M!None THEN 1 ELSE 0
  BY <1>2
<1> QED
  BY <1>1, <1>2, <1>3, <1>4, <1>5, RowsPush, EvaluatingPush

(* What the code of the running call can name.                             *)
LEMMA ValuesAre ==
  ASSUME Shape, calls # <<>>, NEW v \in M!Values(M!Here)
  PROVE  v \in Nat /\ v # M!None /\ (M!Here.demand # M!None => v \in M!Allocations)
<1>1. /\ M!Here \in GuestCalls
      /\ M!Here.demand # M!None =>
           /\ M!Here.env = M!None /\ M!Here.arg = M!None
           /\ \A n \in 1 .. Len(M!Here.locals) : M!Here.locals[n] \in M!Allocations
  BY RunningIs DEF Atop, Kind
<1> DEFINE c == M!Here
<1>2. c.env \in Nat /\ c.arg \in Nat /\ c.locals \in Seq(Nat)
  BY <1>1 DEF GuestCalls
<1>3. v # M!None /\ (v = c.env \/ v = c.arg \/ \E i \in 1 .. Len(c.locals) : v = c.locals[i])
  BY DEF M!Values, M!Elements
<1> HIDE DEF c
<1>4. v \in Nat
  BY <1>2, <1>3
<1> QED
  BY <1>1, <1>3, <1>4 DEF c

LEMMA NewIs ==
  ASSUME M!Assumption, DOMAIN heap \subseteq M!Allocations, job \in M!Jobs, M!Room
  PROVE  M!New \in M!Allocations /\ M!New \notin DOMAIN heap /\ M!New # M!None /\ M!New \in Nat
<1>1. M!Fits(heap)
  BY DEF M!Room
<1>2. M!Free(heap) \in M!Allocations /\ M!Free(heap) \notin DOMAIN heap /\ M!Free(heap) # M!None
  BY <1>1, FreeIs
<1> QED
  BY <1>2 DEF M!New, M!Allocations

LEMMA SlotsAre ==
  ASSUME NEW r \in Nat
  PROVE  M!Storage(r) \in RootSlots /\ M!Value(r) \in RootSlots /\ M!Clear \in RootSlots
         /\ M!SlotOf(r) \in RootSlots
BY DEF M!Storage, M!Value, M!Clear, M!SlotOf, RootSlots, M!None

LEMMA SweptIs ==
  ASSUME M!Assumption, NEW h, DOMAIN h \subseteq M!Allocations, NEW fs, NEW g \in M!Afterwards(h, fs)
  PROVE  DOMAIN g \subseteq DOMAIN h
<1>1. M!Reached(h, M!Traced(fs)) \subseteq DOMAIN h
  BY HeapFinite, ReachedLeast
<1>2. DOMAIN M!Collected(h, fs) \subseteq DOMAIN h
  BY <1>1 DEF M!Collected
<1> QED
  BY <1>2 DEF M!Afterwards

LEMMA WithDomain ==
  ASSUME NEW h, NEW o, NEW c
  PROVE  DOMAIN M!With(h, o, c) = DOMAIN h \cup {o}
BY DEF M!With

-----------------------------------------------------------------------------
(* Steps of the running call.                                              *)

(* The same calls, in frames of their own.                                 *)
StackSame ==
  /\ calls # <<>> /\ calls' # <<>> /\ Shaped(calls', frames') /\ scratch' = Level(calls')
  /\ \A n : Rows(calls, n) => Rows(calls', n)
  /\ \A d : Evaluating(calls', d) <=> Evaluating(calls, d)

(* The running call takes other locals and slots.                          *)
Edits(l, s) ==
  /\ calls' = Append(M!Pop(calls), WithLocals(M!Here, l))
  /\ frames' = Append(M!Pop(frames), WithSlots(frames[M!Top], s))

LEMMA EditIs ==
  ASSUME Shape, calls # <<>>, NEW l \in Seq(Nat), NEW s \in Seq(RootSlots), Len(s) = Len(l),
         M!Here.demand # M!None => \A n \in 1 .. Len(l) : l[n] \in M!Allocations
  PROVE  /\ Edited(M!Here, WithLocals(M!Here, l), l)
         /\ Slotted(frames[M!Top], WithSlots(frames[M!Top], s), s)
         /\ Atop(M!Pop(calls), M!Pop(frames), WithLocals(M!Here, l), WithSlots(frames[M!Top], s))
         /\ [calls EXCEPT ![M!Top] = WithLocals(M!Here, l)] = Append(M!Pop(calls), WithLocals(M!Here, l))
         /\ [frames EXCEPT ![M!Top] = WithSlots(frames[M!Top], s)]
              = Append(M!Pop(frames), WithSlots(frames[M!Top], s))
<1>1. /\ M!Here \in GuestCalls /\ frames[M!Top] \in RootFrames
      /\ Atop(M!Pop(calls), M!Pop(frames), M!Here, frames[M!Top])
      /\ calls \in Seq(GuestCalls) /\ frames \in Seq(RootFrames)
      /\ frames # <<>> /\ Len(frames) = M!Top /\ Len(calls) = M!Top
  BY RunningIs DEF M!Top
<1> DEFINE g == WithLocals(M!Here, l)
           e == WithSlots(frames[M!Top], s)
<1>2. /\ Edited(M!Here, g, l) /\ Slotted(frames[M!Top], e, s)
      /\ Atop(M!Pop(calls), M!Pop(frames), g, e)
  BY <1>1, AtopLocals
<1> HIDE DEF g, e
<1>3. g \in GuestCalls /\ e \in RootFrames
  BY <1>2 DEF Edited, Slotted
<1>4. [calls EXCEPT ![M!Top] = g] = Append(M!Pop(calls), g)
  BY <1>1, <1>3, TopIs
<1>5. [frames EXCEPT ![M!Top] = e] = Append(M!Pop(frames), e)
  BY <1>1, <1>3, TopIs
<1> QED
  BY <1>2, <1>4, <1>5 DEF g, e

LEMMA SwapIs ==
  ASSUME NEW cs, NEW fs, Shaped(cs, fs), cs # <<>>, NEW g \in GuestCalls, NEW e \in RootFrames,
         Atop(M!Pop(cs), M!Pop(fs), g, e),
         g.demand = cs[Len(cs)].demand, g.saved = cs[Len(cs)].saved
  PROVE  /\ Shaped(Append(M!Pop(cs), g), Append(M!Pop(fs), e)) /\ Append(M!Pop(cs), g) # <<>>
         /\ Level(Append(M!Pop(cs), g)) = Level(cs)
         /\ \A n : Rows(Append(M!Pop(cs), g), n) <=> Rows(cs, n)
         /\ \A d : Evaluating(Append(M!Pop(cs), g), d) <=> Evaluating(cs, d)
<1> DEFINE p == M!Pop(cs)
           q == M!Pop(fs)
           c == cs[Len(cs)]
           f == fs[Len(cs)]
<1>1. /\ Shaped(p, q) /\ c \in GuestCalls /\ f \in RootFrames
      /\ Atop(p, q, c, f) /\ cs = Append(p, c) /\ Atop(p, q, g, e)
      /\ g.demand = c.demand /\ g.saved = c.saved
  BY ShapedPop
<1> HIDE DEF p, q, c, f
<1>2. /\ Shaped(Append(p, g), Append(q, e)) /\ Append(p, g) # <<>>
      /\ Level(Append(p, g)) = Level(p) + IF g.demand = M!None THEN 1 ELSE 0
      /\ \A n : Rows(Append(p, g), n) <=> Rows(p, n) /\ (g.saved.on => g.saved.rows <= n)
      /\ \A d : Evaluating(Append(p, g), d) <=> Evaluating(p, d) \/ g.demand = d
  BY <1>1, StackIs
<1>3. /\ Level(Append(p, c)) = Level(p) + IF c.demand = M!None THEN 1 ELSE 0
      /\ \A n : Rows(Append(p, c), n) <=> Rows(p, n) /\ (c.saved.on => c.saved.rows <= n)
      /\ \A d : Evaluating(Append(p, c), d) <=> Evaluating(p, d) \/ c.demand = d
  BY <1>1, StackIs
<1>4. Append(p, c) = cs
  BY <1>1
<1>5. /\ Level(Append(p, g)) = Level(cs)
      /\ \A n : Rows(Append(p, g), n) <=> Rows(cs, n)
      /\ \A d : Evaluating(Append(p, g), d) <=> Evaluating(cs, d)
  BY <1>1, <1>2, <1>3, <1>4
<1> QED
  BY <1>2, <1>5 DEF p, q

LEMMA SwapStep ==
  ASSUME Shape, calls # <<>>, NEW g \in GuestCalls, NEW e \in RootFrames,
         Atop(M!Pop(calls), M!Pop(frames), g, e), g.demand = M!Here.demand, g.saved = M!Here.saved,
         calls' = Append(M!Pop(calls), g), frames' = Append(M!Pop(frames), e), scratch' = scratch
  PROVE  StackSame
<1>1. Shaped(calls, frames) /\ scratch = Level(calls)
  BY DEF Shape
<1>2. g.demand = calls[Len(calls)].demand /\ g.saved = calls[Len(calls)].saved
  BY DEF M!Here, M!Top
<1>3. /\ Shaped(Append(M!Pop(calls), g), Append(M!Pop(frames), e)) /\ Append(M!Pop(calls), g) # <<>>
      /\ Level(Append(M!Pop(calls), g)) = Level(calls)
      /\ \A n : Rows(Append(M!Pop(calls), g), n) <=> Rows(calls, n)
      /\ \A d : Evaluating(Append(M!Pop(calls), g), d) <=> Evaluating(calls, d)
  BY <1>1, <1>2, SwapIs
<1> QED
  BY <1>1, <1>3 DEF StackSame

LEMMA EditStep ==
  ASSUME Shape, calls # <<>>, NEW l \in Seq(Nat), NEW s \in Seq(RootSlots), Len(s) = Len(l),
         M!Here.demand # M!None => \A n \in 1 .. Len(l) : l[n] \in M!Allocations,
         calls' = [calls EXCEPT ![M!Top] = WithLocals(M!Here, l)],
         frames' = [frames EXCEPT ![M!Top] = WithSlots(frames[M!Top], s)],
         scratch' = scratch
  PROVE  StackSame /\ Edits(l, s)
<1> DEFINE g == WithLocals(M!Here, l)
           e == WithSlots(frames[M!Top], s)
<1>1. /\ Edited(M!Here, g, l) /\ Slotted(frames[M!Top], e, s)
      /\ Atop(M!Pop(calls), M!Pop(frames), g, e)
      /\ calls' = Append(M!Pop(calls), g) /\ frames' = Append(M!Pop(frames), e)
  BY EditIs
<1> HIDE DEF g, e
<1>2. g \in GuestCalls /\ e \in RootFrames /\ g.demand = M!Here.demand /\ g.saved = M!Here.saved
  BY <1>1 DEF Edited, Slotted
<1>3. StackSame
  BY <1>1, <1>2, SwapStep
<1> QED
  BY <1>1, <1>3 DEF Edits, g, e

(* One more local and root slot.                                           *)
Grown(cs, fs, r, s) ==
  LET c == cs[Len(cs)]
      f == fs[Len(cs)]
      l == Append(c.locals, r)
      t == Append(f.slots, s)
  IN  /\ Edited(c, WithLocals(c, l), l) /\ Slotted(f, WithSlots(f, t), t)
      /\ Atop(M!Pop(cs), M!Pop(fs), WithLocals(c, l), WithSlots(f, t))
      /\ [cs EXCEPT ![Len(cs)].locals = Append(@, r)] = Append(M!Pop(cs), WithLocals(c, l))
      /\ [fs EXCEPT ![Len(cs)].slots = Append(@, s)] = Append(M!Pop(fs), WithSlots(f, t))

LEMMA GrowIs ==
  ASSUME NEW cs, NEW fs, Shaped(cs, fs), cs # <<>>, NEW r \in Nat, NEW s \in RootSlots,
         cs[Len(cs)].demand # M!None => r \in M!Allocations
  PROVE  Grown(cs, fs, r, s)
<1>0. cs \in Seq(GuestCalls) /\ fs \in Seq(RootFrames) /\ Len(fs) = Len(cs) /\ fs # <<>>
  BY DEF Shaped
<1>1. /\ cs[Len(cs)] \in GuestCalls /\ fs[Len(cs)] \in RootFrames
      /\ Atop(M!Pop(cs), M!Pop(fs), cs[Len(cs)], fs[Len(cs)])
  BY ShapedPop
<1> DEFINE c == cs[Len(cs)]
           f == fs[Len(cs)]
           l == Append(c.locals, r)
           t == Append(f.slots, s)
           g == WithLocals(c, l)
           e == WithSlots(f, t)
<1>2. Edited(c, g, l) /\ Slotted(f, e, t) /\ Atop(M!Pop(cs), M!Pop(fs), g, e)
  BY <1>1, AtopLocal
<1>3. /\ [cs EXCEPT ![Len(cs)].locals = Append(@, r)] = [cs EXCEPT ![Len(cs)] = g]
      /\ [fs EXCEPT ![Len(cs)].slots = Append(@, s)] = [fs EXCEPT ![Len(cs)] = e]
  BY DEF WithLocals, WithSlots
<1> HIDE DEF g, e
<1>4. g \in GuestCalls /\ e \in RootFrames
  BY <1>2 DEF Edited, Slotted
<1>5. [cs EXCEPT ![Len(cs)] = g] = Append(M!Pop(cs), g)
  BY <1>0, <1>4, TopIs
<1>6. [fs EXCEPT ![Len(cs)] = e] = Append(M!Pop(fs), e)
  BY <1>0, <1>4, TopIs
<1>7. /\ [cs EXCEPT ![Len(cs)].locals = Append(@, r)] = Append(M!Pop(cs), g)
      /\ [fs EXCEPT ![Len(cs)].slots = Append(@, s)] = Append(M!Pop(fs), e)
  BY <1>3, <1>5, <1>6, Zenon
<1> QED
  BY <1>2, <1>7 DEF g, e, Grown

LEMMA LocalIs ==
  ASSUME Shape, calls # <<>>, NEW r \in Nat, NEW s \in RootSlots,
         M!Here.demand # M!None => r \in M!Allocations
  PROVE  LET l == Append(M!Here.locals, r)
             t == Append(frames[M!Top].slots, s)
         IN  /\ Edited(M!Here, WithLocals(M!Here, l), l)
             /\ Slotted(frames[M!Top], WithSlots(frames[M!Top], t), t)
             /\ Atop(M!Pop(calls), M!Pop(frames), WithLocals(M!Here, l), WithSlots(frames[M!Top], t))
             /\ [calls EXCEPT ![M!Top].locals = Append(@, r)]
                  = Append(M!Pop(calls), WithLocals(M!Here, l))
             /\ [frames EXCEPT ![M!Top].slots = Append(@, s)]
                  = Append(M!Pop(frames), WithSlots(frames[M!Top], t))
<1>1. Shaped(calls, frames)
  BY DEF Shape
<1>2. M!Here = calls[Len(calls)] /\ M!Top = Len(calls)
  BY DEF M!Top, M!Here
<1>3. Grown(calls, frames, r, s)
  BY <1>1, <1>2, GrowIs
<1> QED
  BY <1>2, <1>3 DEF Grown

LEMMA LocalStep ==
  ASSUME Shape, calls # <<>>, NEW r \in Nat, NEW s \in RootSlots,
         M!Here.demand # M!None => r \in M!Allocations, M!Local(r, s)
  PROVE  /\ StackSame
         /\ Edits(Append(M!Here.locals, r), Append(frames[M!Top].slots, s))
<1> DEFINE l == Append(M!Here.locals, r)
           t == Append(frames[M!Top].slots, s)
           g == WithLocals(M!Here, l)
           e == WithSlots(frames[M!Top], t)
<1>1. /\ Edited(M!Here, g, l) /\ Slotted(frames[M!Top], e, t)
      /\ Atop(M!Pop(calls), M!Pop(frames), g, e)
      /\ [calls EXCEPT ![M!Top].locals = Append(@, r)] = Append(M!Pop(calls), g)
      /\ [frames EXCEPT ![M!Top].slots = Append(@, s)] = Append(M!Pop(frames), e)
  BY LocalIs
<1>2. calls' = Append(M!Pop(calls), g) /\ frames' = Append(M!Pop(frames), e) /\ scratch' = scratch
  BY <1>1 DEF M!Local
<1> HIDE DEF g, e
<1>3. g \in GuestCalls /\ e \in RootFrames /\ g.demand = M!Here.demand /\ g.saved = M!Here.saved
  BY <1>1 DEF Edited, Slotted
<1>4. StackSame
  BY <1>1, <1>2, <1>3, SwapStep
<1> QED
  BY <1>2, <1>4 DEF Edits, g, e

(* The temporaries above one are released, and perhaps replaced.           *)
LEMMA CutStep ==
  ASSUME Shape, calls # <<>>, NEW k \in 0 .. Len(M!Here.locals),
         calls' = [calls EXCEPT ![M!Top].locals = SubSeq(@, 1, k)],
         frames' = [frames EXCEPT ![M!Top].slots = SubSeq(@, 1, k)],
         scratch' = scratch
  PROVE  StackSame /\ Edits(SubSeq(M!Here.locals, 1, k), SubSeq(frames[M!Top].slots, 1, k))
<1>1. /\ M!Here \in GuestCalls /\ frames[M!Top] \in RootFrames
      /\ Atop(M!Pop(calls), M!Pop(frames), M!Here, frames[M!Top])
  BY RunningIs
<1> DEFINE c == M!Here.locals
           z == frames[M!Top].slots
           l == SubSeq(c, 1, k)
           t == SubSeq(z, 1, k)
<1>2. /\ c \in Seq(Nat) /\ z \in Seq(RootSlots) /\ Len(z) = Len(c) /\ k \in 0 .. Len(c)
      /\ M!Here.demand # M!None => \A n \in 1 .. Len(c) : c[n] \in M!Allocations
  BY <1>1 DEF Atop, Kind, GuestCalls, RootFrames
<1>3. /\ calls' = [calls EXCEPT ![M!Top] = WithLocals(M!Here, l)]
      /\ frames' = [frames EXCEPT ![M!Top] = WithSlots(frames[M!Top], t)]
  BY DEF WithLocals, WithSlots, M!Here
<1> HIDE DEF c, z
<1>4. /\ l \in Seq(Nat) /\ t \in Seq(RootSlots) /\ Len(t) = Len(l) /\ Len(l) = k
      /\ \A i \in 1 .. k : l[i] = c[i]
  BY <1>2, PartOf
<1> HIDE DEF l, t
<1>5. M!Here.demand # M!None => \A n \in 1 .. Len(l) : l[n] \in M!Allocations
  BY <1>2, <1>4
<1>6. StackSame /\ Edits(l, t)
  BY <1>3, <1>4, <1>5, EditStep
<1> QED
  BY <1>6 DEF l, t, c, z

LEMMA ReleaseStep ==
  ASSUME Shape, calls # <<>>, NEW k \in Nat, M!Release(k)
  PROVE  LET v == M!Here.locals[Len(M!Here.locals)] IN
         /\ StackSame /\ k < Len(M!Here.locals) /\ Len(M!Here.locals) \in Nat /\ v \in Nat
         /\ Edits(Append(SubSeq(M!Here.locals, 1, k), v),
                  Append(SubSeq(frames[M!Top].slots, 1, k), M!SlotOf(v)))
<1>1. /\ M!Here \in GuestCalls /\ frames[M!Top] \in RootFrames
      /\ Atop(M!Pop(calls), M!Pop(frames), M!Here, frames[M!Top])
  BY RunningIs
<1> DEFINE c == M!Here.locals
           z == frames[M!Top].slots
           v == c[Len(c)]
           l == Append(SubSeq(c, 1, k), v)
           t == Append(SubSeq(z, 1, k), M!SlotOf(v))
<1>2. /\ c \in Seq(Nat) /\ z \in Seq(RootSlots) /\ Len(z) = Len(c)
      /\ M!Here.demand # M!None => \A n \in 1 .. Len(c) : c[n] \in M!Allocations
  BY <1>1 DEF Atop, Kind, GuestCalls, RootFrames
<1>3. /\ calls' = [calls EXCEPT ![M!Top] = WithLocals(M!Here, l)]
      /\ frames' = [frames EXCEPT ![M!Top] = WithSlots(frames[M!Top], t)]
      /\ scratch' = scratch /\ k < Len(c)
  BY DEF WithLocals, WithSlots, M!Here, M!Release
<1> HIDE DEF c, z
<1>4. Len(c) \in Nat /\ Len(c) \in 1 .. Len(c) /\ k \in 0 .. Len(c) /\ v \in Nat
  BY <1>2, <1>3
<1> HIDE DEF v
<1>5. /\ SubSeq(c, 1, k) \in Seq(Nat) /\ Len(SubSeq(c, 1, k)) = k
      /\ \A i \in 1 .. k : SubSeq(c, 1, k)[i] = c[i]
      /\ SubSeq(z, 1, k) \in Seq(RootSlots) /\ Len(SubSeq(z, 1, k)) = k
  BY <1>2, <1>4, PartOf
<1>6. M!SlotOf(v) \in RootSlots
  BY <1>4, SlotsAre
<1>7. /\ l \in Seq(Nat) /\ Len(l) = k + 1 /\ l[k + 1] = v
      /\ \A i \in 1 .. k : l[i] = SubSeq(c, 1, k)[i]
  BY <1>4, <1>5, PushIs
<1>8. t \in Seq(RootSlots) /\ Len(t) = k + 1
  BY <1>5, <1>6, PushIs
<1> HIDE DEF l, t
<1>9. M!Here.demand # M!None => \A n \in 1 .. Len(l) : l[n] \in M!Allocations
  <2> SUFFICES ASSUME M!Here.demand # M!None, NEW n \in 1 .. Len(l)
               PROVE  l[n] \in M!Allocations
    OBVIOUS
  <2>1. n \in 1 .. k \/ n = k + 1
    BY <1>7
  <2> QED
    BY <1>2, <1>4, <1>5, <1>7, <2>1 DEF v
<1>10. StackSame /\ Edits(l, t)
  BY <1>3, <1>7, <1>8, <1>9, EditStep
<1> QED
  BY <1>3, <1>4, <1>10 DEF l, t, v, c, z

(* The frame of a function.                                                *)
LEMMA FunctionIs ==
  ASSUME NEW c \in Nat, NEW a \in Nat, NEW o \in Nat, NEW level \in Nat,
         NEW saved \in [on : BOOLEAN, rows : Nat, error : Nat], M!Assumption
  PROVE  /\ M!Function(c, a, o, level, saved) \in GuestCalls
         /\ M!Prologue(c, a, o) \in RootFrames
<1>1. M!Scratch(level) \in Nat /\ M!None \in 0 .. Demands /\ <<>> \in Seq(Nat)
  BY DEF M!Assumption, M!Scratch, M!None
<1>2. M!Function(c, a, o, level, saved) \in GuestCalls
  BY <1>1 DEF M!Function, GuestCalls
<1>3. {M!SlotOf(c), M!SlotOf(a), M!Storage(o)} \subseteq RootSlots /\ <<>> \in Seq(RootSlots)
  BY SlotsAre
<1>4. M!Prologue(c, a, o) \in RootFrames
  BY <1>3 DEF M!Prologue, RootFrames
<1> QED
  BY <1>2, <1>4

LEMMA TailStep ==
  ASSUME M!Assumption, Shape, calls # <<>>, NEW c, NEW a \in M!Values(M!Here), M!TailCall(c, a)
  PROVE  /\ StackSame /\ c \in M!Values(M!Here) /\ M!IsManaged(c) /\ M!Here.demand = M!None
         /\ M!Moved(a) \in Nat
         /\ calls' = Append(M!Pop(calls), M!Function(c, M!Moved(a), M!Here.out, scratch, M!Here.saved))
         /\ frames' = Append(M!Pop(frames), M!Prologue(c, M!Moved(a), M!Here.out))
<1>1. /\ M!Here \in GuestCalls /\ frames[M!Top] \in RootFrames
      /\ Atop(M!Pop(calls), M!Pop(frames), M!Here, frames[M!Top])
      /\ calls \in Seq(GuestCalls) /\ frames \in Seq(RootFrames)
      /\ frames # <<>> /\ Len(frames) = M!Top /\ Len(calls) = M!Top
      /\ Level(calls) = Level(M!Pop(calls)) + IF M!Here.demand = M!None THEN 1 ELSE 0
      /\ Level(M!Pop(calls)) \in Nat
  BY RunningIs DEF M!Top
<1>2. c \in M!Values(M!Here) /\ M!IsManaged(c) /\ M!Here.demand = M!None /\ scratch' = scratch
  BY DEF M!TailCall
<1> DEFINE g == M!Function(c, M!Moved(a), M!Here.out, scratch, M!Here.saved)
           e == M!Prologue(c, M!Moved(a), M!Here.out)
<1>3. calls' = [calls EXCEPT ![M!Top] = g] /\ frames' = [frames EXCEPT ![M!Top] = e]
  BY DEF M!TailCall
<1>4. scratch = Level(M!Pop(calls)) + 1 /\ scratch \in Nat
  BY <1>1, <1>2 DEF Shape
<1>5. /\ c \in Nat /\ M!Moved(a) \in Nat /\ M!Here.out \in Nat
      /\ M!Here.saved \in [on : BOOLEAN, rows : Nat, error : Nat]
  <2>1. c \in Nat /\ a \in Nat
    BY <1>2, ValuesAre
  <2>2. /\ M!Here.base \in Nat /\ M!Here.out \in Nat
        /\ M!Here.saved \in [on : BOOLEAN, rows : Nat, error : Nat]
    BY <1>1 DEF GuestCalls
  <2> QED
    BY <2>1, <2>2 DEF M!Moved
<1>6. /\ g \in GuestCalls /\ e \in RootFrames /\ e.slots = <<>>
  <2> DEFINE m == M!Moved(a)
             o == M!Here.out
             saved == M!Here.saved
  <2> HIDE DEF m, o, saved
  <2>1. /\ c \in Nat /\ m \in Nat /\ o \in Nat
        /\ saved \in [on : BOOLEAN, rows : Nat, error : Nat]
    BY <1>5 DEF m, o, saved
  <2>2. /\ M!Function(c, m, o, scratch, saved) \in GuestCalls
        /\ M!Prologue(c, m, o) \in RootFrames
    BY <1>4, <2>1, FunctionIs
  <2>3. M!Prologue(c, m, o).slots = <<>>
    BY DEF M!Prologue
  <2> QED
    BY <2>2, <2>3 DEF m, o, saved
<1>7. /\ g.demand = M!None /\ g.base = M!Scratch(scratch) /\ g.out = M!Here.out
      /\ g.saved = M!Here.saved /\ g.locals = <<>>
  BY DEF M!Function
<1> HIDE DEF g, e
<1>8. Kind(g, Level(M!Pop(calls)))
  BY <1>1, <1>2, <1>4, <1>7 DEF Atop, Kind
<1>9. Atop(M!Pop(calls), M!Pop(frames), g, e)
  BY <1>1, <1>2, <1>6, <1>7, <1>8 DEF Atop
<1>10. calls' = Append(M!Pop(calls), g)
  BY <1>1, <1>3, <1>6, TopIs
<1>11. frames' = Append(M!Pop(frames), e)
  BY <1>1, <1>3, <1>6, TopIs
<1>12. StackSame
  BY <1>2, <1>6, <1>7, <1>9, <1>10, <1>11, SwapStep
<1> QED
  BY <1>2, <1>5, <1>10, <1>11, <1>12 DEF g, e

(* A function is called.                                                   *)
LEMMA EnterStep ==
  ASSUME M!Assumption, NEW h, NEW cs, NEW fs, Shaped(cs, fs), scratch = Level(cs),
         NEW c \in Nat, NEW a \in Nat, NEW o \in Nat, o # M!None, o <= M!Scratch(scratch),
         cs # <<>> /\ o \in M!Allocations => Linked(cs, fs, o),
         NEW saved \in [on : BOOLEAN, rows : Nat, error : Nat],
         saved.on => /\ cs # <<>> /\ o \in M!Allocations
                     /\ \A j \in 1 .. Len(cs) : cs[j].saved.on => cs[j].saved.rows <= saved.rows,
         M!Enter(h, cs, fs, c, a, o, saved)
  PROVE  /\ calls' = Append(cs, M!Function(c, a, o, scratch + 1, saved))
         /\ frames' = Append(fs, M!Prologue(c, a, o))
         /\ calls' # <<>> /\ Shaped(calls', frames') /\ scratch' = Level(calls')
         /\ \A n : Rows(calls', n) <=> Rows(cs, n) /\ (saved.on => saved.rows <= n)
         /\ \A d \in M!Globals : Evaluating(calls', d) <=> Evaluating(cs, d)
<1> DEFINE g == M!Function(c, a, o, scratch + 1, saved)
           e == M!Prologue(c, a, o)
<1>1. calls' = Append(cs, g) /\ frames' = Append(fs, e) /\ scratch' = scratch + 1
  BY DEF M!Enter
<1>2. cs \in Seq(GuestCalls)
  BY DEF Shaped
<1>3. scratch \in Nat /\ scratch + 1 \in Nat
  BY <1>2, LevelIs
<1>4. g \in GuestCalls /\ e \in RootFrames /\ e.slots = <<>>
  <2>1. g \in GuestCalls /\ e \in RootFrames
    BY <1>3, FunctionIs
  <2>2. e.slots = <<>>
    BY DEF M!Prologue
  <2> QED
    BY <2>1, <2>2
<1>5. /\ g.demand = M!None /\ g.base = M!Scratch(scratch + 1) /\ g.out = o
      /\ g.saved = saved /\ g.locals = <<>>
  BY DEF M!Function
<1> HIDE DEF g, e
<1>6. Kind(g, Level(cs))
  BY <1>5 DEF Kind
<1>7. Atop(cs, fs, g, e)
  BY <1>4, <1>5, <1>6 DEF Atop
<1>8. /\ Shaped(Append(cs, g), Append(fs, e)) /\ Append(cs, g) # <<>>
      /\ Level(Append(cs, g)) = Level(cs) + IF g.demand = M!None THEN 1 ELSE 0
      /\ \A n : Rows(Append(cs, g), n) <=> Rows(cs, n) /\ (g.saved.on => g.saved.rows <= n)
      /\ \A d : Evaluating(Append(cs, g), d) <=> Evaluating(cs, d) \/ g.demand = d
  BY <1>4, <1>7, StackIs
<1>9. \A d \in M!Globals : d # M!None
  BY DEF M!Globals, M!None
<1>10. \A d \in M!Globals : Evaluating(calls', d) <=> Evaluating(cs, d)
  BY <1>1, <1>5, <1>8, <1>9
<1>11. scratch' = Level(calls')
  BY <1>1, <1>5, <1>8
<1> QED
  BY <1>1, <1>5, <1>8, <1>10, <1>11 DEF g, e

(* A global is evaluated.                                                  *)
LEMMA StartStep ==
  ASSUME M!Assumption, Shape, NEW d \in M!Globals, M!Start(d)
  PROVE  /\ calls' = Append(calls, M!Evaluation(d))
         /\ frames' = Append(frames, [params |-> {}, slots |-> <<>>])
         /\ calls' # <<>> /\ Shaped(calls', frames') /\ scratch' = Level(calls')
         /\ \A n : Rows(calls, n) => Rows(calls', n)
         /\ \A x : Evaluating(calls', x) <=> Evaluating(calls, x) \/ x = d
<1> DEFINE g == M!Evaluation(d)
           e == [params |-> {}, slots |-> <<>>]
<1>1. Shaped(calls, frames) /\ scratch = Level(calls) /\ ~Evaluating(calls, d)
  BY DEF Shape, Evaluated, M!Start, M!Evaluable
<1>2. calls' = Append(calls, g) /\ frames' = Append(frames, e) /\ scratch' = scratch
  BY DEF M!Start
<1>3. /\ g.demand = d /\ g.env = M!None /\ g.arg = M!None /\ g.out = M!None /\ g.base = M!None
      /\ g.saved = M!NoCapture /\ g.locals = <<>> /\ d # M!None /\ ~M!NoCapture.on
  BY DEF M!Evaluation, M!Globals, M!None, M!NoCapture
<1>4. g \in GuestCalls
  <2>1. d \in 0 .. Demands /\ M!None \in Nat /\ <<>> \in Seq(Nat)
    BY DEF M!Globals, M!None, M!Assumption
  <2>2. M!NoCapture \in [on : BOOLEAN, rows : Nat, error : Nat]
    BY DEF M!NoCapture, M!None
  <2> QED
    BY <2>1, <2>2 DEF M!Evaluation, GuestCalls
<1>5. e \in RootFrames /\ e.slots = <<>>
  <2>1. <<>> \in Seq(RootSlots)
    OBVIOUS
  <2> QED
    BY <2>1 DEF RootFrames
<1> HIDE DEF g, e
<1>6. M!None \notin M!Allocations
  BY DEF M!None, M!Allocations
<1>7. Atop(calls, frames, g, e)
  BY <1>1, <1>3, <1>5, <1>6 DEF Atop, Kind, Evaluating
<1>8. /\ Shaped(Append(calls, g), Append(frames, e)) /\ Append(calls, g) # <<>>
      /\ Level(Append(calls, g)) = Level(calls) + IF g.demand = M!None THEN 1 ELSE 0
      /\ Level(calls) \in Nat
      /\ \A n : Rows(Append(calls, g), n) <=> Rows(calls, n) /\ (g.saved.on => g.saved.rows <= n)
      /\ \A x : Evaluating(Append(calls, g), x) <=> Evaluating(calls, x) \/ g.demand = x
  BY <1>1, <1>4, <1>5, <1>7, StackIs
<1> QED
  BY <1>1, <1>2, <1>3, <1>8 DEF g, e

(* What is left when a call ends.                                          *)
LEMMA PoppedIs ==
  ASSUME Shape, calls # <<>>
  PROVE  /\ \A n : Rows(calls, n) =>
              Rows(M!Pop(calls), n) /\ (M!Here.saved.on => M!Here.saved.rows <= n)
         /\ M!Here.saved.on => Rows(M!Pop(calls), M!Here.saved.rows)
         /\ \A d : Evaluating(calls, d) <=> Evaluating(M!Pop(calls), d) \/ M!Here.demand = d
         /\ M!Here.demand # M!None => ~Evaluating(M!Pop(calls), M!Here.demand)
<1> DEFINE p == M!Pop(calls)
           q == M!Pop(frames)
           c == M!Here
           f == frames[M!Top]
<1>1. /\ Shaped(p, q) /\ c \in GuestCalls /\ f \in RootFrames
      /\ Atop(p, q, c, f) /\ calls = Append(p, c)
  BY RunningIs
<1> HIDE DEF p, q, c, f
<1>2. /\ \A n : Rows(Append(p, c), n) <=> Rows(p, n) /\ (c.saved.on => c.saved.rows <= n)
      /\ \A d : Evaluating(Append(p, c), d) <=> Evaluating(p, d) \/ c.demand = d
  BY <1>1, StackIs
<1>3. c.saved.on => Rows(p, c.saved.rows)
  BY <1>1 DEF Atop, Rows
<1>4. c.demand # M!None => ~Evaluating(p, c.demand)
  BY <1>1 DEF Atop, Evaluating
<1> QED
  BY <1>1, <1>2, <1>3, <1>4 DEF p, q, c, f

(* The calls below, in frames of their own.                                *)
StackPopped ==
  /\ Shaped(calls', frames') /\ Level(calls') = Level(M!Pop(calls))
  /\ \A n : Rows(M!Pop(calls), n) => Rows(calls', n)
  /\ \A d : Evaluating(calls', d) <=> Evaluating(M!Pop(calls), d)

LEMMA AtopSlots ==
  ASSUME NEW cs, NEW fs, NEW c, NEW f \in RootFrames, Atop(cs, fs, c, f),
         NEW s \in Seq(RootSlots), Len(s) = Len(f.slots)
  PROVE  Atop(cs, fs, c, WithSlots(f, s)) /\ Slotted(f, WithSlots(f, s), s)
<1> DEFINE e == WithSlots(f, s)
<1>1. e \in RootFrames /\ e.params = f.params /\ e.slots = s
  BY DEF RootFrames, WithSlots
<1> HIDE DEF e
<1>2. Atop(cs, fs, c, e)
  BY <1>1 DEF Atop
<1> QED
  BY <1>1, <1>2 DEF e, Slotted

(* The caller publishes the place it provided as a value.                  *)
Provided(f, o) == WithSlots(f, Append(M!Pop(f.slots), M!Value(o)))

LEMMA LeaveStep ==
  ASSUME M!Assumption, Shape, calls # <<>>, M!Here.demand = M!None, M!LeaveFrames(M!Here.out)
  PROVE  /\ StackPopped /\ calls' = M!Pop(calls)
         /\ M!Here.out \in Nat /\ M!Here.out # M!None
         /\ M!IsScratch(M!Here.out) \/ M!Here.out \in M!Allocations
         /\ M!Top = 1 => calls' = <<>>
         /\ M!Top = 1 \/ M!IsScratch(M!Here.out) => frames' = M!Pop(frames)
         /\ ~(M!Top = 1 \/ M!IsScratch(M!Here.out)) =>
              LET f == M!Pop(frames)[Len(M!Pop(calls))] IN
              /\ M!Pop(calls) # <<>> /\ Linked(M!Pop(calls), M!Pop(frames), M!Here.out)
              /\ f.slots \in Seq(RootSlots) /\ Slotted(f, Provided(f, M!Here.out), Append(M!Pop(f.slots), M!Value(M!Here.out)))
              /\ frames' = Append(M!Pop(M!Pop(frames)), Provided(f, M!Here.out))
<1> DEFINE p == M!Pop(calls)
           q == M!Pop(frames)
           out == M!Here.out
<1>1. /\ Shaped(p, q) /\ M!Here \in GuestCalls /\ frames[M!Top] \in RootFrames
      /\ Atop(p, q, M!Here, frames[M!Top]) /\ Len(p) = M!Top - 1 /\ Len(q) = Len(p)
      /\ p \in Seq(GuestCalls) /\ q \in Seq(RootFrames)
      /\ M!Top \in Nat /\ M!Top >= 1
  BY RunningIs
<1>2. out \in Nat /\ out # M!None /\ (out \in M!Allocations /\ p # <<>> => Linked(p, q, out))
  BY <1>1 DEF Atop, Kind, GuestCalls
<1>3. M!IsScratch(out) \/ out \in M!Allocations
  BY <1>2 DEF M!IsScratch, M!Allocations, M!None, M!Assumption
<1>4. calls' = p /\ (M!Top = 1 \/ M!IsScratch(out) => frames' = q)
  BY DEF M!LeaveFrames
<1>5. M!Top = 1 => p = <<>>
  BY <1>1
<1>6. CASE M!Top = 1 \/ M!IsScratch(out)
  <2>1. calls' = p /\ frames' = q
    BY <1>4, <1>6
  <2>2. StackPopped
    BY <1>1, <2>1 DEF StackPopped
  <2> QED
    BY <1>2, <1>3, <1>4, <1>5, <1>6, <2>2
<1>7. CASE ~(M!Top = 1 \/ M!IsScratch(out))
  <2> DEFINE f == q[Len(p)]
             s == f.slots
             t == Append(M!Pop(s), M!Value(out))
             e == Provided(f, out)
  <2>1. p # <<>> /\ q # <<>> /\ Linked(p, q, out) /\ M!Top - 1 = Len(p)
    BY <1>1, <1>2, <1>3, <1>7
  <2>2. frames' = [q EXCEPT ![Len(p)] = e]
    BY <1>7, <2>1 DEF M!LeaveFrames, Provided, WithSlots
  <2>3. /\ f \in RootFrames /\ p[Len(p)] \in GuestCalls
        /\ Atop(M!Pop(p), M!Pop(q), p[Len(p)], f) /\ p = Append(M!Pop(p), p[Len(p)])
        /\ Shaped(M!Pop(p), M!Pop(q))
    BY <1>1, <2>1, ShapedPop
  <2>4. s \in Seq(RootSlots) /\ s # <<>>
    BY <2>1, <2>3 DEF Linked, RootFrames
  <2> HIDE DEF s
  <2>5. t \in Seq(RootSlots) /\ Len(t) = Len(s)
    <3>1. M!Pop(s) \in Seq(RootSlots) /\ Len(s) \in Nat /\ Len(M!Pop(s)) = Len(s) - 1
      BY <2>4, PopIs
    <3>2. M!Value(out) \in RootSlots
      BY <1>2, SlotsAre
    <3>3. t \in Seq(RootSlots) /\ Len(t) = Len(M!Pop(s)) + 1
      BY <3>1, <3>2, PushIs
    <3> QED
      BY <3>1, <3>3
  <2>6. Atop(M!Pop(p), M!Pop(q), p[Len(p)], e) /\ Slotted(f, e, t)
    <3> HIDE DEF t
    <3>1. Len(t) = Len(f.slots)
      BY <2>5 DEF s
    <3>2. Atop(M!Pop(p), M!Pop(q), p[Len(p)], WithSlots(f, t)) /\ Slotted(f, WithSlots(f, t), t)
      BY <2>3, <2>5, <3>1, AtopSlots
    <3> QED
      BY <3>2 DEF Provided, t, s
  <2> HIDE DEF f, t, e
  <2>7. e \in RootFrames
    BY <2>6 DEF Slotted
  <2>8. [q EXCEPT ![Len(p)] = e] = Append(M!Pop(q), e)
    BY <1>1, <2>1, <2>7, TopIs
  <2>9. Shaped(p, Append(M!Pop(q), e))
    <3> DEFINE c == p[Len(p)]
    <3> HIDE DEF c
    <3>1. Shaped(Append(M!Pop(p), c), Append(M!Pop(q), e))
      BY <2>3, <2>6, <2>7, ShapedPush DEF c
    <3> QED
      BY <2>3, <3>1 DEF c
  <2>10. StackPopped
    BY <1>4, <2>2, <2>8, <2>9 DEF StackPopped
  <2> QED
    BY <1>2, <1>3, <1>4, <1>7, <2>1, <2>2, <2>4, <2>6, <2>8, <2>10 DEF f, s, t, e
<1> QED
  BY <1>6, <1>7

(* The caller borrows the value of a global.                               *)
LEMMA FinishStep ==
  ASSUME Shape, calls # <<>>, NEW v \in M!Values(M!Here), M!Finish(v)
  PROVE  /\ StackPopped /\ M!Here.demand # M!None /\ v \in M!Allocations
         /\ M!Top = 1 => calls' = <<>> /\ frames' = <<>>
         /\ M!Top # 1 =>
              LET c == M!Pop(calls)[Len(M!Pop(calls))]
                  f == M!Pop(frames)[Len(M!Pop(calls))]
                  l == Append(c.locals, v)
                  t == Append(f.slots, M!Value(v))
              IN  /\ M!Pop(calls) # <<>>
                  /\ Edited(c, WithLocals(c, l), l) /\ Slotted(f, WithSlots(f, t), t)
                  /\ calls' = Append(M!Pop(M!Pop(calls)), WithLocals(c, l))
                  /\ frames' = Append(M!Pop(M!Pop(frames)), WithSlots(f, t))
<1> DEFINE p == M!Pop(calls)
           q == M!Pop(frames)
<1>1. /\ Shaped(p, q) /\ Len(p) = M!Top - 1 /\ p \in Seq(GuestCalls) /\ q \in Seq(RootFrames)
      /\ Len(q) = Len(p) /\ M!Top \in Nat /\ M!Top >= 1
  BY RunningIs
<1>2. M!Here.demand # M!None /\ v \in M!Allocations /\ v \in Nat
  BY ValuesAre DEF M!Finish
<1>3. CASE M!Top = 1
  <2>1. calls' = <<>> /\ frames' = <<>>
    BY <1>3 DEF M!Finish
  <2>2. p = <<>> /\ q = <<>>
    BY <1>1, <1>3
  <2> QED
    BY <1>1, <1>2, <1>3, <2>1, <2>2 DEF StackPopped
<1>4. CASE M!Top # 1
  <2>1. p # <<>> /\ Len(p) = M!Top - 1
    BY <1>1, <1>4
  <2>2. /\ calls' = [p EXCEPT ![Len(p)].locals = Append(@, v)]
        /\ frames' = [q EXCEPT ![Len(p)].slots = Append(@, M!Value(v))]
    BY <1>4, <2>1 DEF M!Finish
  <2>3. M!Value(v) \in RootSlots
    BY <1>2, SlotsAre
  <2>4. Grown(p, q, v, M!Value(v))
    BY <1>1, <1>2, <2>1, <2>3, GrowIs
  <2> DEFINE c == p[Len(p)]
             f == q[Len(p)]
             l == Append(c.locals, v)
             t == Append(f.slots, M!Value(v))
             g == WithLocals(c, l)
             e == WithSlots(f, t)
  <2>5. /\ Edited(c, g, l) /\ Slotted(f, e, t) /\ Atop(M!Pop(p), M!Pop(q), g, e)
        /\ calls' = Append(M!Pop(p), g) /\ frames' = Append(M!Pop(q), e)
    BY <2>2, <2>4 DEF Grown
  <2> HIDE DEF g, e, p, q
  <2>6. g \in GuestCalls /\ e \in RootFrames /\ g.demand = p[Len(p)].demand /\ g.saved = p[Len(p)].saved
    BY <2>5 DEF Edited, Slotted
  <2>7. /\ Shaped(Append(M!Pop(p), g), Append(M!Pop(q), e))
        /\ Level(Append(M!Pop(p), g)) = Level(p)
        /\ \A n : Rows(Append(M!Pop(p), g), n) <=> Rows(p, n)
        /\ \A d : Evaluating(Append(M!Pop(p), g), d) <=> Evaluating(p, d)
    BY <1>1, <2>1, <2>5, <2>6, SwapIs
  <2>8. StackPopped
    BY <2>5, <2>7 DEF StackPopped, p
  <2> QED
    BY <1>2, <1>4, <2>1, <2>5, <2>8 DEF g, e, p, q
<1> QED
  BY <1>3, <1>4

-----------------------------------------------------------------------------
(* The steps of compiled code keep the shape.                              *)

LEMMA SameShape ==
  ASSUME Shape, StackSame, DOMAIN heap' \subseteq M!Allocations,
         UNCHANGED <<demand, M!report, M!export>>
  PROVE  Shape'
<1>1. /\ UNCHANGED <<demand, feedback, error, failing, service, job, result, stored>>
  BY DEF M!report, M!export
<1>2. Evaluated(calls', demand) /\ Rows(calls', Len(feedback))
  BY DEF Shape, StackSame, Evaluated
<1>3. job # "none"
  BY DEF Shape, StackSame, M!Idle, M!AtRest
<1> QED
  BY <1>1, <1>2, <1>3 DEF Shape, StackSame, M!Idle, M!AtRest, ImageShape

LEMMA MakeShape ==
  ASSUME M!Assumption, Shape, NEW v, M!Make(v)
  PROVE  Shape'
<1>1. calls # <<>> /\ DOMAIN heap \subseteq M!Allocations /\ job \in M!Jobs /\ M!Room
  BY DEF M!Make, M!Able, Shape
<1>2. M!New \in M!Allocations /\ M!New \in Nat
  BY <1>1, NewIs
<1>3. StackSame
  <2>1. M!Storage(M!New) \in RootSlots
    BY <1>2, SlotsAre
  <2>2. M!Local(M!New, M!Storage(M!New))
    BY DEF M!Make
  <2> QED
    BY <1>1, <1>2, <2>1, <2>2, LocalStep
<1>4. DOMAIN heap' \subseteq M!Allocations
  <2>1. heap' = M!With(heap, M!New, M!Contents(v))
    BY DEF M!Make
  <2>2. DOMAIN heap' = DOMAIN heap \cup {M!New}
    BY <2>1, WithDomain
  <2> QED
    BY <1>1, <1>2, <2>2
<1> QED
  BY <1>3, <1>4, SameShape DEF M!Make

LEMMA MakePlainShape ==
  ASSUME Shape, M!MakePlain
  PROVE  Shape'
<1>1. calls # <<>> /\ DOMAIN heap \subseteq M!Allocations
  BY DEF M!MakePlain, M!Able, Shape
<1>2. M!Here.base \in Nat /\ M!Here.demand = M!None
  <2>1. M!Here \in GuestCalls
    BY <1>1, RunningIs
  <2> QED
    BY <2>1 DEF GuestCalls, M!MakePlain
<1>3. M!Clear \in RootSlots
  BY SlotsAre
<1>4. StackSame
  BY <1>1, <1>2, <1>3, LocalStep DEF M!MakePlain
<1> QED
  BY <1>1, <1>4, SameShape DEF M!MakePlain

LEMMA LoadShape ==
  ASSUME Shape, NEW v, NEW w \in M!Allocations, M!Load(v, w)
  PROVE  Shape'
<1>1. calls # <<>> /\ DOMAIN heap \subseteq M!Allocations
  BY DEF M!Load, M!Able, Shape
<1>2. w \in Nat
  BY DEF M!Allocations
<1>3. M!Clear \in RootSlots
  BY SlotsAre
<1>4. StackSame
  BY <1>1, <1>2, <1>3, LocalStep DEF M!Load
<1> QED
  BY <1>1, <1>4, SameShape DEF M!Load

LEMMA UseReadyShape ==
  ASSUME Shape, NEW d \in M!Globals, M!UseReady(d)
  PROVE  Shape'
<1>1. calls # <<>> /\ DOMAIN heap \subseteq M!Allocations
  BY DEF M!UseReady, M!Able, Shape
<1>2. demand[d].value \in M!Allocations /\ demand[d].value \in Nat
  BY DEF M!UseReady, Shape, Demanded, M!Allocations
<1>3. M!Value(demand[d].value) \in RootSlots
  BY <1>2, SlotsAre
<1>4. StackSame
  BY <1>1, <1>2, <1>3, LocalStep DEF M!UseReady
<1> QED
  BY <1>1, <1>4, SameShape DEF M!UseReady

LEMMA ReleaseShape ==
  ASSUME Shape, NEW k \in Nat, M!Release(k)
  PROVE  Shape'
<1>1. calls # <<>> /\ DOMAIN heap \subseteq M!Allocations
  BY DEF M!Release, M!Able, Shape
<1>2. StackSame
  BY <1>1, ReleaseStep
<1> QED
  BY <1>1, <1>2, SameShape DEF M!Release

LEMMA DiscardShape ==
  ASSUME Shape, NEW k \in Nat, M!Discard(k)
  PROVE  Shape'
<1>1. calls # <<>> /\ DOMAIN heap \subseteq M!Allocations
  BY DEF M!Discard, M!Able, Shape
<1>2. k \in 0 .. Len(M!Here.locals)
  <2>1. M!Here \in GuestCalls /\ k < Len(M!Here.locals)
    BY <1>1, RunningIs DEF M!Discard
  <2>2. Len(M!Here.locals) \in Nat
    BY <2>1 DEF GuestCalls
  <2> QED
    BY <2>1, <2>2
<1>3. StackSame
  BY <1>1, <1>2, CutStep DEF M!Discard
<1> QED
  BY <1>1, <1>3, SameShape DEF M!Discard

LEMMA TailCallShape ==
  ASSUME M!Assumption, Shape, NEW c, NEW a \in M!Values(M!Here), M!TailCall(c, a)
  PROVE  Shape'
<1>1. calls # <<>> /\ DOMAIN heap \subseteq M!Allocations
  BY DEF M!TailCall, M!Able, Shape
<1>2. StackSame
  BY <1>1, TailStep
<1>3. heap' \in M!Afterwards(heap, frames')
  BY DEF M!TailCall, M!Safepoint
<1>4. DOMAIN heap' \subseteq M!Allocations
  BY <1>1, <1>3, SweptIs
<1> QED
  BY <1>2, <1>4, SameShape DEF M!TailCall

(* Steps that leave the calls as they are.                                 *)
LEMMA SameCallsShape ==
  ASSUME Shape, calls # <<>>, UNCHANGED <<M!stack, M!export>>,
         DOMAIN heap' \subseteq M!Allocations,
         feedback' \in Seq(Nat), Len(feedback) <= Len(feedback'),
         error' \in Nat, failing' \in BOOLEAN,
         Demanded(demand'), Evaluated(calls, demand')
  PROVE  Shape'
<1>1. UNCHANGED <<calls, frames, scratch, service, job, result, stored>>
  BY DEF M!stack, M!export
<1>2. Rows(calls, Len(feedback'))
  <2>1. calls \in Seq(GuestCalls) /\ feedback \in Seq(Nat) /\ Rows(calls, Len(feedback))
    BY DEF Shape, Shaped
  <2>2. ASSUME NEW i \in 1 .. Len(calls), calls[i].saved.on
        PROVE  calls[i].saved.rows <= Len(feedback')
    <3>1. calls[i].saved.rows \in Nat /\ calls[i].saved.rows <= Len(feedback)
      <4>1. calls[i] \in GuestCalls
        BY <2>1
      <4> QED
        BY <2>1, <2>2, <4>1 DEF Rows, GuestCalls
    <3>2. Len(feedback) \in Nat /\ Len(feedback') \in Nat
      BY <2>1
    <3> QED
      BY <3>1, <3>2
  <2> QED
    BY <2>2 DEF Rows
<1> QED
  BY <1>1, <1>2 DEF Shape, M!Idle, M!AtRest, ImageShape

LEMMA RowIs ==
  ASSUME M!Assumption, Shape, NEW v, M!Row(v)
  PROVE  /\ M!New \in M!Allocations /\ M!New \in Nat /\ DOMAIN heap' \subseteq M!Allocations
         /\ feedback' \in Seq(Nat) /\ Len(feedback') = Len(feedback) + 1 /\ Len(feedback) \in Nat
<1>1. DOMAIN heap \subseteq M!Allocations /\ job \in M!Jobs /\ M!Room /\ feedback \in Seq(Nat)
  BY DEF M!Row, Shape
<1>2. M!New \in M!Allocations /\ M!New \in Nat
  BY <1>1, NewIs
<1>3. DOMAIN heap' \subseteq M!Allocations
  <2>1. heap' = M!With(heap, M!New, M!Contents(v))
    BY DEF M!Row
  <2>2. DOMAIN heap' = DOMAIN heap \cup {M!New}
    BY <2>1, WithDomain
  <2> QED
    BY <1>1, <1>2, <2>2
<1>4. feedback' = Append(feedback, M!New)
  BY DEF M!Row
<1> DEFINE o == M!New
<1> HIDE DEF o
<1>5. /\ Append(feedback, o) \in Seq(Nat) /\ Len(feedback) \in Nat
      /\ Len(Append(feedback, o)) = Len(feedback) + 1
  BY <1>1, <1>2, PushIs DEF o
<1> QED
  BY <1>2, <1>3, <1>4, <1>5 DEF o

LEMMA WarnShape ==
  ASSUME M!Assumption, Shape, NEW v, M!Warn(v)
  PROVE  Shape'
<1>1. /\ DOMAIN heap' \subseteq M!Allocations /\ feedback' \in Seq(Nat)
      /\ Len(feedback) <= Len(feedback')
  BY RowIs DEF M!Warn
<1>2. calls # <<>> /\ UNCHANGED <<demand, M!stack, error, failing, M!export>>
  BY DEF M!Warn, M!Able
<1> QED
  BY <1>1, <1>2, SameCallsShape DEF Shape

LEMMA FailShape ==
  ASSUME M!Assumption, Shape, NEW v, M!Fail(v)
  PROVE  Shape'
<1>1. /\ DOMAIN heap' \subseteq M!Allocations /\ feedback' \in Seq(Nat)
      /\ Len(feedback) <= Len(feedback') /\ M!New \in Nat
  BY RowIs DEF M!Fail
<1>2. /\ calls # <<>> /\ UNCHANGED <<demand, M!stack, M!export>>
      /\ error' = M!New /\ failing' = TRUE
  BY DEF M!Fail, M!Able
<1> QED
  BY <1>1, <1>2, SameCallsShape DEF Shape

LEMMA UseFailedShape ==
  ASSUME Shape, NEW d \in M!Globals, M!UseFailed(d)
  PROVE  Shape'
<1>1. demand[d].value \in Nat
  BY DEF Shape, Demanded
<1>2. feedback \in Seq(Nat) /\ Len(feedback) <= Len(feedback)
  BY DEF Shape
<1>3. /\ calls # <<>> /\ UNCHANGED <<heap, demand, M!stack, feedback, M!export>>
      /\ error' = demand[d].value /\ failing' = TRUE
  BY DEF M!UseFailed, M!Able
<1> QED
  BY <1>1, <1>2, <1>3, SameCallsShape DEF Shape

LEMMA UseRunningShape ==
  ASSUME M!Assumption, Shape, NEW d \in M!Globals, M!UseRunning(d)
  PROVE  Shape'
<1>1. /\ DOMAIN heap' \subseteq M!Allocations /\ feedback' \in Seq(Nat)
      /\ Len(feedback) <= Len(feedback') /\ M!New \in Nat
  BY RowIs DEF M!UseRunning
<1>2. /\ calls # <<>> /\ UNCHANGED <<M!stack, M!export>>
      /\ error' = M!New /\ failing' = TRUE
      /\ demand' = [demand EXCEPT ![d] = M!Failed(M!New)]
  BY DEF M!UseRunning, M!Able
<1>3. M!Failed(M!New) \in [state : DemandStates, value : Nat] /\ M!Failed(M!New).state = "failed"
  BY <1>1 DEF M!Failed, DemandStates
<1>4. Demanded(demand) /\ Evaluated(calls, demand)
  BY DEF Shape
<1>5. Demanded(demand') /\ Evaluated(calls, demand')
  <2> DEFINE x == M!Failed(M!New)
  <2> HIDE DEF x
  <2>1. demand' = [demand EXCEPT ![d] = x] /\ x \in [state : DemandStates, value : Nat] /\ x.state = "failed"
    BY <1>2, <1>3 DEF x
  <2> QED
    BY <1>4, <2>1 DEF Demanded, Evaluated
<1> QED
  BY <1>1, <1>2, <1>5, SameCallsShape

(* A caller provides a place and calls.                                    *)
Provides(o, s, c, a, saved) ==
  /\ calls' = Append(Append(M!Pop(calls), WithLocals(M!Here, Append(M!Here.locals, o))),
                     M!Function(c, a, o, scratch + 1, saved))
  /\ frames' = Append(Append(M!Pop(frames), WithSlots(frames[M!Top], Append(frames[M!Top].slots, s))),
                      M!Prologue(c, a, o))

LEMMA ProvideStep ==
  ASSUME M!Assumption, Shape, calls # <<>>, NEW h, NEW c \in Nat, NEW a \in Nat,
         NEW o \in Nat, o # M!None, o <= M!Scratch(scratch), NEW s \in RootSlots,
         o \in M!Allocations => s = M!Storage(o), M!Here.demand # M!None => o \in M!Allocations,
         NEW saved \in [on : BOOLEAN, rows : Nat, error : Nat],
         saved.on => o \in M!Allocations /\ Rows(calls, saved.rows),
         M!Enter(h, [calls EXCEPT ![M!Top].locals = Append(@, o)],
               [frames EXCEPT ![M!Top].slots = Append(@, s)], c, a, o, saved)
  PROVE  /\ Provides(o, s, c, a, saved)
         /\ calls' # <<>> /\ Shaped(calls', frames') /\ scratch' = Level(calls')
         /\ \A n : Rows(calls', n) <=> Rows(calls, n) /\ (saved.on => saved.rows <= n)
         /\ \A d \in M!Globals : Evaluating(calls', d) <=> Evaluating(calls, d)
<1> DEFINE p == M!Pop(calls)
           q == M!Pop(frames)
           l == Append(M!Here.locals, o)
           t == Append(frames[M!Top].slots, s)
           g == WithLocals(M!Here, l)
           e == WithSlots(frames[M!Top], t)
           cs == Append(p, g)
           fs == Append(q, e)
<1>1. /\ Edited(M!Here, g, l) /\ Slotted(frames[M!Top], e, t) /\ Atop(p, q, g, e)
      /\ [calls EXCEPT ![M!Top].locals = Append(@, o)] = cs
      /\ [frames EXCEPT ![M!Top].slots = Append(@, s)] = fs
  BY LocalIs
<1>2. M!Enter(h, cs, fs, c, a, o, saved)
  BY <1>1, Zenon
<1>3. /\ p \in Seq(GuestCalls) /\ q \in Seq(RootFrames) /\ Len(q) = Len(p)
      /\ M!Here.locals \in Seq(Nat) /\ frames[M!Top].slots \in Seq(RootSlots)
  BY RunningIs DEF GuestCalls, RootFrames
<1>4. Shaped(calls, frames) /\ scratch = Level(calls)
  BY DEF Shape
<1> HIDE DEF g, e
<1>5. g \in GuestCalls /\ e \in RootFrames /\ g.locals = l /\ e.slots = t
  BY <1>1 DEF Edited, Slotted
<1>6. g.demand = calls[Len(calls)].demand /\ g.saved = calls[Len(calls)].saved
  BY <1>1 DEF M!Here, M!Top, Edited
<1>7. /\ Shaped(cs, fs) /\ cs # <<>> /\ Level(cs) = Level(calls)
      /\ \A n : Rows(cs, n) <=> Rows(calls, n)
      /\ \A d : Evaluating(cs, d) <=> Evaluating(calls, d)
  BY <1>1, <1>4, <1>5, <1>6, SwapIs
<1>8. o \in M!Allocations => Linked(cs, fs, o)
  <2> SUFFICES ASSUME o \in M!Allocations PROVE Linked(cs, fs, o)
    OBVIOUS
  <2> HIDE DEF p, q
  <2> DEFINE k == M!Here.locals
             z == frames[M!Top].slots
  <2>1. /\ k \in Seq(Nat) /\ z \in Seq(RootSlots)
        /\ g.locals = Append(k, o) /\ e.slots = Append(z, M!Storage(o))
    BY <1>3, <1>5
  <2> HIDE DEF k, z
  <2> QED
    BY <1>3, <1>5, <2>1, LinkedLocal
<1> HIDE DEF cs, fs
<1>9. saved.on => /\ cs # <<>> /\ o \in M!Allocations
                  /\ \A j \in 1 .. Len(cs) : cs[j].saved.on => cs[j].saved.rows <= saved.rows
  <2> SUFFICES ASSUME saved.on
               PROVE  \A j \in 1 .. Len(cs) : cs[j].saved.on => cs[j].saved.rows <= saved.rows
    BY <1>7
  <2>1. Rows(cs, saved.rows)
    BY <1>7
  <2> QED
    BY <2>1 DEF Rows
<1>10. /\ calls' = Append(cs, M!Function(c, a, o, scratch + 1, saved))
       /\ frames' = Append(fs, M!Prologue(c, a, o))
       /\ calls' # <<>> /\ Shaped(calls', frames') /\ scratch' = Level(calls')
       /\ \A n : Rows(calls', n) <=> Rows(cs, n) /\ (saved.on => saved.rows <= n)
       /\ \A d \in M!Globals : Evaluating(calls', d) <=> Evaluating(cs, d)
  <2>1. scratch = Level(cs)
    BY <1>4, <1>7
  <2> QED
    BY <1>2, <1>7, <1>8, <1>9, <2>1, EnterStep
<1> QED
  BY <1>7, <1>10 DEF Provides, cs, fs, g, e

(* invoke_at, both ways.                                                   *)
LEMMA CallStep ==
  ASSUME M!Assumption, Shape, NEW c, NEW a, NEW plain \in BOOLEAN, NEW saved,
         saved = M!NoCapture \/ (saved = M!Capturing /\ ~plain), M!Call(c, a, plain, saved)
  PROVE  LET o == IF plain THEN M!Here.base ELSE M!New
             s == IF plain THEN M!Clear ELSE M!Storage(M!New)
             h == IF plain THEN heap ELSE M!With(heap, M!New, {})
         IN  /\ calls # <<>> /\ M!Able /\ c \in M!Values(M!Here) /\ M!IsManaged(c) /\ a \in M!Values(M!Here)
             /\ plain => M!Here.demand = M!None
             /\ ~plain => M!Room
             /\ Provides(o, s, c, a, saved) /\ heap' \in M!Afterwards(h, frames')
             /\ UNCHANGED <<demand, M!report, M!export>>
             /\ calls' # <<>> /\ Shaped(calls', frames') /\ scratch' = Level(calls')
             /\ Rows(calls', Len(feedback))
             /\ \A d \in M!Globals : Evaluating(calls', d) <=> Evaluating(calls, d)
<1> DEFINE o == IF plain THEN M!Here.base ELSE M!New
           s == IF plain THEN M!Clear ELSE M!Storage(M!New)
           h == IF plain THEN heap ELSE M!With(heap, M!New, {})
<1>1. /\ calls # <<>> /\ M!Able /\ c \in M!Values(M!Here) /\ M!IsManaged(c) /\ a \in M!Values(M!Here)
      /\ (plain => M!Here.demand = M!None) /\ (~plain => M!Room)
      /\ UNCHANGED <<demand, M!report, M!export>>
  BY DEF M!Call, M!Able
<1>2. M!Enter(h, [calls EXCEPT ![M!Top].locals = Append(@, o)],
            [frames EXCEPT ![M!Top].slots = Append(@, s)], c, a, o, saved)
  BY DEF M!Call
<1>3. /\ DOMAIN heap \subseteq M!Allocations /\ job \in M!Jobs /\ scratch = Level(calls)
      /\ feedback \in Seq(Nat) /\ Rows(calls, Len(feedback)) /\ error \in Nat
  BY DEF Shape
<1>4. c \in Nat /\ a \in Nat
  BY <1>1, ValuesAre
<1>5. /\ o \in Nat /\ o # M!None /\ o <= M!Scratch(scratch) /\ s \in RootSlots
      /\ (o \in M!Allocations => s = M!Storage(o)) /\ (M!Here.demand # M!None => o \in M!Allocations)
      /\ (~plain => o \in M!Allocations)
  <2>1. CASE plain
    <3>1. /\ M!Here \in GuestCalls /\ Atop(M!Pop(calls), M!Pop(frames), M!Here, frames[M!Top])
          /\ Level(calls) = Level(M!Pop(calls)) + IF M!Here.demand = M!None THEN 1 ELSE 0
          /\ Level(M!Pop(calls)) \in Nat
      BY <1>1, RunningIs
    <3>2. M!Here.base = M!Scratch(scratch) /\ scratch \in Nat /\ scratch >= 1
      BY <1>1, <1>3, <2>1, <3>1 DEF Atop, Kind
    <3>3. M!Clear \in RootSlots
      BY SlotsAre
    <3> QED
      BY <1>1, <2>1, <3>2, <3>3 DEF M!Scratch, M!Assumption, M!None, M!Allocations
  <2>2. CASE ~plain
    <3>1. M!New \in M!Allocations /\ M!New \in Nat
      BY <1>1, <1>3, <2>2, NewIs
    <3>2. M!Storage(M!New) \in RootSlots
      BY <3>1, SlotsAre
    <3>3. scratch \in Nat
      BY <1>1, <1>3, RunningIs
    <3> QED
      BY <2>2, <3>1, <3>2, <3>3 DEF M!Scratch, M!Assumption, M!None, M!Allocations
  <2> QED
    BY <2>1, <2>2
<1>6. /\ saved \in [on : BOOLEAN, rows : Nat, error : Nat]
      /\ saved.on => ~plain /\ saved.rows = Len(feedback)
  <2>1. CASE saved = M!NoCapture
    BY <2>1 DEF M!NoCapture, M!None
  <2>2. CASE saved = M!Capturing /\ ~plain
    <3>1. Len(feedback) \in Nat
      BY <1>3
    <3> QED
      BY <1>3, <2>2, <3>1 DEF M!Capturing
  <2> QED
    BY <2>1, <2>2
<1> HIDE DEF o, s, h
<1>7. saved.on => o \in M!Allocations /\ Rows(calls, saved.rows)
  BY <1>3, <1>5, <1>6
<1>8. /\ Provides(o, s, c, a, saved)
      /\ calls' # <<>> /\ Shaped(calls', frames') /\ scratch' = Level(calls')
      /\ \A n : Rows(calls', n) <=> Rows(calls, n) /\ (saved.on => saved.rows <= n)
      /\ \A d \in M!Globals : Evaluating(calls', d) <=> Evaluating(calls, d)
  BY <1>1, <1>2, <1>4, <1>5, <1>6, <1>7, ProvideStep
<1>9. Rows(calls', Len(feedback))
  <2>1. Len(feedback) \in Nat
    BY <1>3
  <2> QED
    BY <1>3, <1>6, <1>8, <2>1
<1>10. heap' \in M!Afterwards(h, frames')
  BY <1>2 DEF M!Enter, M!Safepoint
<1> QED
  BY <1>1, <1>8, <1>9, <1>10 DEF o, s, h

LEMMA CallShape ==
  ASSUME M!Assumption, Shape, NEW c, NEW a, NEW plain \in BOOLEAN, NEW saved,
         saved = M!NoCapture \/ (saved = M!Capturing /\ ~plain), M!Call(c, a, plain, saved)
  PROVE  Shape'
<1> DEFINE h == IF plain THEN heap ELSE M!With(heap, M!New, {})
<1>1. /\ calls # <<>> /\ (~plain => M!Room) /\ heap' \in M!Afterwards(h, frames')
      /\ UNCHANGED <<demand, M!report, M!export>>
      /\ calls' # <<>> /\ Shaped(calls', frames') /\ scratch' = Level(calls')
      /\ Rows(calls', Len(feedback))
      /\ \A d \in M!Globals : Evaluating(calls', d) <=> Evaluating(calls, d)
  BY CallStep
<1>2. DOMAIN h \subseteq M!Allocations
  <2>1. DOMAIN heap \subseteq M!Allocations /\ job \in M!Jobs
    BY DEF Shape
  <2>2. CASE plain
    BY <2>1, <2>2
  <2>3. CASE ~plain
    <3>1. M!New \in M!Allocations
      BY <1>1, <2>1, <2>3, NewIs
    <3>2. DOMAIN M!With(heap, M!New, {}) = DOMAIN heap \cup {M!New}
      BY WithDomain
    <3> QED
      BY <2>1, <2>3, <3>1, <3>2
  <2> QED
    BY <2>2, <2>3
<1> HIDE DEF h
<1>3. DOMAIN heap' \subseteq M!Allocations
  BY <1>1, <1>2, SweptIs
<1>4. UNCHANGED <<demand, feedback, error, failing, service, job, result, stored>>
  BY <1>1 DEF M!report, M!export
<1>5. job # "none"
  BY <1>1 DEF Shape, M!Idle, M!AtRest
<1>6. Evaluated(calls', demand)
  BY <1>1 DEF Shape, Evaluated
<1> QED
  BY <1>1, <1>3, <1>4, <1>5, <1>6 DEF Shape, M!Idle, M!AtRest, ImageShape

LEMMA StartShape ==
  ASSUME M!Assumption, Shape, job # "none", NEW d \in M!Globals, M!Start(d)
  PROVE  Shape'
<1>1. /\ calls' # <<>> /\ Shaped(calls', frames') /\ scratch' = Level(calls')
      /\ \A n : Rows(calls, n) => Rows(calls', n)
      /\ \A x : Evaluating(calls', x) <=> Evaluating(calls, x) \/ x = d
  BY StartStep
<1>2. /\ UNCHANGED <<heap, feedback, error, failing, service, job, result, stored>>
      /\ demand' = [demand EXCEPT ![d] = M!Running]
  BY DEF M!Start, M!report, M!export
<1>3. Demanded(demand) /\ Evaluated(calls, demand)
  BY DEF Shape
<1>4. Demanded(demand') /\ Evaluated(calls', demand')
  <2>1. M!Running \in [state : DemandStates, value : Nat] /\ M!Running.state = "running"
    BY DEF M!Running, DemandStates, M!None
  <2> DEFINE x == M!Running
  <2> HIDE DEF x
  <2>2. demand' = [demand EXCEPT ![d] = x] /\ x \in [state : DemandStates, value : Nat] /\ x.state = "running"
    BY <1>2, <2>1 DEF x
  <2> QED
    BY <1>1, <1>3, <2>2 DEF Demanded, Evaluated
<1> QED
  BY <1>1, <1>2, <1>4 DEF Shape, M!Idle, M!AtRest, ImageShape

(* The rows of the captures below, once the one that ends is settled.      *)
LEMMA SettleIs ==
  ASSUME Shape, calls # <<>>, M!Settle(M!Here.saved)
  PROVE  feedback' \in Seq(Nat) /\ error' \in Nat /\ Rows(M!Pop(calls), Len(feedback'))
<1>1. /\ feedback \in Seq(Nat) /\ error \in Nat /\ Rows(calls, Len(feedback))
  BY DEF Shape
<1>2. /\ Rows(M!Pop(calls), Len(feedback))
      /\ M!Here.saved.on => M!Here.saved.rows <= Len(feedback)
      /\ M!Here.saved.on => Rows(M!Pop(calls), M!Here.saved.rows)
  BY <1>1, PoppedIs
<1>3. M!Here.saved.rows \in Nat /\ M!Here.saved.error \in Nat
  <2>1. M!Here \in GuestCalls
    BY RunningIs
  <2> QED
    BY <2>1 DEF GuestCalls
<1>4. CASE M!Here.saved.on
  <2>1. feedback' = SubSeq(feedback, 1, M!Here.saved.rows) /\ error' = M!Here.saved.error
    BY <1>4 DEF M!Settle
  <2>2. M!Here.saved.rows \in 0 .. Len(feedback)
    BY <1>1, <1>2, <1>3, <1>4
  <2> DEFINE n == M!Here.saved.rows
  <2> HIDE DEF n
  <2>3. SubSeq(feedback, 1, n) \in Seq(Nat) /\ Len(SubSeq(feedback, 1, n)) = n
    BY <1>1, <2>2, PartOf DEF n
  <2> QED
    BY <1>2, <1>3, <1>4, <2>1, <2>3 DEF n
<1>5. CASE ~M!Here.saved.on
  BY <1>1, <1>2, <1>5 DEF M!Settle
<1> QED
  BY <1>4, <1>5

LEMMA ReturnShape ==
  ASSUME M!Assumption, Shape, NEW v \in M!Values(M!Here), M!Return(v)
  PROVE  Shape'
<1>1. /\ calls # <<>> /\ M!Here.demand = M!None /\ M!LeaveFrames(M!Here.out)
      /\ M!Settle(M!Here.saved) /\ scratch' = scratch - 1
      /\ UNCHANGED <<demand, failing, service, job, stored>> /\ job # "none"
      /\ result' = IF M!Top = 1 THEN M!Here.out ELSE M!None
  BY DEF M!Return, M!Able
<1>2. StackPopped /\ M!Here.out \in Nat
  BY <1>1, LeaveStep
<1>3. scratch' = Level(calls')
  <2>1. /\ Level(calls) = Level(M!Pop(calls)) + IF M!Here.demand = M!None THEN 1 ELSE 0
        /\ Level(M!Pop(calls)) \in Nat
    BY <1>1, RunningIs
  <2> QED
    BY <1>1, <1>2, <2>1 DEF Shape, StackPopped
<1>4. feedback' \in Seq(Nat) /\ error' \in Nat /\ Rows(calls', Len(feedback'))
  BY <1>1, <1>2, SettleIs DEF StackPopped
<1>5. Evaluated(calls', demand)
  <2>1. \A d : Evaluating(calls, d) <=> Evaluating(M!Pop(calls), d) \/ M!Here.demand = d
    BY <1>1, PoppedIs
  <2>2. \A d \in M!Globals : d # M!None
    BY DEF M!Globals, M!None
  <2> QED
    BY <1>1, <1>2, <2>1, <2>2 DEF Shape, StackPopped, Evaluated
<1>6. DOMAIN heap' \subseteq M!Allocations
  BY DEF M!Return, Shape
<1>7. result' \in Nat
  BY <1>1, <1>2 DEF M!None
<1> QED
  BY <1>1, <1>2, <1>3, <1>4, <1>5, <1>6, <1>7 DEF Shape, StackPopped, M!Idle, M!AtRest, ImageShape

(* The evaluation that ends was the only one of its global.                *)
LEMMA EvaluatedPop ==
  ASSUME Shape, calls # <<>>, M!Here.demand # M!None, StackPopped,
         NEW x \in [state : DemandStates, value : Nat],
         x.state \in {"ready", "failed"}, x.state = "ready" => x.value \in M!Allocations,
         demand' = [demand EXCEPT ![M!Here.demand] = x]
  PROVE  Demanded(demand') /\ Evaluated(calls', demand')
<1>1. /\ \A d : Evaluating(calls, d) <=> Evaluating(M!Pop(calls), d) \/ M!Here.demand = d
      /\ ~Evaluating(M!Pop(calls), M!Here.demand)
  BY PoppedIs
<1>2. \A d : Evaluating(calls', d) <=> Evaluating(M!Pop(calls), d)
  BY DEF StackPopped
<1>3. M!Here.demand \in M!Globals
  <2>1. M!Here \in GuestCalls
    BY RunningIs
  <2>2. M!Here.demand \in 0 .. Demands
    BY <2>1 DEF GuestCalls
  <2> QED
    BY <2>2 DEF M!Globals, M!None
<1>4. Demanded(demand) /\ Evaluated(calls, demand)
  BY DEF Shape
<1> DEFINE ended == M!Here.demand
<1> HIDE DEF ended
<1>5. ended \in M!Globals /\ demand' = [demand EXCEPT ![ended] = x]
  BY <1>3 DEF ended
<1>6. Demanded(demand')
  BY <1>4, <1>5 DEF Demanded
<1>7. Evaluated(calls', demand')
  <2> SUFFICES ASSUME NEW y \in M!Globals
               PROVE  /\ demand'[y].state = "running" => Evaluating(calls', y)
                      /\ demand'[y].state \in {"pending", "ready"} => ~Evaluating(calls', y)
    BY DEF Evaluated
  <2>1. CASE y = ended
    <3>1. demand'[y] = x
      BY <1>4, <1>5, <2>1 DEF Demanded
    <3>2. ~Evaluating(calls', y)
      BY <1>1, <1>2, <2>1 DEF ended
    <3>3. x.state # "running"
      OBVIOUS
    <3> QED
      BY <3>1, <3>2, <3>3
  <2>2. CASE y # ended
    <3>1. demand'[y] = demand[y]
      BY <1>4, <1>5, <2>2 DEF Demanded
    <3> QED
      <4>1. Evaluating(calls', y) <=> Evaluating(calls, y)
        <5>1. Evaluating(calls, y) <=> Evaluating(M!Pop(calls), y) \/ M!Here.demand = y
          BY <1>1
        <5>2. Evaluating(calls', y) <=> Evaluating(M!Pop(calls), y)
          BY <1>2
        <5> QED
          BY <2>2, <5>1, <5>2 DEF ended
      <4>2. /\ demand[y].state = "running" => Evaluating(calls, y)
            /\ demand[y].state \in {"pending", "ready"} => ~Evaluating(calls, y)
        <5>1. \A d \in M!Globals : /\ demand[d].state = "running" => Evaluating(calls, d)
                                   /\ demand[d].state \in {"pending", "ready"} => ~Evaluating(calls, d)
          BY <1>4 DEF Evaluated
        <5> QED
          BY <5>1
      <4> QED
        BY <3>1, <4>1, <4>2
  <2> QED
    BY <2>1, <2>2
<1> QED
  BY <1>6, <1>7

LEMMA FinishShape ==
  ASSUME Shape, NEW v \in M!Values(M!Here), M!Finish(v)
  PROVE  Shape'
<1>1. /\ calls # <<>> /\ job # "none" /\ UNCHANGED <<heap, scratch, M!report, M!export>>
      /\ demand' = [demand EXCEPT ![M!Here.demand] = M!Ready(v)]
  BY DEF M!Finish, M!Able
<1>2. StackPopped /\ M!Here.demand # M!None /\ v \in M!Allocations
  BY <1>1, FinishStep
<1>3. scratch' = Level(calls')
  <2>1. /\ Level(calls) = Level(M!Pop(calls)) + IF M!Here.demand = M!None THEN 1 ELSE 0
        /\ Level(M!Pop(calls)) \in Nat
    BY <1>1, RunningIs
  <2> QED
    BY <1>1, <1>2, <2>1 DEF Shape, StackPopped
<1>4. /\ M!Ready(v) \in [state : DemandStates, value : Nat]
      /\ M!Ready(v).state = "ready" /\ M!Ready(v).value = v
  BY <1>2 DEF M!Ready, DemandStates, M!Allocations
<1>5. Demanded(demand') /\ Evaluated(calls', demand')
  <2> DEFINE x == M!Ready(v)
  <2> HIDE DEF x
  <2>1. /\ x \in [state : DemandStates, value : Nat] /\ x.state \in {"ready", "failed"}
        /\ x.state = "ready" => x.value \in M!Allocations
        /\ demand' = [demand EXCEPT ![M!Here.demand] = x]
    BY <1>1, <1>2, <1>4 DEF x
  <2> QED
    BY <1>1, <1>2, <2>1, EvaluatedPop
<1>6. Rows(calls', Len(feedback))
  BY <1>1, <1>2, PoppedIs DEF Shape, StackPopped
<1> QED
  BY <1>1, <1>2, <1>3, <1>5, <1>6
     DEF Shape, StackPopped, M!Idle, M!AtRest, ImageShape, M!report, M!export

(* A call that returned 0.                                                 *)
LEMMA UnwindShape ==
  ASSUME M!Assumption, Shape, M!Unwind
  PROVE  Shape'
<1>1. /\ calls # <<>> /\ job # "none" /\ UNCHANGED <<service, job, stored>>
      /\ failing' \in BOOLEAN /\ result' \in Nat
  BY DEF M!Unwind, M!None
<1>2. /\ Level(calls) = Level(M!Pop(calls)) + IF M!Here.demand = M!None THEN 1 ELSE 0
      /\ Level(M!Pop(calls)) \in Nat
      /\ Shaped(M!Pop(calls), M!Pop(frames)) /\ M!Here \in GuestCalls
  BY <1>1, RunningIs
<1>3. CASE M!Here.demand # M!None
  <2>1. /\ demand' = [demand EXCEPT ![M!Here.demand] = M!Failed(error)]
        /\ calls' = M!Pop(calls) /\ frames' = M!Pop(frames)
        /\ UNCHANGED <<heap, scratch, feedback, error>>
    BY <1>3 DEF M!Unwind
  <2>2. StackPopped
    BY <1>2, <2>1 DEF StackPopped
  <2>3. scratch' = Level(calls')
    BY <1>2, <1>3, <2>1 DEF Shape
  <2>4. Demanded(demand') /\ Evaluated(calls', demand')
    <3>1. M!Failed(error) \in [state : DemandStates, value : Nat] /\ M!Failed(error).state = "failed"
      BY DEF M!Failed, DemandStates, Shape
    <3> DEFINE x == M!Failed(error)
    <3> HIDE DEF x
    <3>2. demand' = [demand EXCEPT ![M!Here.demand] = x]
      BY <2>1 DEF x
    <3>3. /\ x \in [state : DemandStates, value : Nat]
          /\ x.state \in {"ready", "failed"} /\ x.state # "ready"
      BY <3>1 DEF x
    <3> QED
      BY <1>1, <1>3, <2>2, <3>2, <3>3, EvaluatedPop
  <2>5. Rows(calls', Len(feedback))
    BY <1>1, <2>1, PoppedIs DEF Shape
  <2> QED
    BY <1>1, <2>1, <2>2, <2>3, <2>4, <2>5 DEF Shape, StackPopped, M!Idle, M!AtRest, ImageShape
<1>4. CASE M!Here.demand = M!None
  <2>1. /\ scratch' = scratch - 1 /\ M!Settle(M!Here.saved) /\ UNCHANGED demand
    BY <1>4 DEF M!Unwind
  <2>2. StackPopped /\ DOMAIN heap' = DOMAIN heap
    <3>1. CASE M!Here.saved.on
      <4>1. /\ heap' = [heap EXCEPT ![M!Here.out] = M!Reports(M!Here.saved)]
            /\ M!LeaveFrames(M!Here.out)
        BY <1>4, <3>1 DEF M!Unwind
      <4>2. StackPopped
        BY <1>1, <1>4, <4>1, LeaveStep
      <4> QED
        BY <4>1, <4>2
    <3>2. CASE ~M!Here.saved.on
      <4>1. calls' = M!Pop(calls) /\ frames' = M!Pop(frames) /\ UNCHANGED heap
        BY <1>4, <3>2 DEF M!Unwind
      <4> QED
        BY <1>2, <4>1 DEF StackPopped
    <3> QED
      BY <3>1, <3>2
  <2>3. scratch' = Level(calls')
    BY <1>2, <1>4, <2>1, <2>2 DEF Shape, StackPopped
  <2>4. feedback' \in Seq(Nat) /\ error' \in Nat /\ Rows(calls', Len(feedback'))
    BY <1>1, <2>1, <2>2, SettleIs DEF StackPopped
  <2>5. Evaluated(calls', demand)
    <3>1. \A d : Evaluating(calls, d) <=> Evaluating(M!Pop(calls), d) \/ M!Here.demand = d
      BY <1>1, PoppedIs
    <3>2. \A d \in M!Globals : d # M!None
      BY DEF M!Globals, M!None
    <3> QED
      BY <1>4, <2>2, <3>1, <3>2 DEF Shape, StackPopped, Evaluated
  <2> QED
    BY <1>1, <2>1, <2>2, <2>3, <2>4, <2>5 DEF Shape, StackPopped, M!Idle, M!AtRest, ImageShape
<1> QED
  BY <1>3, <1>4

(* The exports.                                                            *)
LEMMA EndShape ==
  ASSUME M!Assumption, Shape, job \in M!Jobs, M!AtRest, UNCHANGED <<M!Execution, stored>>,
         service' \in GuestServices, job' \in M!Jobs, result' = result
  PROVE  Shape'
<1>1. UNCHANGED <<heap, demand, calls, frames, scratch, feedback, error, failing>>
  BY DEF M!Execution, M!stack, M!report
<1> QED
  BY <1>1 DEF Shape, M!Idle, M!AtRest, ImageShape

LEMMA RestingExports ==
  ASSUME M!Assumption, Shape,
         M!BeginPrepare \/ M!EndPrepare \/ M!FailPrepare \/ M!EndCreate \/ M!FailCreate \/ M!EndRun
  PROVE  Shape'
<1>1. /\ M!AtRest /\ UNCHANGED <<M!Execution, stored>> /\ job' \in M!Jobs /\ result' = result
  BY DEF M!BeginPrepare, M!EndPrepare, M!FailPrepare, M!EndCreate, M!FailCreate, M!EndRun, M!Jobs, Shape
<1>2. service \in GuestServices /\ Demanded(demand) /\ result \in Nat
  BY DEF Shape
<1>3. service' \in GuestServices
  <2>1. CASE UNCHANGED service
    BY <1>2, <2>1
  <2>2. CASE M!EndPrepare
    <3>1. Demands \in M!Globals
      BY DEF M!Assumption, M!Globals
    <3>2. demand[Demands].value \in Nat
      BY <1>2, <3>1 DEF Demanded
    <3> QED
      BY <1>2, <2>2, <3>2 DEF M!EndPrepare, GuestServices
  <2>3. CASE M!EndCreate
    BY <1>2, <2>3 DEF M!EndCreate, GuestServices, M!NoService, M!None
  <2> QED
    BY <2>1, <2>2, <2>3 DEF M!BeginPrepare, M!FailPrepare, M!FailCreate, M!EndRun
<1> QED
  BY <1>1, <1>3, EndShape DEF Shape

LEMMA StoreShape ==
  ASSUME M!Assumption, Shape, M!StoreSource
  PROVE  Shape'
<1>1. PICK h \in M!Afterwards(heap, frames) :
        /\ M!Fits(h) /\ heap' = M!With(h, M!Free(h), {})
        /\ service' = [service EXCEPT !.values = @ \cup {M!Free(h)}]
  BY DEF M!StoreSource
<1>2. DOMAIN heap \subseteq M!Allocations /\ job \in M!Jobs
  BY DEF Shape
<1>3. DOMAIN h \subseteq M!Allocations
  BY <1>2, SweptIs
<1>4. M!Free(h) \in M!Allocations
  BY <1>1, <1>2, <1>3, FreeIs
<1>5. DOMAIN heap' \subseteq M!Allocations
  <2>1. DOMAIN M!With(h, M!Free(h), {}) = DOMAIN h \cup {M!Free(h)}
    BY WithDomain
  <2> QED
    BY <1>1, <1>3, <1>4, <2>1
<1>6. service' \in GuestServices
  BY <1>1, <1>4 DEF Shape, GuestServices
<1>7. UNCHANGED <<demand, calls, frames, scratch, feedback, error, failing, job, result, stored>>
  BY DEF M!StoreSource, M!stack, M!report
<1> QED
  BY <1>5, <1>6, <1>7 DEF Shape, M!Idle, M!AtRest, ImageShape

(* The argument and the output of an export, and the one frame above them. *)
LEMMA InvokeShape ==
  ASSUME M!Assumption, Shape, NEW c \in Nat, NEW contents, M!AtRest,
         M!Invoke(c, contents), job' \in M!Jobs \ {"none"}
  PROVE  Shape'
<1> DEFINE h == M!With(heap, M!New, contents)
           o == M!Free(h)
           g == M!With(h, o, {})
           n == M!New
<1>1. /\ M!Room /\ M!Fits(h) /\ M!Enter(g, <<>>, <<>>, c, n, o, M!NoCapture)
      /\ result' = M!None /\ UNCHANGED <<demand, M!report, service, stored>>
  BY DEF M!Invoke
<1>2. DOMAIN heap \subseteq M!Allocations /\ job \in M!Jobs
  BY DEF Shape
<1>3. n \in M!Allocations /\ n \in Nat
  BY <1>1, <1>2, NewIs
<1>4. DOMAIN h \subseteq M!Allocations
  <2>1. DOMAIN h = DOMAIN heap \cup {n}
    BY WithDomain
  <2> QED
    BY <1>2, <1>3, <2>1
<1> HIDE DEF h
<1>5. o \in M!Allocations /\ o # M!None
  BY <1>1, <1>2, <1>4, FreeIs
<1>6. DOMAIN g \subseteq M!Allocations
  <2>1. DOMAIN g = DOMAIN h \cup {o}
    BY WithDomain
  <2> QED
    BY <1>4, <1>5, <2>1
<1>7. /\ Shaped(<<>>, <<>>) /\ Level(<<>>) = 0 /\ scratch = 0
      /\ \A k : Rows(<<>>, k) /\ \A d : ~Evaluating(<<>>, d)
  <2>1. Shaped(calls, frames) /\ scratch = Level(calls) /\ calls = <<>>
    BY DEF Shape, M!AtRest
  <2>2. frames = <<>>
    BY <2>1 DEF Shaped
  <2>3. Level(calls) = 0
    <3>1. calls \in Seq(GuestCalls) /\ calls = <<>>
      BY <2>1 DEF Shaped
    <3> QED
      BY <3>1, LevelIs
  <2> QED
    BY <2>1, <2>2, <2>3 DEF Rows, Evaluating
<1> HIDE DEF n, o, g
<1>8. /\ M!NoCapture \in [on : BOOLEAN, rows : Nat, error : Nat] /\ ~M!NoCapture.on
      /\ o \in Nat /\ o <= M!Scratch(scratch)
  BY <1>5, <1>7 DEF M!NoCapture, M!None, M!Scratch, M!Allocations, M!Assumption
<1> DEFINE s == M!NoCapture
           e == <<>>
<1>9. /\ s \in [on : BOOLEAN, rows : Nat, error : Nat] /\ ~s.on
      /\ M!Enter(g, e, e, c, n, o, s)
      /\ Shaped(e, e) /\ Level(e) = scratch /\ e = <<>>
      /\ \A k : Rows(e, k) /\ \A d : ~Evaluating(e, d)
  BY <1>1, <1>7, <1>8
<1> HIDE DEF s, e
<1>10. /\ calls' # <<>> /\ Shaped(calls', frames') /\ scratch' = Level(calls')
       /\ \A k : Rows(calls', k) <=> Rows(e, k) /\ (s.on => s.rows <= k)
       /\ \A d \in M!Globals : Evaluating(calls', d) <=> Evaluating(e, d)
  BY <1>3, <1>5, <1>8, <1>9, EnterStep
<1>11. DOMAIN heap' \subseteq M!Allocations
  <2>1. heap' \in M!Afterwards(g, frames')
    BY <1>1 DEF M!Enter, M!Safepoint
  <2> QED
    BY <1>6, <2>1, SweptIs
<1>12. UNCHANGED <<demand, feedback, error, failing, service, stored>>
  BY <1>1 DEF M!report
<1>13. Evaluated(calls', demand)
  <2>1. Evaluated(calls, demand) /\ calls = <<>>
    BY DEF Shape, M!AtRest
  <2> QED
    BY <1>9, <1>10, <2>1 DEF Evaluated, Evaluating
<1>14. ~M!Idle' /\ job' \in M!Jobs
  BY DEF M!Idle
<1>15. Rows(calls', Len(feedback))
  BY <1>9, <1>10
<1>16. result' \in Nat
  BY <1>1 DEF M!None
<1> QED
  BY <1>10, <1>11, <1>12, <1>13, <1>14, <1>15, <1>16 DEF Shape, ImageShape

LEMMA AtRestIs ==
  ASSUME Shape, M!AtRest
  PROVE  /\ Shaped(<<>>, <<>>) /\ Level(<<>>) = 0 /\ frames = <<>> /\ scratch = 0
         /\ \A k : Rows(<<>>, k)
         /\ \A d \in M!Globals : demand[d].state # "running"
<1>1. /\ Shaped(calls, frames) /\ scratch = Level(calls) /\ calls = <<>>
      /\ Evaluated(calls, demand)
  BY DEF Shape, M!AtRest
<1>2. frames = <<>>
  BY <1>1 DEF Shaped
<1>3. Level(calls) = 0
  <2>1. calls \in Seq(GuestCalls)
    BY <1>1 DEF Shaped
  <2> QED
    BY <1>1, <2>1, LevelIs
<1>4. \A d : ~Evaluating(<<>>, d)
  BY DEF Evaluating
<1> QED
  BY <1>1, <1>2, <1>3, <1>4 DEF Rows, Evaluated

LEMMA RestoreShape ==
  ASSUME M!Assumption, NEW i, ImageShape(i), ImageShape(stored'), M!Restore(i)
  PROVE  Shape'
<1>1. /\ heap' = i.heap /\ demand' = i.demand
      /\ calls' = <<>> /\ frames' = <<>> /\ scratch' = 0
      /\ feedback' = i.feedback /\ error' = M!None /\ failing' = FALSE
      /\ service' = [M!NoService EXCEPT !.handler = i.handler]
      /\ job' = "none" /\ result' = M!None
  BY DEF M!Restore
<1>2. /\ Shaped(<<>>, <<>>) /\ Level(<<>>) = 0
      /\ \A k : Rows(<<>>, k) /\ \A d : ~Evaluating(<<>>, d)
  <2> DEFINE e == <<>>
  <2>2. e \in Seq(GuestCalls) /\ e \in Seq(RootFrames) /\ e = <<>>
    OBVIOUS
  <2> HIDE DEF e
  <2>1. Level(e) = 0
    BY <2>2, LevelIs
  <2> QED
    BY <2>1, <2>2 DEF Rows, Evaluating, Shaped
<1>3. service' \in GuestServices
  BY <1>1 DEF M!NoService, M!None, ImageShape, GuestServices
<1>4. Evaluated(<<>>, demand')
  BY <1>1, <1>2 DEF Evaluated, ImageShape
<1> QED
  BY <1>1, <1>2, <1>3, <1>4 DEF Shape, ImageShape, M!Idle, M!AtRest, M!None, M!Jobs

LEMMA InstanceShape ==
  ASSUME M!Assumption, Shape, M!Reset \/ M!Export \/ M!Import \/ M!Trap
  PROVE  Shape'
<1>1. CASE M!Reset
  <2>1. /\ M!AtRest /\ calls' = <<>> /\ frames' = <<>> /\ scratch' = 0
        /\ feedback' = <<>> /\ error' = M!None /\ failing' = FALSE
        /\ UNCHANGED <<heap, demand, service, job, result, stored>>
    BY <1>1 DEF M!Reset, M!ResetFeedback, M!export, Shape
  <2>2. /\ Shaped(<<>>, <<>>) /\ Level(<<>>) = 0 /\ \A k : Rows(<<>>, k)
    BY <2>1, AtRestIs
  <2>3. Evaluated(calls', demand') /\ Rows(calls', Len(feedback')) /\ feedback' \in Seq(Nat)
    BY <2>1, <2>2 DEF Shape, M!AtRest
  <2>4. M!AtRest' /\ error' \in Nat
    BY <2>1 DEF M!AtRest, M!None
  <2> QED
    BY <2>1, <2>2, <2>3, <2>4 DEF Shape, ImageShape
<1>2. CASE M!Export
  <2>1. stored' = M!Image /\ M!Restore(M!Image) /\ M!AtRest
    BY <1>2 DEF M!Export, Shape
  <2> DEFINE R == {service.handler} \cup M!DemandRoots \cup M!Elements(feedback)
             live == M!Reached(heap, R)
  <2>2. live \subseteq DOMAIN heap
    BY HeapFinite, ReachedLeast DEF Shape
  <2>3. /\ M!Image.heap = [o \in live |-> heap[o]] /\ M!Image.demand = demand
        /\ M!Image.feedback = feedback /\ M!Image.handler = service.handler
    BY DEF M!Image
  <2> HIDE DEF live
  <2>4. \A d \in M!Globals : demand[d].state # "running"
    BY <2>1, AtRestIs
  <2>5. ImageShape(M!Image)
    <3>1. DOMAIN M!Image.heap = live
      BY <2>3
    <3>2. service.handler \in Nat
      BY DEF Shape, GuestServices
    <3> QED
      BY <2>2, <2>3, <2>4, <3>1, <3>2 DEF ImageShape, Shape
  <2> DEFINE i == M!Image
  <2>6. M!Restore(i) /\ ImageShape(i) /\ stored' = i
    BY <2>1, <2>5
  <2> HIDE DEF i
  <2> QED
    BY <2>6, RestoreShape
<1>3. CASE M!Import
  BY <1>3, RestoreShape DEF M!Import, Shape
<1>4. CASE M!Trap
  <2>1. ImageShape(M!Fresh)
    BY DEF ImageShape, M!Fresh, Demanded, DemandStates, M!Pending, M!None
  <2>2. M!Restore(M!Fresh) /\ UNCHANGED stored /\ ImageShape(stored)
    BY <1>4 DEF M!Trap, Shape
  <2> DEFINE i == M!Fresh
  <2>3. M!Restore(i) /\ ImageShape(i) /\ ImageShape(stored')
    BY <2>1, <2>2
  <2> HIDE DEF i
  <2> QED
    BY <2>3, RestoreShape
<1> QED
  BY <1>1, <1>2, <1>3, <1>4

LEMMA StepShape ==
  ASSUME M!Assumption, Shape, M!Step
  PROVE  Shape'
<1>1. CASE M!Unwind
  BY <1>1, UnwindShape
<1>2. CASE M!MakePlain
  BY <1>2, MakePlainShape
<1>3. ASSUME NEW d \in M!Globals,
             M!UseReady(d) \/ M!UseFailed(d) \/ M!UseRunning(d) \/ M!Evaluate(d) \/ M!InitializeGlobal(d)
      PROVE  Shape'
  <2>1. CASE M!UseReady(d)
    BY <2>1, UseReadyShape
  <2>2. CASE M!UseFailed(d)
    BY <2>2, UseFailedShape
  <2>3. CASE M!UseRunning(d)
    BY <2>3, UseRunningShape
  <2>4. CASE M!Evaluate(d)
    <3>1. M!Start(d) /\ job # "none"
      BY <2>4 DEF M!Evaluate, M!Able
    <3> QED
      BY <3>1, StartShape
  <2>5. CASE M!InitializeGlobal(d)
    <3>1. M!Start(d) /\ job # "none"
      BY <2>5 DEF M!InitializeGlobal
    <3> QED
      BY <3>1, StartShape
  <2> QED
    BY <1>3, <2>1, <2>2, <2>3, <2>4, <2>5
<1>4. ASSUME calls # <<>>, NEW v \in M!Values(M!Here) \cup {M!None}, M!Make(v) \/ M!Fail(v)
      PROVE  Shape'
  BY <1>4, MakeShape, FailShape
<1>5. ASSUME calls # <<>>, NEW v \in M!Values(M!Here), M!Warn(v) \/ M!Return(v) \/ M!Finish(v)
      PROVE  Shape'
  BY <1>5, WarnShape, ReturnShape, FinishShape
<1>6. ASSUME calls # <<>>, NEW v \in M!Values(M!Here), NEW w \in M!Allocations, M!Load(v, w)
      PROVE  Shape'
  BY <1>6, LoadShape
<1>7. ASSUME calls # <<>>, NEW k \in 0 .. Len(M!Here.locals), M!Release(k) \/ M!Discard(k)
      PROVE  Shape'
  <2>1. k \in Nat
    <3>1. M!Here \in GuestCalls
      BY <1>7, RunningIs
    <3>2. Len(M!Here.locals) \in Nat
      BY <3>1 DEF GuestCalls
    <3> QED
      BY <3>2
  <2> QED
    BY <1>7, <2>1, ReleaseShape, DiscardShape
<1>8. ASSUME calls # <<>>, NEW c \in M!Values(M!Here), NEW a \in M!Values(M!Here),
             \/ \E plain \in BOOLEAN : M!Call(c, a, plain, M!NoCapture)
             \/ M!Call(c, a, FALSE, M!Capturing)
             \/ M!TailCall(c, a)
      PROVE  Shape'
  <2>1. ASSUME NEW plain \in BOOLEAN, M!Call(c, a, plain, M!NoCapture)
        PROVE  Shape'
    <3> DEFINE s == M!NoCapture
    <3>1. s = M!NoCapture /\ M!Call(c, a, plain, s)
      BY <2>1
    <3> HIDE DEF s
    <3> QED
      BY <3>1, CallShape
  <2>2. CASE M!Call(c, a, FALSE, M!Capturing)
    <3> DEFINE s == M!Capturing
               p == FALSE
    <3>1. s = M!Capturing /\ p \in BOOLEAN /\ ~p /\ M!Call(c, a, p, s)
      BY <2>2
    <3> HIDE DEF s, p
    <3> QED
      BY <3>1, CallShape
  <2>3. CASE M!TailCall(c, a)
    BY <2>3, TailCallShape
  <2> QED
    BY <1>8, <2>1, <2>2, <2>3
<1> QED
  BY <1>1, <1>2, <1>3, <1>4, <1>5, <1>6, <1>7, <1>8 DEF M!Step

LEMMA BeginShape ==
  ASSUME M!Assumption, Shape, M!BeginCreate \/ M!BeginRun
  PROVE  Shape'
<1>1. M!AtRest /\ service \in GuestServices
  BY DEF Shape, M!BeginCreate, M!BeginRun
<1>2. service.initializer \in Nat /\ service.handler \in Nat
  BY <1>1 DEF GuestServices
<1>3. CASE M!BeginCreate
  <2> DEFINE c == service.initializer
             s == service.values
  <2>1. M!Invoke(c, s) /\ job' \in M!Jobs \ {"none"} /\ c \in Nat
    BY <1>2, <1>3 DEF M!BeginCreate, M!Jobs
  <2> HIDE DEF c, s
  <2> QED
    BY <1>1, <2>1, InvokeShape
<1>4. CASE M!BeginRun
  <2> DEFINE c == service.handler
             s == {}
  <2>1. M!Invoke(c, s) /\ job' \in M!Jobs \ {"none"} /\ c \in Nat
    BY <1>2, <1>4 DEF M!BeginRun, M!Jobs
  <2> HIDE DEF c, s
  <2> QED
    BY <1>1, <2>1, InvokeShape
<1> QED
  BY <1>3, <1>4

LEMMA NextShape ==
  ASSUME M!Assumption, Shape, M!Next
  PROVE  Shape'
BY StepShape, BeginShape, RestingExports, StoreShape, InstanceShape DEF M!Next

LEMMA InitShape ==
  ASSUME M!Assumption, M!Init
  PROVE  Shape
<1> DEFINE e == <<>>
<1>1. e \in Seq(GuestCalls) /\ e \in Seq(RootFrames) /\ e = <<>>
  OBVIOUS
<1> HIDE DEF e
<1>2. Level(e) = 0
  BY <1>1, LevelIs
<1>3. /\ Shaped(calls, frames) /\ scratch = Level(calls)
      /\ Rows(calls, Len(feedback)) /\ \A d : ~Evaluating(calls, d)
  BY <1>1, <1>2 DEF M!Init, Shaped, Rows, Evaluating
<1>4. ImageShape(M!Fresh)
  BY DEF ImageShape, M!Fresh, Demanded, DemandStates, M!Pending, M!None
<1>5. ImageShape(M!Built)
  BY DEF ImageShape, M!Built, Demanded, DemandStates, M!Ready, M!Allocations, M!Assumption
<1>6. Evaluated(calls, demand) /\ Demanded(demand) /\ DOMAIN heap \subseteq M!Allocations
  <2> DEFINE i == M!Fresh
  <2>1. ImageShape(i) /\ heap = i.heap /\ demand = i.demand
    BY <1>4 DEF M!Init
  <2> HIDE DEF i
  <2> QED
    BY <1>3, <2>1 DEF Evaluated, ImageShape
<1>7. service \in GuestServices
  BY DEF M!Init, M!NoService, GuestServices, M!None
<1>8. /\ feedback \in Seq(Nat) /\ error \in Nat /\ failing \in BOOLEAN /\ job \in M!Jobs /\ result \in Nat
      /\ M!AtRest
  <2>1. /\ feedback = <<>> /\ error = M!None /\ failing = FALSE /\ job = "none" /\ result = M!None
        /\ calls = <<>>
    BY DEF M!Init
  <2>2. feedback \in Seq(Nat)
    BY <2>1
  <2>3. job \in M!Jobs /\ M!AtRest
    BY <2>1 DEF M!Jobs, M!AtRest
  <2> QED
    BY <2>1, <2>2, <2>3 DEF M!None
<1>9. ImageShape(stored)
  BY <1>5 DEF M!Init
<1> QED
  BY <1>3, <1>6, <1>7, <1>8, <1>9 DEF Shape

LEMMA ShapeBalanced ==
  ASSUME M!Assumption, Shape
  PROVE  M!Balanced /\ M!OneEvaluation
<1>1. /\ Shaped(calls, frames) /\ scratch = Level(calls) /\ Evaluated(calls, demand)
  BY DEF Shape
<1>2. /\ calls \in Seq(GuestCalls) /\ frames \in Seq(RootFrames) /\ Len(frames) = Len(calls)
      /\ \A i \in 1 .. Len(calls) :
           Atop(SubSeq(calls, 1, i - 1), SubSeq(frames, 1, i - 1), calls[i], frames[i])
  BY <1>1 DEF Shaped
<1>3. M!Balanced
  <2>1. M!Functions(M!Top) = {k \in 1 .. Len(calls) : calls[k].demand = M!None}
    BY DEF M!Functions, M!Top
  <2>2. scratch = M!Cardinality(M!Functions(M!Top))
    BY <1>1, <2>1, SameCardinality DEF Level
  <2>3. \A i \in 1 .. M!Top : Len(frames[i].slots) = Len(calls[i].locals)
    BY <1>2 DEF M!Top, Atop
  <2> QED
    BY <1>2, <2>2, <2>3 DEF M!Balanced, M!Top
<1>4. ASSUME NEW d \in M!Globals
      PROVE  /\ M!Cardinality({i \in 1 .. M!Top : calls[i].demand = d}) <= 1
             /\ demand[d].state = "running" => {i \in 1 .. M!Top : calls[i].demand = d} # {}
             /\ demand[d].state \in {"pending", "ready"} =>
                  {i \in 1 .. M!Top : calls[i].demand = d} = {}
  <2> DEFINE S == {i \in 1 .. M!Top : calls[i].demand = d}
  <2>1. Evaluating(calls, d) <=> S # {}
    BY DEF Evaluating, M!Top
  <2>2. ASSUME NEW i \in S, NEW j \in S, j < i
        PROVE  FALSE
    <3>1. i \in 1 .. Len(calls) /\ j \in 1 .. i - 1 /\ calls[i].demand = d /\ calls[j].demand = d
      BY <2>2 DEF M!Top
    <3>2. d # M!None
      BY DEF M!Globals, M!None
    <3> DEFINE p == SubSeq(calls, 1, i - 1)
               q == SubSeq(frames, 1, i - 1)
    <3>3. Len(p) = i - 1 /\ p[j] = calls[j]
      BY <1>2, <3>1
    <3>4. Atop(p, q, calls[i], frames[i])
      BY <1>2, <3>1
    <3> HIDE DEF p, q
    <3>5. \A k \in 1 .. Len(p) : p[k].demand # calls[i].demand
      BY <3>1, <3>2, <3>4 DEF Atop
    <3> QED
      BY <3>1, <3>3, <3>5
  <2>3. \A i, j \in S : i = j
    <3>1. \A i \in S : i \in Nat
      BY <1>2 DEF M!Top
    <3> QED
      BY <2>2, <3>1
  <2>4. Cardinality(S) <= 1
    <3>1. CASE S = {}
      BY <3>1, FS_EmptySet
    <3>2. CASE S # {}
      <4>1. PICK i : i \in S
        BY <3>2
      <4>2. S = {i}
        BY <2>3, <4>1
      <4>3. Cardinality({i}) = 1
        BY FS_Singleton
      <4> QED
        BY <4>2, <4>3
    <3> QED
      BY <3>1, <3>2
  <2>5. M!Cardinality(S) <= 1
    BY <2>4, SameCardinality
  <2> HIDE DEF S
  <2>6. /\ demand[d].state = "running" => S # {}
        /\ demand[d].state \in {"pending", "ready"} => S = {}
    BY <1>1, <2>1 DEF Evaluated
  <2> QED
    BY <2>5, <2>6 DEF S
<1>5. M!OneEvaluation
  BY <1>4 DEF M!OneEvaluation
<1> QED
  BY <1>3, <1>5

-----------------------------------------------------------------------------
(* The runner takes the machine's steps, or leaves it alone.               *)
LEMMA ServingStep == ServingNext => M!Next \/ UNCHANGED machine
<1>1. HostOnly => UNCHANGED machine
  BY DEF HostOnly
<1>2. ServingNext /\ ~HostOnly => M!Next \/ UNCHANGED machine
  BY DEF ServingNext, BeginPrepare, BeginCreate, BeginRun, MachineStep,
         EndPrepare, EndInject, EndCreate, EndRun,
         CompactInstance, ImportInstance, ReplaceInstance, ResetInstance, LoseInstance, M!Next
<1> QED
  BY <1>1, <1>2

(* However a step of the composition ends, the machine keeps its shape.    *)
THEOREM ServingShape == ServingSpec => []Shape
<1> USE MachineAssumption
<1>1. ServingInit => Shape
  BY InitShape DEF ServingInit
<1>2. Shape /\ [ServingNext]_<<vars, machine>> => Shape'
  <2>1. ASSUME Shape, UNCHANGED machine
        PROVE  Shape'
    BY <2>1 DEF machine, Shape, ImageShape, M!Idle, M!AtRest
  <2>2. ASSUME Shape, ServingNext
        PROVE  Shape'
    BY <2>1, <2>2, ServingStep, NextShape
  <2> QED
    BY <2>1, <2>2 DEF machine
<1> QED
  BY <1>1, <1>2, PTL DEF ServingSpec

(* The frames, the scratch words and the evaluations are those of the      *)
(* calls in progress, however a call ended.                                *)
THEOREM ServingStackKept == ServingSpec => []StackKept
<1>1. Shape => StackKept
  BY MachineAssumption, ShapeBalanced DEF StackKept
<1> QED
  BY <1>1, ServingShape, PTL

-----------------------------------------------------------------------------
(* What the calls refer to.                                                *)

(* What a frame keeps, up to one of its slots.                             *)
Refs(f, n) == {s.ref : s \in f.params} \cup {f.slots[m].ref : m \in 1 .. n}
Held(h, f, n) == M!Reached(h, Refs(f, n))

Named(r, S, level) == r = M!None \/ r \in S \/ (r > HeapSize /\ r <= M!Scratch(level))

(* A frame publishes what is there, and what a storage contains is kept by *)
(* the slots before it.                                                    *)
Published(h, f) ==
  /\ \A s \in f.params :
       /\ s.ref \in M!Allocations => s.ref \in DOMAIN h /\ (s.value \/ h[s.ref] = {})
       /\ s.value => s.ref \in DOMAIN h
  /\ \A m \in 1 .. Len(f.slots) :
       /\ f.slots[m].ref \in DOMAIN h \cup {M!None}
       /\ f.slots[m].value => f.slots[m].ref \in DOMAIN h
       /\ ~f.slots[m].value /\ f.slots[m].ref # M!None =>
            h[f.slots[m].ref] \subseteq Held(h, f, m - 1)

(* Whatever a call can name its frame keeps, a local by what was published *)
(* up to it; and the place for its result is empty until it returns.       *)
Safe(h, c, f, level) ==
  /\ Published(h, f)
  /\ Named(c.env, Held(h, f, 0), level) /\ Named(c.arg, Held(h, f, 0), level)
  /\ \A n \in 1 .. Len(c.locals) : Named(c.locals[n], Held(h, f, n), level)
  /\ c.out \in M!Allocations => c.out \in DOMAIN h /\ h[c.out] = {}

(* That place is known to the call and its caller alone.                   *)
Apart(cs, fs, c, f) ==
  /\ \A s \in f.params : s.value \/ s.ref \in {M!None, c.out}
  /\ c.out \in M!Allocations =>
       /\ M!Storage(c.out) \in f.params
       /\ \A m \in 1 .. Len(f.slots) : f.slots[m] # M!Storage(c.out)
       /\ \A j \in 1 .. Len(cs) : cs[j].out # c.out
       /\ \A j \in 1 .. Len(cs) : \A m \in 1 .. Len(fs[j].slots) :
            fs[j].slots[m] = M!Storage(c.out) => j = Len(cs) /\ m = Len(fs[j].slots)
  /\ \A j \in 1 .. Len(cs) : cs[j].out \in M!Allocations =>
       \A m \in 1 .. Len(f.slots) : f.slots[m] # M!Storage(cs[j].out)

Words(cs, c) == Level(cs) + IF c.demand = M!None THEN 1 ELSE 0

Upon(h, cs, fs, c, f) == Apart(cs, fs, c, f) /\ Safe(h, c, f, Words(cs, c))

Secure(h, cs, fs) ==
  \A i \in 1 .. Len(cs) :
    Upon(h, SubSeq(cs, 1, i - 1), SubSeq(fs, 1, i - 1), cs[i], fs[i])

LEMMA SecurePush ==
  ASSUME NEW h, NEW cs, NEW fs, Shaped(cs, fs), Secure(h, cs, fs),
         NEW c \in GuestCalls, NEW f \in RootFrames, Upon(h, cs, fs, c, f)
  PROVE  Secure(h, Append(cs, c), Append(fs, f))
<1> DEFINE ct == Append(cs, c)
           ft == Append(fs, f)
<1>0. cs \in Seq(GuestCalls) /\ fs \in Seq(RootFrames) /\ Len(fs) = Len(cs)
  BY DEF Shaped
<1>1. /\ ct \in Seq(GuestCalls) /\ Len(cs) \in Nat /\ Len(ct) = Len(cs) + 1
      /\ \A i \in 1 .. Len(cs) : ct[i] = cs[i]
      /\ ct[Len(cs) + 1] = c
  BY <1>0, PushIs
<1>2. /\ \A i \in 1 .. Len(cs) : ft[i] = fs[i]
      /\ ft[Len(cs) + 1] = f
  BY <1>0, PushIs
<1>3. /\ \A i \in 1 .. Len(cs) : SubSeq(ct, 1, i - 1) = SubSeq(cs, 1, i - 1)
      /\ \A i \in 1 .. Len(cs) : SubSeq(ft, 1, i - 1) = SubSeq(fs, 1, i - 1)
      /\ SubSeq(ct, 1, Len(cs)) = cs /\ SubSeq(ft, 1, Len(cs)) = fs
  BY <1>0, Prefixes
<1> HIDE DEF ct, ft
<1>4. ASSUME NEW i \in 1 .. Len(ct)
      PROVE  Upon(h, SubSeq(ct, 1, i - 1), SubSeq(ft, 1, i - 1), ct[i], ft[i])
  <2>1. CASE i \in 1 .. Len(cs)
    BY <1>1, <1>2, <1>3, <2>1 DEF Secure
  <2>2. CASE i = Len(cs) + 1
    <3>1. i - 1 = Len(cs)
      BY <1>1, <2>2
    <3> QED
      BY <1>1, <1>2, <1>3, <2>2, <3>1
  <2> QED
    BY <1>1, <2>1, <2>2
<1> QED
  BY <1>4 DEF Secure, ct, ft

LEMMA SecurePop ==
  ASSUME NEW h, NEW cs, NEW fs, Shaped(cs, fs), Secure(h, cs, fs), cs # <<>>
  PROVE  /\ Secure(h, M!Pop(cs), M!Pop(fs))
         /\ Upon(h, M!Pop(cs), M!Pop(fs), cs[Len(cs)], fs[Len(cs)])
<1>0. cs \in Seq(GuestCalls) /\ fs \in Seq(RootFrames) /\ Len(fs) = Len(cs) /\ fs # <<>>
  BY DEF Shaped
<1>1. /\ Len(cs) \in Nat /\ Len(cs) >= 1
      /\ Len(M!Pop(cs)) = Len(cs) - 1
      /\ \A i \in 1 .. Len(cs) - 1 : M!Pop(cs)[i] = cs[i]
  BY <1>0, PopIs
<1>2. \A i \in 1 .. Len(cs) - 1 : M!Pop(fs)[i] = fs[i]
  BY <1>0, PopIs
<1>3. /\ SubSeq(cs, 1, Len(cs) - 1) = M!Pop(cs)
      /\ \A i \in 1 .. Len(cs) - 1 : SubSeq(cs, 1, i - 1) = SubSeq(M!Pop(cs), 1, i - 1)
  BY <1>0, <1>1, PopPush
<1>4. /\ SubSeq(fs, 1, Len(cs) - 1) = M!Pop(fs)
      /\ \A i \in 1 .. Len(cs) - 1 : SubSeq(fs, 1, i - 1) = SubSeq(M!Pop(fs), 1, i - 1)
  BY <1>0, <1>2, PopPush
<1>5. Upon(h, M!Pop(cs), M!Pop(fs), cs[Len(cs)], fs[Len(cs)])
  <2>1. Len(cs) \in 1 .. Len(cs)
    BY <1>1
  <2> QED
    BY <1>3, <1>4, <2>1 DEF Secure
<1>6. \A i \in 1 .. Len(M!Pop(cs)) :
        Upon(h, SubSeq(M!Pop(cs), 1, i - 1), SubSeq(M!Pop(fs), 1, i - 1), M!Pop(cs)[i], M!Pop(fs)[i])
  <2> SUFFICES ASSUME NEW i \in 1 .. Len(cs) - 1
               PROVE  Upon(h, SubSeq(cs, 1, i - 1), SubSeq(fs, 1, i - 1), cs[i], fs[i])
    BY <1>1, <1>2, <1>3, <1>4
  <2>1. i \in 1 .. Len(cs)
    BY <1>1
  <2> QED
    BY <2>1 DEF Secure
<1> QED
  BY <1>5, <1>6 DEF Secure

LEMMA HeldGrows ==
  ASSUME M!Assumption, NEW h, Heaps(h), NEW f, NEW n \in Nat, NEW k \in Nat, k <= n
  PROVE  /\ Held(h, f, k) \subseteq Held(h, f, n) /\ Held(h, f, n) \subseteq DOMAIN h
         /\ Refs(f, k) \subseteq Refs(f, n) /\ Refs(f, n) \cap DOMAIN h \subseteq Held(h, f, n)
         /\ \A o \in Held(h, f, n) : h[o] \subseteq Held(h, f, n)
<1>1. Refs(f, k) \subseteq Refs(f, n)
  BY DEF Refs
<1> QED
  BY <1>1, ReachedMonotone, ReachedHas DEF Held

(* A frame keeps what it kept, and its call may name it, in a heap where   *)
(* all of that is still there and nothing of it forgotten.                 *)
LEMMA SafeStays ==
  ASSUME M!Assumption, NEW h, Heaps(h), NEW g, Heaps(g),
         NEW c, NEW f, NEW level, Len(f.slots) \in Nat, Len(c.locals) = Len(f.slots),
         Safe(h, c, f, level),
         \A o \in Held(h, f, Len(f.slots)) : o \in DOMAIN g /\ h[o] \subseteq g[o],
         \A s \in f.params : ~s.value /\ s.ref \in DOMAIN h => g[s.ref] = h[s.ref],
         \A m \in 1 .. Len(f.slots) :
           ~f.slots[m].value /\ f.slots[m].ref \in DOMAIN h =>
             g[f.slots[m].ref] = h[f.slots[m].ref],
         c.out \in M!Allocations => c.out \in DOMAIN g /\ g[c.out] = {}
  PROVE  /\ Safe(g, c, f, level)
         /\ \A n \in 0 .. Len(f.slots) : Held(h, f, n) \subseteq Held(g, f, n)
<1> DEFINE L == Len(f.slots)
<1>1. ASSUME NEW n \in 0 .. L
      PROVE  Held(h, f, n) \subseteq Held(h, f, L) /\ Held(h, f, n) \subseteq Held(g, f, n)
  <2>1. Held(h, f, n) \subseteq Held(h, f, L)
    BY HeldGrows
  <2>2. Held(h, f, n) \subseteq DOMAIN g /\ \A o \in Held(h, f, n) : h[o] \subseteq g[o]
    BY <2>1
  <2> QED
    BY <2>1, <2>2, ReachedStays DEF Held
<1>2. Refs(f, L) \cap DOMAIN h \subseteq Held(h, f, L)
  BY HeldGrows
<1>3. \A s \in f.params : s.ref \in Refs(f, L)
  BY DEF Refs
<1>4. \A m \in 1 .. L : f.slots[m].ref \in Refs(f, L)
  BY DEF Refs
<1>5. Published(h, f)
  BY DEF Safe
<1>6. Published(g, f)
  <2>1. ASSUME NEW s \in f.params
        PROVE  /\ s.ref \in M!Allocations => s.ref \in DOMAIN g /\ (s.value \/ g[s.ref] = {})
               /\ s.value => s.ref \in DOMAIN g
    <3>1. /\ s.ref \in M!Allocations => s.ref \in DOMAIN h /\ (s.value \/ h[s.ref] = {})
          /\ s.value => s.ref \in DOMAIN h
      BY <1>5 DEF Published
    <3>2. s.ref \in DOMAIN h => s.ref \in DOMAIN g
      BY <1>2, <1>3
    <3> QED
      BY <3>1, <3>2
  <2>2. ASSUME NEW m \in 1 .. L
        PROVE  /\ f.slots[m].ref \in DOMAIN g \cup {M!None}
               /\ f.slots[m].value => f.slots[m].ref \in DOMAIN g
               /\ ~f.slots[m].value /\ f.slots[m].ref # M!None =>
                    g[f.slots[m].ref] \subseteq Held(g, f, m - 1)
    <3>1. /\ f.slots[m].ref \in DOMAIN h \cup {M!None}
          /\ f.slots[m].value => f.slots[m].ref \in DOMAIN h
          /\ ~f.slots[m].value /\ f.slots[m].ref # M!None =>
               h[f.slots[m].ref] \subseteq Held(h, f, m - 1)
      BY <1>5 DEF Published
    <3>2. f.slots[m].ref \in DOMAIN h => f.slots[m].ref \in DOMAIN g
      BY <1>2, <1>4
    <3>3. Held(h, f, m - 1) \subseteq Held(g, f, m - 1)
      BY <1>1
    <3>4. ~f.slots[m].value /\ f.slots[m].ref \in DOMAIN h =>
            g[f.slots[m].ref] = h[f.slots[m].ref]
      OBVIOUS
    <3> QED
      BY <3>1, <3>2, <3>3, <3>4
  <2> QED
    BY <2>1, <2>2 DEF Published
<1>7. /\ Held(h, f, 0) \subseteq Held(g, f, 0)
      /\ \A n \in 1 .. L : Held(h, f, n) \subseteq Held(g, f, n)
  BY <1>1
<1> QED
  BY <1>1, <1>6, <1>7 DEF Safe, Named

(* What a new heap must leave of what a frame keeps.                       *)
Spares(h, g, c, f) ==
  /\ \A o \in Held(h, f, Len(f.slots)) : o \in DOMAIN g /\ h[o] \subseteq g[o]
  /\ \A s \in f.params : ~s.value /\ s.ref \in DOMAIN h => g[s.ref] = h[s.ref]
  /\ \A m \in 1 .. Len(f.slots) :
       ~f.slots[m].value /\ f.slots[m].ref \in DOMAIN h =>
         g[f.slots[m].ref] = h[f.slots[m].ref]
  /\ c.out \in M!Allocations => c.out \in DOMAIN g /\ g[c.out] = {}

LEMMA SecureStays ==
  ASSUME M!Assumption, NEW h, Heaps(h), NEW g, Heaps(g), NEW cs, NEW fs, Shaped(cs, fs),
         Secure(h, cs, fs), \A i \in 1 .. Len(cs) : Spares(h, g, cs[i], fs[i])
  PROVE  Secure(g, cs, fs)
<1> SUFFICES ASSUME NEW i \in 1 .. Len(cs)
             PROVE  Upon(g, SubSeq(cs, 1, i - 1), SubSeq(fs, 1, i - 1), cs[i], fs[i])
  BY DEF Secure
<1> DEFINE p == SubSeq(cs, 1, i - 1)
           q == SubSeq(fs, 1, i - 1)
           c == cs[i]
           f == fs[i]
<1>1. Upon(h, p, q, c, f) /\ Spares(h, g, c, f)
  BY DEF Secure
<1>2. /\ Len(c.locals) = Len(f.slots)
      /\ c \in GuestCalls /\ f \in RootFrames
  BY DEF Shaped, Atop
<1> HIDE DEF p, q, c, f
<1>3. Len(f.slots) \in Nat
  BY <1>2 DEF RootFrames
<1>4. Safe(h, c, f, Words(p, c)) /\ Apart(p, q, c, f)
  BY <1>1 DEF Upon
<1>5. Safe(g, c, f, Words(p, c))
  BY <1>1, <1>2, <1>3, <1>4, SafeStays DEF Spares
<1>6. Upon(g, p, q, c, f)
  BY <1>4, <1>5 DEF Upon
<1> QED
  BY <1>6 DEF p, q, c, f

(* Where a frame is on the stack it is safe.                               *)
LEMMA SecureAt ==
  ASSUME NEW h, NEW cs, NEW fs, Shaped(cs, fs), Secure(h, cs, fs), NEW i \in 1 .. Len(cs)
  PROVE  /\ Safe(h, cs[i], fs[i], Words(SubSeq(cs, 1, i - 1), cs[i]))
         /\ Apart(SubSeq(cs, 1, i - 1), SubSeq(fs, 1, i - 1), cs[i], fs[i])
         /\ Len(fs[i].slots) \in Nat /\ Len(cs[i].locals) = Len(fs[i].slots)
         /\ cs[i] \in GuestCalls /\ fs[i] \in RootFrames
<1>1. cs[i] \in GuestCalls /\ fs[i] \in RootFrames /\ Len(cs[i].locals) = Len(fs[i].slots)
  BY DEF Shaped, Atop
<1>2. Upon(h, SubSeq(cs, 1, i - 1), SubSeq(fs, 1, i - 1), cs[i], fs[i])
  BY DEF Secure
<1>3. Len(fs[i].slots) \in Nat
  BY <1>1 DEF RootFrames
<1> QED
  BY <1>1, <1>2, <1>3 DEF Upon

(* A heap that has more, and the same contents.                            *)
LEMMA SecureMore ==
  ASSUME M!Assumption, NEW h, Heaps(h), NEW g, Heaps(g), NEW cs, NEW fs, Shaped(cs, fs),
         Secure(h, cs, fs), \A o \in DOMAIN h : o \in DOMAIN g /\ g[o] = h[o]
  PROVE  Secure(g, cs, fs)
<1>1. ASSUME NEW i \in 1 .. Len(cs)
      PROVE  Spares(h, g, cs[i], fs[i])
  <2> DEFINE c == cs[i]
             f == fs[i]
  <2>1. Safe(h, c, f, Words(SubSeq(cs, 1, i - 1), c)) /\ Len(f.slots) \in Nat
    BY SecureAt
  <2> HIDE DEF c, f
  <2>2. Held(h, f, Len(f.slots)) \subseteq DOMAIN h
    BY <2>1, HeldGrows
  <2>3. c.out \in M!Allocations => c.out \in DOMAIN g /\ g[c.out] = {}
    BY <2>1 DEF Safe
  <2>4. Spares(h, g, c, f)
    BY <2>2, <2>3 DEF Spares
  <2> QED
    BY <2>4 DEF c, f
<1> QED
  BY <1>1, SecureStays

(* The collector: what the frames of the stack keep is what it keeps.      *)
LEMMA TracedHeld ==
  ASSUME M!Assumption, NEW h, Heaps(h), NEW fs, NEW i \in 1 .. Len(fs), Published(h, fs[i]),
         Len(fs[i].slots) \in Nat
  PROVE  /\ Held(h, fs[i], Len(fs[i].slots)) \subseteq M!Reached(h, M!Traced(fs)) \cup (M!Kept(fs) \cap DOMAIN h)
         /\ \A m \in 1 .. Len(fs[i].slots) : ~fs[i].slots[m].value /\ fs[i].slots[m].ref # M!None =>
              h[fs[i].slots[m].ref] \subseteq M!Reached(h, M!Traced(fs)) \cup (M!Kept(fs) \cap DOMAIN h)
<1> DEFINE D == M!Reached(h, M!Traced(fs)) \cup (M!Kept(fs) \cap DOMAIN h)
           f == fs[i]
           L == Len(f.slots)
<1>1. /\ M!Traced(fs) \cap DOMAIN h \subseteq M!Reached(h, M!Traced(fs))
      /\ M!Reached(h, M!Traced(fs)) \subseteq DOMAIN h
      /\ \A o \in M!Reached(h, M!Traced(fs)) : h[o] \subseteq M!Reached(h, M!Traced(fs))
  BY ReachedHas
<1>2. \A s \in f.params : IF s.value THEN s.ref \in M!Traced(fs) ELSE s.ref \in M!Kept(fs)
  <2>1. \A s \in f.params : s \in M!FrameSlots(fs)
    BY DEF M!FrameSlots
  <2> QED
    BY <2>1 DEF M!Traced, M!Kept
<1>3. \A m \in 1 .. L : IF f.slots[m].value THEN f.slots[m].ref \in M!Traced(fs)
                                            ELSE f.slots[m].ref \in M!Kept(fs)
  <2>1. \A m \in 1 .. L : f.slots[m] \in M!FrameSlots(fs)
    BY DEF M!FrameSlots, M!Elements
  <2> QED
    BY <2>1 DEF M!Traced, M!Kept
<1>4. Published(h, f)
  OBVIOUS
<1> HIDE DEF f
<1> DEFINE R == M!Reached(h, M!Traced(fs))
           K == M!Kept(fs) \cap DOMAIN h
           In(n) == Held(h, f, n) \subseteq R \cup K
           N == {n \in Nat : n <= L => In(n)}
<1> HIDE DEF R, K
<1>a. D = R \cup K /\ R \subseteq DOMAIN h /\ K \subseteq DOMAIN h /\ \A o \in R : h[o] \subseteq R
  BY <1>1 DEF R, K
<1>b. /\ \A s \in f.params : s.ref \in DOMAIN h => IF s.value THEN s.ref \in R ELSE s.ref \in K /\ h[s.ref] = {}
  BY <1>1, <1>2, <1>4 DEF R, K, Published, Heaps
<1>c. \A m \in 1 .. L : f.slots[m].ref \in DOMAIN h =>
         IF f.slots[m].value THEN f.slots[m].ref \in R
         ELSE f.slots[m].ref \in K /\ h[f.slots[m].ref] \subseteq Held(h, f, m - 1)
  <2>1. \A x \in DOMAIN h : x # M!None
    BY DEF Heaps, M!Allocations, M!None
  <2> QED
    BY <1>1, <1>3, <1>4, <2>1 DEF R, K, Published
<1>5. In(0)
  <2> DEFINE S == R \cup {o \in K : h[o] = {}}
  <2>1. Refs(f, 0) \cap DOMAIN h \subseteq S
    <3>1. Refs(f, 0) = {s.ref : s \in f.params}
      BY DEF Refs
    <3> QED
      BY <1>b, <3>1
  <2>2. \A o \in S : h[o] \subseteq S
    BY <1>a
  <2> HIDE DEF S
  <2>3. Held(h, f, 0) \subseteq S
    BY <2>1, <2>2, ReachedIn DEF Held
  <2> QED
    BY <2>3 DEF S
<1>6. ASSUME NEW n \in Nat, n + 1 <= L, In(n)
      PROVE  In(n + 1)
  <2> DEFINE r == f.slots[n + 1].ref
             S == R \cup Held(h, f, n) \cup ({r} \cap K)
  <2>1. n \in Nat /\ n <= n /\ n + 1 \in 1 .. L /\ (n + 1) - 1 = n
    BY <1>6, <1>4
  <2>2. /\ Refs(f, n) \cap DOMAIN h \subseteq Held(h, f, n)
        /\ \A o \in Held(h, f, n) : h[o] \subseteq Held(h, f, n)
    BY <2>1, HeldGrows
  <2>3. r \in DOMAIN h => r \in R \/ (r \in K /\ h[r] \subseteq Held(h, f, n))
    BY <1>c, <2>1
  <2>4. Refs(f, n + 1) = Refs(f, n) \cup {r}
    <3>1. 1 .. n + 1 = (1 .. n) \cup {n + 1}
      BY <2>1
    <3> QED
      BY <3>1 DEF Refs
  <2>5. Refs(f, n + 1) \cap DOMAIN h \subseteq S
    BY <1>a, <2>2, <2>3, <2>4
  <2>6. \A o \in S : h[o] \subseteq S
    <3>1. CASE r \in R
      BY <1>a, <2>2, <2>3, <3>1
    <3>2. CASE r \notin R
      BY <1>a, <2>2, <2>3, <3>2
    <3> QED
      BY <3>1, <3>2
  <2> HIDE DEF S
  <2>7. Held(h, f, n + 1) \subseteq S
    BY <2>5, <2>6, ReachedIn DEF Held
  <2> QED
    BY <1>6, <2>7 DEF S
<1> HIDE DEF In
<1>7. L \in Nat
  BY DEF f
<1>8. \A n \in Nat : n <= L => In(n)
  <2>1. 0 \in N
    BY <1>5
  <2>2. \A n \in N : n + 1 \in N
    BY <1>6, <1>7
  <2> HIDE DEF N
  <2>3. \A n \in Nat : n \in N
    BY <2>1, <2>2, EveryNatural
  <2> QED
    BY <2>3 DEF N
<1>9. In(L)
  BY <1>7, <1>8
<1>10. ASSUME NEW m \in 1 .. L, ~f.slots[m].value, f.slots[m].ref # M!None
       PROVE  h[f.slots[m].ref] \subseteq D
  <2>1. f.slots[m].ref \in DOMAIN h
    BY <1>4, <1>10 DEF Published
  <2>2. m - 1 \in Nat /\ m - 1 <= L
    BY <1>7
  <2>3. In(m - 1)
    BY <1>8, <2>2
  <2> QED
    BY <1>a, <1>c, <1>10, <2>1, <2>3 DEF In
<1> QED
  BY <1>9, <1>10, <1>a DEF In, f

LEMMA SecureSwept ==
  ASSUME M!Assumption, NEW h, Heaps(h), NEW cs, NEW fs, Shaped(cs, fs), Secure(h, cs, fs),
         NEW g \in M!Afterwards(h, fs)
  PROVE  /\ Heaps(g) /\ Secure(g, cs, fs)
         /\ M!Traced(fs) \cap DOMAIN h \subseteq DOMAIN g
         /\ DOMAIN g \subseteq DOMAIN h /\ \A o \in DOMAIN g : g[o] = h[o]
<1> DEFINE R == M!Reached(h, M!Traced(fs))
           K == M!Kept(fs) \cap DOMAIN h
           D == R \cup K
<1>0. /\ M!Traced(fs) \cap DOMAIN h \subseteq R /\ R \subseteq DOMAIN h
      /\ \A o \in R : h[o] \subseteq R
  BY ReachedHas
<1>1. CASE g = h
  BY <1>1
<1>2. CASE g = M!Collected(h, fs)
  <2>1. g = [o \in D |-> h[o]]
    BY <1>2 DEF M!Collected
  <2>2. Len(fs) = Len(cs)
    BY DEF Shaped
  <2>3. ASSUME NEW i \in 1 .. Len(fs)
        PROVE  /\ Held(h, fs[i], Len(fs[i].slots)) \subseteq D
               /\ \A m \in 1 .. Len(fs[i].slots) : ~fs[i].slots[m].value /\ fs[i].slots[m].ref # M!None =>
                    h[fs[i].slots[m].ref] \subseteq D
               /\ Published(h, fs[i]) /\ Len(fs[i].slots) \in Nat
    <3>1. i \in 1 .. Len(cs)
      BY <2>2
    <3>2. Published(h, fs[i]) /\ Len(fs[i].slots) \in Nat
      BY <3>1, SecureAt DEF Safe
    <3> QED
      BY <3>2, TracedHeld
  <2>4. ASSUME NEW o \in K
        PROVE  h[o] \subseteq D
    <3>1. PICK s \in M!FrameSlots(fs) : ~s.value /\ o = s.ref
      BY DEF M!Kept
    <3>2. PICK i \in 1 .. Len(fs) : s \in fs[i].params \cup M!Elements(fs[i].slots)
      BY <3>1 DEF M!FrameSlots
    <3>3. o \in M!Allocations /\ o # M!None
      BY DEF Heaps, M!Allocations, M!None
    <3>4. CASE s \in fs[i].params
      <4>1. h[o] = {}
        BY <2>3, <3>1, <3>3, <3>4 DEF Published
      <4> QED
        BY <4>1
    <3>5. CASE s \in M!Elements(fs[i].slots)
      <4>1. PICK m \in 1 .. Len(fs[i].slots) : s = fs[i].slots[m]
        BY <3>5 DEF M!Elements
      <4> QED
        BY <2>3, <3>1, <3>3, <4>1
    <3> QED
      BY <3>2, <3>4, <3>5
  <2> HIDE DEF R, K
  <2>5. D \subseteq DOMAIN h
    BY <1>0 DEF K
  <2>6. \A o \in D : h[o] \subseteq D
    BY <1>0, <2>4
  <2> HIDE DEF D
  <2>7. Heaps(g) /\ DOMAIN g = D /\ \A o \in D : g[o] = h[o]
    BY <2>1, <2>5, <2>6, PartIs
  <2>8. ASSUME NEW i \in 1 .. Len(cs)
        PROVE  Spares(h, g, cs[i], fs[i])
    <3> DEFINE c == cs[i]
               f == fs[i]
    <3>1. /\ Safe(h, c, f, Words(SubSeq(cs, 1, i - 1), c)) /\ Len(f.slots) \in Nat
          /\ c.out \in M!Allocations => M!Storage(c.out) \in f.params
      BY SecureAt DEF Apart
    <3>2. Held(h, f, Len(f.slots)) \subseteq D
      BY <2>2, <2>3
    <3> HIDE DEF c, f
    <3>3. Refs(f, Len(f.slots)) \cap DOMAIN h \subseteq D
      BY <3>1, <3>2, HeldGrows
    <3>4. \A s \in f.params : s.ref \in Refs(f, Len(f.slots))
      BY DEF Refs
    <3>5. \A m \in 1 .. Len(f.slots) : f.slots[m].ref \in Refs(f, Len(f.slots))
      BY DEF Refs
    <3>6. c.out \in M!Allocations => c.out \in DOMAIN g /\ g[c.out] = {}
      <4>1. ASSUME c.out \in M!Allocations
            PROVE  c.out \in D /\ h[c.out] = {}
        <5>1. c.out \in DOMAIN h /\ h[c.out] = {}
          BY <3>1, <4>1 DEF Safe
        <5>2. M!Storage(c.out).ref \in Refs(f, Len(f.slots))
          BY <3>1, <3>4, <4>1
        <5>3. M!Storage(c.out).ref = c.out
          BY DEF M!Storage
        <5> QED
          BY <3>3, <5>1, <5>2, <5>3
      <4> QED
        BY <2>7, <4>1
    <3>7. \A s \in f.params : ~s.value /\ s.ref \in DOMAIN h => g[s.ref] = h[s.ref]
      BY <2>7, <3>3, <3>4
    <3>8. \A m \in 1 .. Len(f.slots) :
            ~f.slots[m].value /\ f.slots[m].ref \in DOMAIN h => g[f.slots[m].ref] = h[f.slots[m].ref]
      BY <2>7, <3>3, <3>5
    <3>9. Spares(h, g, c, f)
      BY <2>7, <3>2, <3>6, <3>7, <3>8 DEF Spares
    <3> QED
      BY <3>9 DEF c, f
  <2>9. Secure(g, cs, fs)
    BY <2>7, <2>8, SecureStays
  <2> QED
    BY <1>0, <2>5, <2>7, <2>9 DEF D
<1> QED
  BY <1>1, <1>2 DEF M!Afterwards

(* A local and its slot, after the first k of a call.                      *)
Added(h, cs, c, f, k, r, s) ==
  /\ s.ref \in DOMAIN h \cup {M!None} /\ (s.value => s.ref \in DOMAIN h)
  /\ ~s.value /\ s.ref # M!None =>
       /\ h[s.ref] \subseteq Held(h, f, k)
       /\ s.ref # c.out /\ \A j \in 1 .. Len(cs) : cs[j].out # s.ref
  /\ (r = s.ref /\ r \in DOMAIN h) \/ Named(r, Held(h, f, k), Words(cs, c))

(* The first k locals of a call stay, and at most one comes after them.    *)
LEMMA EditUpon ==
  ASSUME M!Assumption, NEW h, Heaps(h), NEW cs, NEW fs, NEW c, NEW f,
         Upon(h, cs, fs, c, f), NEW k \in Nat,
         NEW g, NEW e, NEW l, NEW t, Edited(c, g, l), Slotted(f, e, t),
         Len(t) = Len(l), Len(l) \in Nat,
         Len(f.slots) \in Nat, Len(c.locals) = Len(f.slots), k <= Len(f.slots),
         \A n \in 1 .. k : l[n] = c.locals[n] /\ t[n] = f.slots[n],
         Len(l) = k \/ (Len(l) = k + 1 /\ Added(h, cs, c, f, k, l[k + 1], t[k + 1]))
  PROVE  Upon(h, cs, fs, g, e)
<1> DEFINE L == Len(l)
           s == t[k + 1]
           r == l[k + 1]
           w == Words(cs, c)
<1>1. /\ e.params = f.params /\ e.slots = t /\ g.locals = l
      /\ g.demand = c.demand /\ g.env = c.env /\ g.arg = c.arg /\ g.out = c.out
  BY DEF Edited, Slotted
<1>2. Apart(cs, fs, c, f) /\ Safe(h, c, f, w) /\ Published(h, f)
  BY DEF Upon, Safe
<1>3. Words(cs, g) = w
  BY <1>1 DEF Words
<1>4. \A n \in 0 .. k : Refs(e, n) = Refs(f, n) /\ Held(h, e, n) = Held(h, f, n)
  <2> SUFFICES ASSUME NEW n \in 0 .. k PROVE Refs(e, n) = Refs(f, n)
    BY DEF Held
  <2>1. \A m \in 1 .. n : e.slots[m] = f.slots[m]
    BY <1>1
  <2> QED
    BY <1>1, <2>1 DEF Refs
<1>5. \A n \in 1 .. L : n \in 1 .. k \/ (n = k + 1 /\ L = k + 1 /\ Added(h, cs, c, f, k, r, s))
  OBVIOUS
<1>6. \A n \in 1 .. k : n \in 1 .. Len(f.slots)
  OBVIOUS
<1>7. L = k + 1 => /\ Held(h, f, k) \subseteq Held(h, e, L)
                   /\ s.ref \in DOMAIN h => s.ref \in Held(h, e, L)
  <2> SUFFICES ASSUME L = k + 1
               PROVE  /\ Held(h, f, k) \subseteq Held(h, e, L)
                      /\ s.ref \in DOMAIN h => s.ref \in Held(h, e, L)
    OBVIOUS
  <2>1. Held(h, e, k) \subseteq Held(h, e, L) /\ Refs(e, L) \cap DOMAIN h \subseteq Held(h, e, L)
    BY HeldGrows
  <2>2. s.ref \in Refs(e, L)
    <3>1. L \in 1 .. L /\ e.slots[L] = s
      BY <1>1
    <3> QED
      BY <3>1 DEF Refs
  <2>3. k \in 0 .. k
    OBVIOUS
  <2> QED
    BY <1>4, <2>1, <2>2, <2>3
<1> HIDE DEF s, r, w
<1>8. Published(h, e)
  <2>1. ASSUME NEW m \in 1 .. L
        PROVE  /\ e.slots[m].ref \in DOMAIN h \cup {M!None}
               /\ e.slots[m].value => e.slots[m].ref \in DOMAIN h
               /\ ~e.slots[m].value /\ e.slots[m].ref # M!None =>
                    h[e.slots[m].ref] \subseteq Held(h, e, m - 1)
    <3>1. CASE m \in 1 .. k
      <4>1. e.slots[m] = f.slots[m] /\ m \in 1 .. Len(f.slots)
        BY <1>1, <1>6, <3>1
      <4>2. Held(h, e, m - 1) = Held(h, f, m - 1)
        <5>1. m - 1 \in 0 .. k
          BY <3>1
        <5> QED
          BY <1>4, <5>1
      <4> QED
        BY <1>2, <4>1, <4>2 DEF Published
    <3>2. CASE m = k + 1 /\ L = k + 1 /\ Added(h, cs, c, f, k, r, s)
      <4>1. e.slots[m] = s
        BY <1>1, <3>2 DEF s
      <4>2. Held(h, e, m - 1) = Held(h, f, k)
        <5>1. m - 1 = k /\ k \in 0 .. k
          BY <3>2
        <5> QED
          BY <1>4, <5>1
      <4> QED
        BY <3>2, <4>1, <4>2 DEF Added
    <3> QED
      BY <1>5, <3>1, <3>2
  <2>2. \A x \in e.params :
          /\ x.ref \in M!Allocations => x.ref \in DOMAIN h /\ (x.value \/ h[x.ref] = {})
          /\ x.value => x.ref \in DOMAIN h
    BY <1>1, <1>2 DEF Published
  <2>3. Len(e.slots) = L
    BY <1>1
  <2> QED
    BY <2>1, <2>2, <2>3 DEF Published
<1>9. \A n \in 1 .. L : Named(g.locals[n], Held(h, e, n), w)
  <2> SUFFICES ASSUME NEW n \in 1 .. L PROVE Named(l[n], Held(h, e, n), w)
    BY <1>1
  <2>1. CASE n \in 1 .. k
    <3>1. Named(c.locals[n], Held(h, f, n), w)
      BY <1>2, <1>6, <2>1 DEF Safe
    <3>2. Held(h, e, n) = Held(h, f, n)
      <4>1. n \in 0 .. k
        BY <2>1
      <4> QED
        BY <1>4, <4>1
    <3> QED
      BY <2>1, <3>1, <3>2
  <2>2. CASE n = k + 1 /\ L = k + 1 /\ Added(h, cs, c, f, k, r, s)
    <3>1. (r = s.ref /\ r \in DOMAIN h) \/ Named(r, Held(h, f, k), w)
      BY <2>2 DEF Added, w
    <3>2. l[n] = r /\ n = L
      BY <2>2 DEF r
    <3> QED
      BY <1>7, <2>2, <3>1, <3>2 DEF Named
  <2> QED
    BY <1>5, <2>1, <2>2
<1>10. Safe(h, g, e, w)
  <2>1. 0 \in 0 .. k
    OBVIOUS
  <2>2. Held(h, e, 0) = Held(h, f, 0)
    BY <1>4, <2>1
  <2> QED
    BY <1>1, <1>2, <1>8, <1>9, <2>2 DEF Safe
<1>11. Apart(cs, fs, g, e)
  <2>1. ASSUME NEW o \in M!Allocations, \A m \in 1 .. Len(f.slots) : f.slots[m] # M!Storage(o),
               Added(h, cs, c, f, k, r, s) => s # M!Storage(o)
        PROVE  \A m \in 1 .. Len(e.slots) : e.slots[m] # M!Storage(o)
    <3> SUFFICES ASSUME NEW m \in 1 .. L PROVE t[m] # M!Storage(o)
      BY <1>1
    <3>1. CASE m \in 1 .. k
      BY <1>6, <2>1, <3>1
    <3>2. CASE m = k + 1 /\ L = k + 1 /\ Added(h, cs, c, f, k, r, s)
      BY <2>1, <3>2 DEF s
    <3> QED
      BY <1>5, <3>1, <3>2
  <2>2. \A o \in M!Allocations : /\ M!Storage(o).ref = o /\ ~M!Storage(o).value /\ o # M!None
    BY DEF M!Storage, M!Allocations, M!None
  <2>3. ASSUME c.out \in M!Allocations
        PROVE  \A m \in 1 .. Len(e.slots) : e.slots[m] # M!Storage(c.out)
    <3>1. \A m \in 1 .. Len(f.slots) : f.slots[m] # M!Storage(c.out)
      BY <1>2, <2>3 DEF Apart
    <3>2. Added(h, cs, c, f, k, r, s) => s # M!Storage(c.out)
      BY <2>2, <2>3 DEF Added
    <3> QED
      BY <2>1, <2>3, <3>1, <3>2
  <2>4. ASSUME NEW j \in 1 .. Len(cs), cs[j].out \in M!Allocations
        PROVE  \A m \in 1 .. Len(e.slots) : e.slots[m] # M!Storage(cs[j].out)
    <3>1. \A m \in 1 .. Len(f.slots) : f.slots[m] # M!Storage(cs[j].out)
      BY <1>2, <2>4 DEF Apart
    <3>2. Added(h, cs, c, f, k, r, s) => s # M!Storage(cs[j].out)
      BY <2>2, <2>4 DEF Added
    <3> QED
      BY <2>1, <2>4, <3>1, <3>2
  <2>5. /\ \A x \in e.params : x.value \/ x.ref \in {M!None, g.out}
        /\ g.out \in M!Allocations =>
             /\ M!Storage(g.out) \in e.params
             /\ \A j \in 1 .. Len(cs) : cs[j].out # g.out
             /\ \A j \in 1 .. Len(cs) : \A m \in 1 .. Len(fs[j].slots) :
                  fs[j].slots[m] = M!Storage(g.out) => j = Len(cs) /\ m = Len(fs[j].slots)
    BY <1>1, <1>2 DEF Apart
  <2> QED
    BY <1>1, <2>3, <2>4, <2>5 DEF Apart
<1> QED
  BY <1>3, <1>10, <1>11 DEF Upon

(* Only the caller has the place in its frames, in its last slot.          *)
Unknown(cs, fs, o) ==
  /\ \A j \in 1 .. Len(cs) : cs[j].out # o
  /\ \A j \in 1 .. Len(cs) : \A m \in 1 .. Len(fs[j].slots) :
       fs[j].slots[m] = M!Storage(o) => j = Len(cs) /\ m = Len(fs[j].slots)

LEMMA FunctionUpon ==
  ASSUME M!Assumption, NEW h, Heaps(h), NEW cs, NEW fs, Level(cs) \in Nat,
         NEW c \in DOMAIN h, NEW a \in Nat,
         a \in M!Allocations => a \in DOMAIN h, a <= M!Scratch(Level(cs) + 1),
         NEW o, o \in M!Allocations => o \in DOMAIN h /\ h[o] = {} /\ Unknown(cs, fs, o),
         NEW level, NEW saved
  PROVE  Upon(h, cs, fs, M!Function(c, a, o, level, saved), M!Prologue(c, a, o))
<1> DEFINE g == M!Function(c, a, o, level, saved)
           e == M!Prologue(c, a, o)
<1>1. /\ g.demand = M!None /\ g.env = c /\ g.arg = a /\ g.out = o /\ Len(g.locals) = 0
      /\ e.params = {M!SlotOf(c), M!SlotOf(a), M!Storage(o)} /\ Len(e.slots) = 0
  BY DEF M!Function, M!Prologue
<1>2. /\ c \in M!Allocations /\ \A x \in M!Allocations : x # M!None
      /\ \A x \in DOMAIN h : x \in M!Allocations
  BY DEF Heaps, M!Allocations, M!None
<1>3. M!SlotOf(c) = M!Value(c)
  BY <1>2 DEF M!SlotOf, M!IsManaged
<1>4. M!SlotOf(a) = IF a \in M!Allocations THEN M!Value(a) ELSE M!Clear
  BY DEF M!SlotOf, M!IsManaged
<1>5. /\ \A x : M!Value(x).ref = x /\ M!Value(x).value
      /\ \A x : M!Storage(x).ref = x /\ ~M!Storage(x).value
      /\ M!Clear = M!Storage(M!None)
  BY DEF M!Value, M!Storage, M!Clear
<1> HIDE DEF g, e
<1>6. Words(cs, g) = Level(cs) + 1
  BY <1>1 DEF Words
<1>7. Published(h, e)
  <2>1. ASSUME NEW s \in e.params
        PROVE  /\ s.ref \in M!Allocations => s.ref \in DOMAIN h /\ (s.value \/ h[s.ref] = {})
               /\ s.value => s.ref \in DOMAIN h
    <3>1. CASE s = M!Value(c)
      BY <1>5, <3>1
    <3>2. CASE s = M!Clear
      BY <1>2, <1>5, <3>2
    <3>3. CASE a \in M!Allocations /\ s = M!Value(a)
      BY <1>5, <3>3
    <3>4. CASE s = M!Storage(o)
      BY <1>5, <3>4
    <3> QED
      BY <1>1, <1>3, <1>4, <3>1, <3>2, <3>3, <3>4
  <2> QED
    BY <1>1, <2>1 DEF Published
<1>8. Named(g.env, Held(h, e, 0), Words(cs, g)) /\ Named(g.arg, Held(h, e, 0), Words(cs, g))
  <2>1. Refs(e, 0) \cap DOMAIN h \subseteq Held(h, e, 0)
    BY HeldGrows
  <2>2. \A s \in e.params : s.ref \in Refs(e, 0)
    BY DEF Refs
  <2>3. c \in Refs(e, 0)
    BY <1>1, <1>3, <1>5, <2>2
  <2>4. a \in M!Allocations => a \in Refs(e, 0)
    BY <1>1, <1>4, <1>5, <2>2
  <2>5. a \in M!Allocations \/ a = M!None \/ a > HeapSize
    BY DEF M!Allocations, M!None, M!Assumption
  <2> QED
    BY <1>1, <1>6, <2>1, <2>3, <2>4, <2>5 DEF Named
<1>9. Safe(h, g, e, Words(cs, g))
  BY <1>1, <1>7, <1>8 DEF Safe
<1>10. Apart(cs, fs, g, e)
  <2>1. \A s \in e.params : s.value \/ s.ref \in {M!None, g.out}
    BY <1>1, <1>3, <1>4, <1>5
  <2>2. g.out \in M!Allocations => Unknown(cs, fs, g.out) /\ M!Storage(g.out) \in e.params
    BY <1>1
  <2> QED
    BY <1>1, <2>1, <2>2 DEF Apart, Unknown
<1> QED
  BY <1>9, <1>10 DEF Upon, g, e

LEMMA EvaluationUpon ==
  ASSUME NEW h, NEW cs, NEW fs, NEW d \in M!Globals
  PROVE  Upon(h, cs, fs, M!Evaluation(d), [params |-> {}, slots |-> <<>>])
<1> DEFINE g == M!Evaluation(d)
           e == [params |-> {}, slots |-> <<>>]
<1>1. /\ g.env = M!None /\ g.arg = M!None /\ g.out = M!None /\ Len(g.locals) = 0
      /\ e.params = {} /\ Len(e.slots) = 0
  BY DEF M!Evaluation
<1>2. M!None \notin M!Allocations
  BY DEF M!None, M!Allocations
<1> HIDE DEF g, e
<1>3. Published(h, e)
  BY <1>1 DEF Published
<1>4. Safe(h, g, e, Words(cs, g))
  BY <1>1, <1>2, <1>3 DEF Safe, Named
<1>5. Apart(cs, fs, g, e)
  BY <1>1, <1>2 DEF Apart
<1> QED
  BY <1>4, <1>5 DEF Upon, g, e

(* A write to the place of a result that no frame below has any more.      *)
LEMMA SecureWrite ==
  ASSUME M!Assumption, NEW h, Heaps(h), NEW cs, NEW fs, Shaped(cs, fs), Secure(h, cs, fs),
         NEW o \in DOMAIN h, h[o] = {}, NEW x, x \subseteq DOMAIN h,
         \A j \in 1 .. Len(cs) : cs[j].out # o,
         \A j \in 1 .. Len(cs) : \A m \in 1 .. Len(fs[j].slots) : fs[j].slots[m] # M!Storage(o)
  PROVE  /\ Heaps([h EXCEPT ![o] = x]) /\ Secure([h EXCEPT ![o] = x], cs, fs)
         /\ DOMAIN [h EXCEPT ![o] = x] = DOMAIN h
<1> DEFINE g == [h EXCEPT ![o] = x]
<1>1. /\ Heaps(g) /\ DOMAIN g = DOMAIN h
      /\ \A y \in DOMAIN h \ {o} : g[y] = h[y]
  BY WriteIs
<1> HIDE DEF g
<1>2. o \in M!Allocations /\ o # M!None
  BY DEF Heaps, M!Allocations, M!None
<1>3. ASSUME NEW i \in 1 .. Len(cs)
      PROVE  Spares(h, g, cs[i], fs[i])
  <2> DEFINE c == cs[i]
             f == fs[i]
  <2>1. /\ Safe(h, c, f, Words(SubSeq(cs, 1, i - 1), c)) /\ Len(f.slots) \in Nat
        /\ f \in RootFrames
        /\ \A s \in f.params : s.value \/ s.ref \in {M!None, c.out}
    BY SecureAt DEF Apart
  <2>2. c.out # o /\ \A m \in 1 .. Len(f.slots) : f.slots[m] # M!Storage(o)
    OBVIOUS
  <2> HIDE DEF c, f
  <2>3. Held(h, f, Len(f.slots)) \subseteq DOMAIN h
    BY <2>1, HeldGrows
  <2>4. \A y \in DOMAIN h : h[y] \subseteq g[y]
    BY <1>1
  <2>5. c.out \in M!Allocations => c.out \in DOMAIN g /\ g[c.out] = {}
    BY <1>1, <2>1, <2>2 DEF Safe
  <2>6. \A s \in f.params : ~s.value /\ s.ref \in DOMAIN h => g[s.ref] = h[s.ref]
    BY <1>1, <1>2, <2>1, <2>2
  <2>7. ASSUME NEW m \in 1 .. Len(f.slots), ~f.slots[m].value, f.slots[m].ref \in DOMAIN h
        PROVE  g[f.slots[m].ref] = h[f.slots[m].ref]
    <3>1. f.slots[m] \in RootSlots
      BY <2>1 DEF RootFrames
    <3>2. f.slots[m].ref # o
      BY <2>2, <2>7, <3>1 DEF RootSlots, M!Storage
    <3> QED
      BY <1>1, <2>7, <3>2
  <2>8. Spares(h, g, c, f)
    BY <1>1, <2>3, <2>4, <2>5, <2>6, <2>7 DEF Spares
  <2> QED
    BY <2>8 DEF c, f
<1>4. Secure(g, cs, fs)
  BY <1>1, <1>3, SecureStays
<1> QED
  BY <1>1, <1>4 DEF g

-----------------------------------------------------------------------------
(* The pending error.                                                      *)

(* The scopes that capture failures.                                       *)
Captures(cs) == {s \in {cs[i].saved : i \in 1 .. Len(cs)} : s.on}

(* A row keeps an error that is over, or a global whose evaluation is: one *)
(* that still runs stores its value over the failure.                      *)
Backed(fb, dm, cs, e, k) ==
  \/ e = M!None
  \/ \E i \in 1 .. k : fb[i] = e
  \/ \E d \in M!Globals : dm[d] = M!Failed(e) /\ ~Evaluating(cs, d)

Raised == error \in M!Elements(feedback) \/ \E d \in M!Globals : demand[d] = M!Failed(error)

Errors ==
  /\ ~failing => Backed(feedback, demand, calls, error, Len(feedback))
  /\ failing => Raised
  /\ \A s \in Captures(calls) : Backed(feedback, demand, calls, s.error, s.rows)

LEMMA CapturesPush ==
  ASSUME NEW S, NEW cs \in Seq(S), NEW c \in S
  PROVE  Captures(Append(cs, c)) = Captures(cs) \cup {s \in {c.saved} : s.on}
<1> DEFINE t == Append(cs, c)
<1>1. /\ Len(cs) \in Nat /\ Len(t) = Len(cs) + 1
      /\ \A i \in 1 .. Len(cs) : t[i] = cs[i]
      /\ t[Len(cs) + 1] = c
  BY PushIs
<1> HIDE DEF t
<1>2. {t[i].saved : i \in 1 .. Len(t)} = {cs[i].saved : i \in 1 .. Len(cs)} \cup {c.saved}
  <2>1. 1 .. Len(t) = (1 .. Len(cs)) \cup {Len(cs) + 1}
    BY <1>1
  <2> QED
    BY <1>1, <2>1
<1>3. Captures(t) = Captures(cs) \cup {s \in {c.saved} : s.on}
  BY <1>2 DEF Captures
<1> QED
  BY <1>3 DEF t

LEMMA CapturesRows ==
  ASSUME NEW cs, NEW n, Rows(cs, n), NEW s \in Captures(cs)
  PROVE  s.rows <= n
BY DEF Captures, Rows

(* What the captures of the calls are, for calls in the shapes of a step.  *)
LEMMA CapturesAre ==
  ASSUME Shape, calls # <<>>
  PROVE  /\ Captures(calls) = Captures(M!Pop(calls)) \cup {s \in {M!Here.saved} : s.on}
         /\ \A g \in GuestCalls : g.saved = M!Here.saved =>
              Captures(Append(M!Pop(calls), g)) = Captures(calls)
<1>1. /\ calls = Append(M!Pop(calls), M!Here) /\ M!Pop(calls) \in Seq(GuestCalls) /\ M!Here \in GuestCalls
  BY RunningIs
<1> DEFINE p == M!Pop(calls)
           c == M!Here
<1> HIDE DEF p, c
<1>2. calls = Append(p, c) /\ p \in Seq(GuestCalls) /\ c \in GuestCalls
  BY <1>1 DEF p, c
<1>3. Captures(calls) = Captures(p) \cup {s \in {c.saved} : s.on}
  BY <1>2, CapturesPush
<1>4. \A g \in GuestCalls : Captures(Append(p, g)) = Captures(p) \cup {s \in {g.saved} : s.on}
  BY <1>2, CapturesPush
<1> QED
  BY <1>3, <1>4 DEF p, c

(* A global whose evaluation failed and is over stays as it is.            *)
Final == \A d \in M!Globals :
  demand[d].state = "failed" /\ ~Evaluating(calls, d) =>
    demand'[d] = demand[d] /\ ~Evaluating(calls', d)

LEMMA BackedStays ==
  ASSUME Final, NEW e, NEW k, Backed(feedback, demand, calls, e, k),
         \A i \in 1 .. k : feedback'[i] = feedback[i], NEW n, \A i \in 1 .. k : i \in 1 .. n
  PROVE  Backed(feedback', demand', calls', e, n)
<1>1. \A d \in M!Globals : demand[d] = M!Failed(e) /\ ~Evaluating(calls, d) =>
         demand'[d] = M!Failed(e) /\ ~Evaluating(calls', d)
  <2>1. \A d \in M!Globals : demand[d] = M!Failed(e) => demand[d].state = "failed"
    BY DEF M!Failed
  <2> QED
    BY <2>1 DEF Final
<1> QED
  BY <1>1 DEF Backed

LEMMA ErrorsStay ==
  ASSUME Errors, Final,
         \A s \in Captures(calls') :
           /\ s \in Captures(calls) \/ (~failing /\ s.error = error /\ s.rows = Len(feedback))
           /\ \A i \in 1 .. s.rows : feedback'[i] = feedback[i],
         ~failing' => Backed(feedback', demand', calls', error', Len(feedback')),
         failing' => Raised'
  PROVE  Errors'
<1>1. ASSUME NEW s \in Captures(calls')
      PROVE  Backed(feedback', demand', calls', s.error, s.rows)
  <2>1. Backed(feedback, demand, calls, s.error, s.rows)
    BY DEF Errors
  <2>2. /\ \A i \in 1 .. s.rows : feedback'[i] = feedback[i]
        /\ \A i \in 1 .. s.rows : i \in 1 .. s.rows
    OBVIOUS
  <2> DEFINE e == s.error
             k == s.rows
  <2> HIDE DEF e, k
  <2>3. /\ Backed(feedback, demand, calls, e, k)
        /\ \A i \in 1 .. k : feedback'[i] = feedback[i]
        /\ \A i \in 1 .. k : i \in 1 .. k
    BY <2>1, <2>2 DEF e, k
  <2>4. Backed(feedback', demand', calls', e, k)
    BY <2>3, BackedStays
  <2> QED
    BY <2>4 DEF e, k
<1> QED
  BY <1>1 DEF Errors

(* Steps that leave the diagnostics and the failed globals alone.          *)
LEMMA QuietErrors ==
  ASSUME Shape, Errors, Final, UNCHANGED M!report,
         \A s \in Captures(calls') :
           s \in Captures(calls) \/ (~failing /\ s.error = error /\ s.rows = Len(feedback)),
         failing => UNCHANGED demand
  PROVE  Errors'
<1>1. UNCHANGED <<feedback, error, failing>>
  BY DEF M!report
<1>2. ~failing' => Backed(feedback', demand', calls', error', Len(feedback'))
  <2>1. \A i \in 1 .. Len(feedback) : feedback'[i] = feedback[i]
    BY <1>1
  <2>2. ~failing => Backed(feedback, demand, calls, error, Len(feedback))
    BY DEF Errors
  <2>3. ~failing => Backed(feedback', demand', calls', error, Len(feedback))
    BY <2>1, <2>2, BackedStays
  <2> QED
    BY <1>1, <2>3
<1>3. failing' => Raised'
  BY <1>1 DEF Errors, Raised
<1> QED
  BY <1>1, <1>2, <1>3, ErrorsStay

(* The call on top in another shape, with the scope it had.                *)
LEMMA CapturesSwap ==
  ASSUME NEW cs \in Seq(GuestCalls), cs # <<>>, NEW g \in GuestCalls,
         g.saved = cs[Len(cs)].saved
  PROVE  Captures(Append(M!Pop(cs), g)) = Captures(cs)
<1> DEFINE p == M!Pop(cs)
           c == cs[Len(cs)]
<1>1. p \in Seq(GuestCalls) /\ c \in GuestCalls
  BY PopIs
<1>2. cs = Append(p, c)
  BY PopPush
<1> HIDE DEF p, c
<1>3. Captures(cs) = Captures(p) \cup {s \in {c.saved} : s.on}
  BY <1>1, <1>2, CapturesPush
<1>4. Captures(Append(p, g)) = Captures(p) \cup {s \in {g.saved} : s.on}
  BY <1>1, CapturesPush
<1>5. g.saved = c.saved
  BY DEF c
<1>6. Captures(Append(p, g)) = Captures(cs)
  BY <1>3, <1>4, <1>5
<1> QED
  BY <1>6 DEF p

LEMMA SwapErrors ==
  ASSUME Shape, Errors, calls # <<>>, NEW g \in GuestCalls, g.saved = M!Here.saved,
         calls' = Append(M!Pop(calls), g), StackSame, UNCHANGED <<demand, M!report>>
  PROVE  Errors'
<1>1. Final
  BY DEF Final, StackSame
<1>2. Captures(calls') = Captures(calls)
  BY CapturesAre
<1>3. UNCHANGED demand /\ UNCHANGED M!report
  OBVIOUS
<1> QED
  BY <1>1, <1>2, <1>3, QuietErrors

LEMMA CallErrors ==
  ASSUME M!Assumption, Shape, Errors, NEW c, NEW a, NEW plain \in BOOLEAN, NEW saved,
         saved = M!NoCapture \/ (saved = M!Capturing /\ ~plain), M!Call(c, a, plain, saved)
  PROVE  Errors'
<1> DEFINE o == IF plain THEN M!Here.base ELSE M!New
           s == IF plain THEN M!Clear ELSE M!Storage(M!New)
           l == Append(M!Here.locals, o)
           g == WithLocals(M!Here, l)
           u == M!Function(c, a, o, scratch + 1, saved)
<1>1. /\ calls # <<>> /\ M!Able /\ c \in M!Values(M!Here) /\ a \in M!Values(M!Here)
      /\ plain => M!Here.demand = M!None
      /\ ~plain => M!Room
      /\ calls' = Append(Append(M!Pop(calls), g), u)
      /\ UNCHANGED <<demand, M!report>>
      /\ \A d \in M!Globals : Evaluating(calls', d) <=> Evaluating(calls, d)
  <2>1. /\ Provides(o, s, c, a, saved) /\ calls # <<>> /\ M!Able
        /\ c \in M!Values(M!Here) /\ a \in M!Values(M!Here) /\ (plain => M!Here.demand = M!None)
        /\ (~plain => M!Room) /\ UNCHANGED <<demand, M!report>>
        /\ \A d \in M!Globals : Evaluating(calls', d) <=> Evaluating(calls, d)
    BY CallStep
  <2> HIDE DEF o, s
  <2> QED
    BY <2>1 DEF Provides
<1>2. M!Here \in GuestCalls /\ M!Pop(calls) \in Seq(GuestCalls)
  BY <1>1, RunningIs
<1>3. DOMAIN heap \subseteq M!Allocations /\ job \in M!Jobs /\ scratch \in Nat
  <2>1. scratch = Level(calls) /\ calls \in Seq(GuestCalls)
    BY DEF Shape, Shaped
  <2> QED
    BY <2>1, LevelIs DEF Shape
<1>4. o \in Nat /\ (M!Here.demand # M!None => o \in M!Allocations)
  BY <1>1, <1>2, <1>3, NewIs DEF GuestCalls
<1>6. s \in RootSlots
  BY <1>4, SlotsAre
<1> HIDE DEF o, s
<1>7. Edited(M!Here, g, l)
  BY <1>1, <1>4, <1>6, LocalIs
<1>8. c \in Nat /\ a \in Nat
  BY <1>1, ValuesAre
<1>9. saved \in [on : BOOLEAN, rows : Nat, error : Nat]
  <2>1. Len(feedback) \in Nat /\ error \in Nat
    BY DEF Shape
  <2>2. CASE saved = M!NoCapture
    BY <2>2 DEF M!NoCapture, M!None
  <2>3. CASE saved = M!Capturing
    BY <2>1, <2>3 DEF M!Capturing
  <2> QED
    BY <2>2, <2>3
<1>10. u \in GuestCalls /\ u.saved = saved
  <2>1. scratch + 1 \in Nat
    BY <1>3
  <2>2. u \in GuestCalls
    BY <1>4, <1>8, <1>9, <2>1, FunctionIs
  <2> QED
    BY <2>2 DEF M!Function
<1> HIDE DEF g, u, l
<1>11. g \in GuestCalls /\ g.saved = M!Here.saved
  BY <1>7 DEF Edited
<1> DEFINE q == Append(M!Pop(calls), g)
<1>12. q \in Seq(GuestCalls) /\ Captures(q) = Captures(calls)
  BY <1>1, <1>2, <1>11, CapturesAre
<1> HIDE DEF q
<1>13. Captures(Append(q, u)) = Captures(q) \cup {x \in {u.saved} : x.on}
  BY <1>10, <1>12, CapturesPush
<1>14. Captures(calls') = Captures(calls) \cup {x \in {saved} : x.on}
  BY <1>1, <1>10, <1>12, <1>13 DEF q
<1>15. ~failing
  BY <1>1 DEF M!Able
<1>16. \A x \in Captures(calls') :
         x \in Captures(calls) \/ (~failing /\ x.error = error /\ x.rows = Len(feedback))
  BY <1>14, <1>15 DEF M!NoCapture, M!Capturing
<1>17. Final
  BY <1>1 DEF Final
<1> QED
  BY <1>1, <1>15, <1>16, <1>17, QuietErrors

(* A row more, or a failure that was there already.                        *)
LEMMA RowErrors ==
  ASSUME M!Assumption, Shape, Errors, NEW v, M!Row(v), UNCHANGED calls, Final,
         (error' = error /\ failing' = failing /\ UNCHANGED demand)
           \/ (error' = M!New /\ failing' = TRUE)
  PROVE  Errors'
<1>1. feedback \in Seq(Nat) /\ M!New \in Nat /\ feedback' = Append(feedback, M!New)
  BY RowIs DEF M!Row, Shape
<1>2. /\ Len(feedback) \in Nat /\ Len(feedback') = Len(feedback) + 1
      /\ \A i \in 1 .. Len(feedback) : feedback'[i] = feedback[i]
      /\ feedback'[Len(feedback) + 1] = M!New
  BY <1>1, PushIs
<1>3. \A s \in Captures(calls) : s.rows <= Len(feedback)
  BY CapturesRows DEF Shape
<1>4. \A s \in Captures(calls) : s.rows \in Nat
  <2>1. \A i \in 1 .. Len(calls) : calls[i] \in GuestCalls
    BY DEF Shape, Shaped
  <2> QED
    BY <2>1 DEF Captures, GuestCalls
<1>5. \A s \in Captures(calls') :
        s \in Captures(calls) /\ \A i \in 1 .. s.rows : feedback'[i] = feedback[i]
  BY <1>2, <1>3, <1>4
<1>6. CASE error' = error /\ failing' = failing /\ UNCHANGED demand
  <2>1. failing' => Raised'
    <3> SUFFICES ASSUME failing PROVE Raised'
      BY <1>6
    <3>1. Raised
      BY DEF Errors
    <3>2. \A e \in M!Elements(feedback) : e \in M!Elements(feedback')
      BY <1>2 DEF M!Elements
    <3> QED
      BY <1>6, <3>1, <3>2 DEF Raised
  <2>2. ~failing' => Backed(feedback', demand', calls', error', Len(feedback'))
    <3> SUFFICES ASSUME ~failing
                 PROVE  Backed(feedback', demand', calls', error, Len(feedback'))
      BY <1>6
    <3>1. Backed(feedback, demand, calls, error, Len(feedback))
      BY DEF Errors
    <3> QED
      BY <1>2, <3>1, BackedStays
  <2> QED
    BY <1>5, <2>1, <2>2, ErrorsStay
<1>7. CASE error' = M!New /\ failing' = TRUE
  <2>1. Raised'
    <3>1. M!New \in M!Elements(feedback')
      BY <1>2 DEF M!Elements
    <3> QED
      BY <1>7, <3>1 DEF Raised
  <2> QED
    BY <1>5, <1>7, <2>1, ErrorsStay
<1> QED
  BY <1>6, <1>7

LEMMA UseFailedErrors ==
  ASSUME Shape, Errors, NEW d \in M!Globals, M!UseFailed(d)
  PROVE  Errors'
<1>1. /\ demand[d].state = "failed" /\ error' = demand[d].value /\ failing' = TRUE
      /\ UNCHANGED <<demand, calls, feedback>>
  BY DEF M!UseFailed, M!stack
<1>2. demand[d] = M!Failed(demand[d].value)
  <2>1. demand[d] \in [state : DemandStates, value : Nat]
    BY DEF Shape, Demanded
  <2> QED
    BY <1>1, <2>1 DEF M!Failed
<1>3. Raised'
  BY <1>1, <1>2 DEF Raised
<1>4. Final
  BY <1>1 DEF Final
<1> QED
  BY <1>1, <1>3, <1>4, ErrorsStay

LEMMA StartErrors ==
  ASSUME M!Assumption, Shape, Errors, NEW d \in M!Globals, M!Start(d), ~failing
  PROVE  Errors'
<1>1. /\ calls' = Append(calls, M!Evaluation(d)) /\ UNCHANGED M!report
      /\ demand' = [demand EXCEPT ![d] = M!Running]
      /\ \A x : Evaluating(calls', x) <=> Evaluating(calls, x) \/ x = d
  BY StartStep DEF M!Start
<1>2. demand[d].state = "pending"
  BY DEF M!Start, M!Evaluable
<1>3. Final
  <2>1. demand \in [M!Globals -> [state : DemandStates, value : Nat]]
    BY DEF Shape, Demanded
  <2> QED
    BY <1>1, <1>2, <2>1 DEF Final
<1>4. Captures(calls') = Captures(calls)
  <2>1. calls \in Seq(GuestCalls)
    BY DEF Shape, Shaped
  <2>2. M!Evaluation(d) \in GuestCalls /\ ~M!Evaluation(d).saved.on
    BY DEF M!Evaluation, GuestCalls, M!NoCapture, M!None, M!Globals, M!Assumption
  <2> DEFINE u == M!Evaluation(d)
  <2> HIDE DEF u
  <2>3. u \in GuestCalls /\ ~u.saved.on /\ calls' = Append(calls, u)
    BY <1>1, <2>2 DEF u
  <2>4. Captures(calls') = Captures(calls) \cup {s \in {u.saved} : s.on}
    BY <2>1, <2>3, CapturesPush
  <2> QED
    BY <2>3, <2>4
<1> QED
  BY <1>1, <1>3, <1>4, QuietErrors

(* The scopes below a call are among those of the stack.                   *)
LEMMA PoppedErrors ==
  ASSUME Shape, calls # <<>>, Captures(calls') = Captures(M!Pop(calls)),
         \A d : Evaluating(calls', d) <=> Evaluating(M!Pop(calls), d)
  PROVE  /\ \A s \in Captures(calls') : s \in Captures(calls)
         /\ \A d : Evaluating(calls', d) => Evaluating(calls, d)
         /\ M!Here.saved.on => M!Here.saved \in Captures(calls)
<1>1. Captures(calls) = Captures(M!Pop(calls)) \cup {s \in {M!Here.saved} : s.on}
  BY CapturesAre
<1>2. \A d : Evaluating(calls, d) <=> Evaluating(M!Pop(calls), d) \/ M!Here.demand = d
  BY PoppedIs
<1> QED
  BY <1>1, <1>2

LEMMA FinishErrors ==
  ASSUME Shape, Errors, NEW v \in M!Values(M!Here), M!Finish(v)
  PROVE  Errors'
<1>0. calls # <<>> /\ ~failing /\ UNCHANGED M!report
      /\ demand' = [demand EXCEPT ![M!Here.demand] = M!Ready(v)]
  BY DEF M!Finish, M!Able
<1>1. StackPopped /\ M!Here.demand # M!None
  BY <1>0, FinishStep
<1>2. \A d : Evaluating(calls', d) <=> Evaluating(M!Pop(calls), d)
  BY <1>1 DEF StackPopped
<1>3. Evaluating(calls, M!Here.demand)
  BY <1>0, PoppedIs
<1>4. M!Pop(calls) \in Seq(GuestCalls) /\ M!Top \in Nat /\ M!Top >= 1 /\ Len(M!Pop(calls)) = M!Top - 1
  BY <1>0, RunningIs
<1>5. Captures(calls') = Captures(M!Pop(calls))
  <2>1. CASE M!Top = 1
    <3>1. M!Pop(calls) = <<>> /\ calls' = <<>>
      BY <1>0, <1>4, <2>1, FinishStep
    <3> QED
      BY <3>1
  <2>2. CASE M!Top # 1
    <3> DEFINE p == M!Pop(calls)
               c == p[Len(p)]
               l == Append(c.locals, v)
               g == WithLocals(c, l)
    <3>1. p # <<>> /\ Edited(c, g, l) /\ calls' = Append(M!Pop(p), g)
      BY <1>0, <2>2, FinishStep
    <3>2. g \in GuestCalls /\ g.saved = c.saved /\ p \in Seq(GuestCalls)
      BY <1>4, <3>1 DEF Edited
    <3> HIDE DEF g, p
    <3>3. Captures(Append(M!Pop(p), g)) = Captures(p)
      BY <3>1, <3>2, CapturesSwap
    <3> QED
      BY <3>1, <3>3 DEF p
  <2> QED
    BY <2>1, <2>2
<1>6. /\ \A s \in Captures(calls') : s \in Captures(calls)
      /\ \A d : Evaluating(calls', d) => Evaluating(calls, d)
  BY <1>0, <1>2, <1>5, PoppedErrors
<1>7. Final
  <2>1. demand \in [M!Globals -> [state : DemandStates, value : Nat]]
    BY DEF Shape, Demanded
  <2> QED
    BY <1>0, <1>3, <1>6, <2>1 DEF Final
<1> QED
  BY <1>0, <1>6, <1>7, QuietErrors

(* The end of a capture: the error it began with is backed still.          *)
LEMMA SettledErrors ==
  ASSUME Shape, Errors, calls # <<>>, M!Here.saved.on, M!Settle(M!Here.saved),
         Captures(calls') = Captures(M!Pop(calls)),
         \A d : Evaluating(calls', d) <=> Evaluating(M!Pop(calls), d),
         failing' = FALSE, UNCHANGED demand
  PROVE  Errors'
<1>1. /\ \A s \in Captures(calls') : s \in Captures(calls)
      /\ \A d : Evaluating(calls', d) => Evaluating(calls, d)
      /\ M!Here.saved \in Captures(calls)
  BY PoppedErrors
<1>2. Rows(M!Pop(calls), M!Here.saved.rows) /\ M!Here.saved.rows <= Len(feedback)
  BY PoppedIs DEF Shape
<1>3. M!Here.saved.rows \in Nat
  <2>1. M!Here \in GuestCalls
    BY RunningIs
  <2> QED
    BY <2>1 DEF GuestCalls
<1>4. feedback \in Seq(Nat) /\ Len(feedback) \in Nat
  BY DEF Shape
<1> DEFINE n == M!Here.saved.rows
           e == M!Here.saved.error
<1>5. feedback' = SubSeq(feedback, 1, n) /\ error' = e
  BY DEF M!Settle
<1>6. Backed(feedback, demand, calls, e, n)
  BY <1>1 DEF Errors
<1>7. \A s \in Captures(calls') : s.rows <= n
  BY <1>2, CapturesRows
<1> HIDE DEF n, e
<1>8. n \in 0 .. Len(feedback)
  BY <1>2, <1>3, <1>4 DEF n
<1>9. Len(feedback') = n /\ \A i \in 1 .. n : feedback'[i] = feedback[i]
  BY <1>4, <1>5, <1>8, PartOf
<1>10. Final
  BY <1>1 DEF Final
<1>11. Backed(feedback', demand', calls', error', Len(feedback'))
  <2>1. Backed(feedback', demand', calls', e, n)
    BY <1>6, <1>9, <1>10, BackedStays
  <2> QED
    BY <1>5, <1>9, <2>1
<1>12. \A s \in Captures(calls') :
         s \in Captures(calls) /\ \A i \in 1 .. s.rows : feedback'[i] = feedback[i]
  <2>1. \A s \in Captures(calls) : s.rows \in Nat
    <3>1. \A i \in 1 .. Len(calls) : calls[i] \in GuestCalls
      BY DEF Shape, Shaped
    <3> QED
      BY <3>1 DEF Captures, GuestCalls
  <2> QED
    BY <1>1, <1>7, <1>8, <1>9, <2>1
<1> QED
  BY <1>10, <1>11, <1>12, ErrorsStay

LEMMA ReturnErrors ==
  ASSUME M!Assumption, Shape, Errors, NEW v \in M!Values(M!Here), M!Return(v)
  PROVE  Errors'
<1>1. /\ calls # <<>> /\ ~failing /\ M!Here.demand = M!None /\ M!LeaveFrames(M!Here.out)
      /\ M!Settle(M!Here.saved) /\ UNCHANGED demand /\ UNCHANGED failing
  BY DEF M!Return, M!Able
<1>2. calls' = M!Pop(calls)
  BY DEF M!Return, M!LeaveFrames
<1>3. CASE M!Here.saved.on
  <2>1. failing' = FALSE
    BY <1>1 DEF Shape
  <2> QED
    BY <1>1, <1>2, <1>3, <2>1, SettledErrors
<1>4. CASE ~M!Here.saved.on
  <2>1. UNCHANGED <<feedback, error>>
    BY <1>1, <1>4 DEF M!Settle
  <2>2. /\ \A s \in Captures(calls') : s \in Captures(calls)
        /\ \A d : Evaluating(calls', d) => Evaluating(calls, d)
    BY <1>1, <1>2, PoppedErrors
  <2>3. Final
    BY <1>1, <2>2 DEF Final
  <2> QED
    BY <1>1, <2>1, <2>2, <2>3, QuietErrors DEF M!report
<1> QED
  BY <1>3, <1>4

LEMMA UnwindErrors ==
  ASSUME M!Assumption, Shape, Errors, M!Unwind
  PROVE  Errors'
<1>1. /\ calls # <<>> /\ failing /\ failing' = (M!Top # 1 /\ ~M!Here.saved.on)
  BY DEF M!Unwind
<1>2. calls' = M!Pop(calls)
  BY DEF M!Unwind, M!LeaveFrames
<1>3. /\ \A s \in Captures(calls') : s \in Captures(calls)
      /\ \A d : Evaluating(calls', d) => Evaluating(calls, d)
      /\ M!Here.saved.on => M!Here.saved \in Captures(calls)
  BY <1>1, <1>2, PoppedErrors
<1>4. Raised
  BY <1>1 DEF Errors
<1>5. CASE M!Here.demand # M!None
  <2>1. UNCHANGED <<feedback, error>> /\ demand' = [demand EXCEPT ![M!Here.demand] = M!Failed(error)]
    BY <1>5 DEF M!Unwind
  <2>2. demand \in [M!Globals -> [state : DemandStates, value : Nat]]
    BY DEF Shape, Demanded
  <2>3. Evaluating(calls, M!Here.demand) /\ ~Evaluating(calls', M!Here.demand)
    BY <1>1, <1>2, <1>5, PoppedIs
  <2>4. M!Here.demand \in M!Globals
    <3>1. M!Here \in GuestCalls
      BY <1>1, RunningIs
    <3> QED
      BY <1>5, <3>1 DEF GuestCalls, M!Globals, M!None, M!Assumption
  <2>5. Final
    BY <1>3, <2>1, <2>2, <2>3 DEF Final
  <2>6. demand'[M!Here.demand] = M!Failed(error')
    BY <2>1, <2>2, <2>4
  <2>7. Raised' /\ Backed(feedback', demand', calls', error', Len(feedback'))
    BY <2>3, <2>4, <2>6 DEF Raised, Backed
  <2> QED
    BY <1>3, <2>1, <2>5, <2>7, ErrorsStay
<1>6. CASE M!Here.demand = M!None /\ M!Here.saved.on
  <2>1. M!Settle(M!Here.saved) /\ UNCHANGED demand /\ failing' = FALSE
    BY <1>1, <1>6 DEF M!Unwind
  <2> QED
    BY <1>1, <1>2, <1>6, <2>1, SettledErrors
<1>7. CASE M!Here.demand = M!None /\ ~M!Here.saved.on
  <2>1. M!Settle(M!Here.saved) /\ UNCHANGED demand
    BY <1>7 DEF M!Unwind
  <2>2. UNCHANGED <<feedback, error>>
    BY <1>7, <2>1 DEF M!Settle
  <2>3. Final
    BY <1>3, <2>1 DEF Final
  <2>4. Raised'
    BY <1>4, <2>1, <2>2 DEF Raised
  <2>5. ~failing' => Backed(feedback', demand', calls', error', Len(feedback'))
    <3> SUFFICES ASSUME M!Top = 1
                 PROVE  Backed(feedback', demand', calls', error', Len(feedback'))
      BY <1>1, <1>7
    <3>1. Len(calls') = 0
      BY <1>1, <1>2, RunningIs
    <3>2. \A d : ~Evaluating(calls', d)
      BY <3>1 DEF Evaluating
    <3>3. error' \in M!Elements(feedback') => \E i \in 1 .. Len(feedback') : feedback'[i] = error'
      BY DEF M!Elements
    <3> QED
      BY <2>4, <3>2, <3>3 DEF Raised, Backed
  <2> QED
    BY <1>3, <2>2, <2>3, <2>4, <2>5, ErrorsStay
<1> QED
  BY <1>5, <1>6, <1>7

(* The exports.                                                            *)
LEMMA NoCallsErrors ==
  ASSUME calls' = <<>>, error' = M!None, failing' = FALSE
  PROVE  Errors'
<1>1. Len(calls') = 0
  OBVIOUS
<1>2. Captures(calls') = {}
  BY <1>1 DEF Captures
<1> QED
  BY <1>2 DEF Errors, Backed

LEMMA SameErrors ==
  ASSUME Errors, UNCHANGED <<demand, calls, M!report>>
  PROVE  Errors'
BY DEF Errors, M!report, Backed, Raised, Captures, Evaluating

LEMMA InvokeErrors ==
  ASSUME M!Assumption, Shape, Errors, NEW c \in Nat, NEW contents, M!AtRest,
         M!Invoke(c, contents)
  PROVE  Errors'
<1> DEFINE h == M!With(heap, M!New, contents)
           out == M!Free(h)
           u == M!Function(c, M!New, out, scratch + 1, M!NoCapture)
<1>1. UNCHANGED <<demand, M!report>> /\ calls' = Append(<<>>, u)
  BY DEF M!Invoke, M!Enter
<1>2. ~u.saved.on /\ u.demand = M!None
  BY DEF M!Function, M!NoCapture
<1> HIDE DEF u
<1>3. Len(calls') = 1 /\ calls'[1] = u
  BY <1>1
<1>4. Captures(calls') = {}
  BY <1>2, <1>3 DEF Captures
<1>5. Final
  <2>1. \A d \in M!Globals : ~Evaluating(calls', d)
    BY <1>2, <1>3 DEF Evaluating, M!Globals, M!None
  <2> QED
    BY <1>1, <2>1 DEF Final
<1> QED
  BY <1>1, <1>4, <1>5, QuietErrors

-----------------------------------------------------------------------------
(* What the globals, the diagnostics and the service refer to.             *)
Rooted(h, dm, fb, sv) ==
  /\ {dm[d].value : d \in M!Globals} \subseteq DOMAIN h \cup {M!None}
  /\ M!Elements(fb) \subseteq DOMAIN h
  /\ {sv.initializer, sv.handler} \cup sv.values \subseteq DOMAIN h \cup {M!None}

Memory ==
  Heaps(heap) /\ Secure(heap, calls, frames) /\ Rooted(heap, demand, feedback, service)

LEMMA RootedMore ==
  ASSUME NEW h, NEW g, NEW dm, NEW fb, NEW sv, Rooted(h, dm, fb, sv),
         DOMAIN h \subseteq DOMAIN g
  PROVE  Rooted(g, dm, fb, sv)
BY DEF Rooted

(* A safepoint, with the frames it finds.                                  *)
LEMMA SweptMemory ==
  ASSUME M!Assumption, NEW h, Heaps(h), NEW cs, NEW fs, Shaped(cs, fs), Secure(h, cs, fs),
         Rooted(h, demand, feedback, service), NEW g \in M!Afterwards(h, fs)
  PROVE  /\ Heaps(g) /\ Secure(g, cs, fs) /\ Rooted(g, demand, feedback, service)
         /\ DOMAIN g \subseteq DOMAIN h
<1>1. /\ Heaps(g) /\ Secure(g, cs, fs)
      /\ M!Traced(fs) \cap DOMAIN h \subseteq DOMAIN g
      /\ DOMAIN g \subseteq DOMAIN h
  BY SecureSwept
<1>2. /\ M!DemandRoots \subseteq M!Traced(fs) /\ M!Elements(feedback) \subseteq M!Traced(fs)
      /\ {service.initializer, service.handler} \cup service.values \subseteq M!Traced(fs)
  BY DEF M!Traced
<1>3. Rooted(g, demand, feedback, service)
  BY <1>1, <1>2 DEF Rooted, M!DemandRoots
<1> QED
  BY <1>1, <1>3

(* The running call and its frame over the stack below.                    *)
LEMMA RunningSafe ==
  ASSUME M!Assumption, Shape, calls # <<>>, NEW h, Heaps(h), Secure(h, calls, frames)
  PROVE  /\ Secure(h, M!Pop(calls), M!Pop(frames))
         /\ Apart(M!Pop(calls), M!Pop(frames), M!Here, frames[M!Top])
         /\ Safe(h, M!Here, frames[M!Top], scratch) /\ Words(M!Pop(calls), M!Here) = scratch
         /\ Len(frames[M!Top].slots) \in Nat /\ Len(M!Here.locals) = Len(frames[M!Top].slots)
         /\ scratch \in Nat
<1>1. Shaped(calls, frames) /\ scratch = Level(calls) /\ calls \in Seq(GuestCalls)
  BY DEF Shape, Shaped
<1>2. /\ Secure(h, M!Pop(calls), M!Pop(frames))
      /\ Upon(h, M!Pop(calls), M!Pop(frames), calls[Len(calls)], frames[Len(calls)])
  BY <1>1, SecurePop
<1>3. Upon(h, M!Pop(calls), M!Pop(frames), M!Here, frames[M!Top])
  BY <1>2 DEF M!Here, M!Top
<1>4. Words(M!Pop(calls), M!Here) = scratch
  BY <1>1, RunningIs DEF Words
<1>5. frames[M!Top] \in RootFrames /\ Atop(M!Pop(calls), M!Pop(frames), M!Here, frames[M!Top])
  BY RunningIs
<1>6. Len(frames[M!Top].slots) \in Nat /\ Len(M!Here.locals) = Len(frames[M!Top].slots)
  BY <1>5 DEF Atop, RootFrames
<1>7. scratch \in Nat
  BY <1>1, LevelIs
<1> QED
  BY <1>2, <1>3, <1>4, <1>6, <1>7 DEF Upon

(* Whatever the running call can name its frame keeps.                     *)
LEMMA ValuesHeld ==
  ASSUME M!Assumption, Shape, calls # <<>>, NEW h, Heaps(h), Secure(h, calls, frames),
         NEW v \in M!Values(M!Here)
  PROVE  LET k == Len(frames[M!Top].slots) IN
         /\ Named(v, Held(h, frames[M!Top], k), scratch) /\ v \in Nat /\ v # M!None
         /\ v \in M!Allocations => v \in Held(h, frames[M!Top], k) /\ v \in DOMAIN h
         /\ v <= M!Scratch(scratch)
<1> DEFINE f == frames[M!Top]
           c == M!Here
           k == Len(f.slots)
<1>1. Safe(h, c, f, scratch) /\ k \in Nat /\ Len(c.locals) = k /\ scratch \in Nat
  BY RunningSafe
<1>2. v \in Nat /\ v # M!None
  BY ValuesAre
<1>3. v \in {c.env, c.arg} \cup M!Elements(c.locals)
  BY DEF M!Values
<1> HIDE DEF f, c
<1>4. Held(h, f, k) \subseteq DOMAIN h /\ Held(h, f, 0) \subseteq Held(h, f, k)
      /\ \A n \in 1 .. k : Held(h, f, n) \subseteq Held(h, f, k)
  <2>1. 0 \in Nat /\ 0 <= k /\ \A n \in 1 .. k : n \in Nat /\ n <= k
    BY <1>1
  <2> QED
    BY <1>1, <2>1, HeldGrows
<1>5. Named(v, Held(h, f, k), scratch)
  <2>1. CASE v \in {c.env, c.arg}
    BY <1>1, <1>4, <2>1 DEF Safe, Named
  <2>2. CASE v \in M!Elements(c.locals)
    <3>1. PICK n \in 1 .. k : v = c.locals[n]
      BY <1>1, <2>2 DEF M!Elements
    <3> QED
      BY <1>1, <1>4, <3>1 DEF Safe, Named
  <2> QED
    BY <1>3, <2>1, <2>2
<1>6. HeapSize \in Nat /\ DOMAIN h \subseteq M!Allocations
  BY DEF M!Assumption, Heaps
<1>7. /\ v \in M!Allocations => v \in Held(h, f, k) /\ v \in DOMAIN h
      /\ v <= M!Scratch(scratch)
  BY <1>1, <1>2, <1>4, <1>5, <1>6 DEF Named, M!Allocations, M!Scratch, M!None
<1> QED
  BY <1>2, <1>5, <1>7 DEF f, c

(* What is not there no call was given a place for, nor has in a slot.     *)
LEMMA AbsentIs ==
  ASSUME NEW h, NEW cs, NEW fs, Shaped(cs, fs), Secure(h, cs, fs),
         NEW o \in M!Allocations, o \notin DOMAIN h
  PROVE  \A j \in 1 .. Len(cs) :
           cs[j].out # o /\ \A m \in 1 .. Len(fs[j].slots) : fs[j].slots[m] # M!Storage(o)
<1> SUFFICES ASSUME NEW j \in 1 .. Len(cs)
             PROVE  cs[j].out # o /\ \A m \in 1 .. Len(fs[j].slots) : fs[j].slots[m] # M!Storage(o)
  OBVIOUS
<1>1. Safe(h, cs[j], fs[j], Words(SubSeq(cs, 1, j - 1), cs[j]))
  BY SecureAt
<1>2. M!Storage(o).ref = o /\ o # M!None
  BY DEF M!Storage, M!Allocations, M!None
<1> QED
  BY <1>1, <1>2 DEF Safe, Published

(* The call on top of a stack takes other locals and slots.                *)
LEMMA EditSecure ==
  ASSUME M!Assumption, NEW h, Heaps(h), NEW cs, NEW fs, Shaped(cs, fs), Secure(h, cs, fs),
         cs # <<>>, NEW k \in Nat, k <= Len(fs[Len(cs)].slots),
         NEW g, NEW e, NEW l, NEW t, Edited(cs[Len(cs)], g, l), Slotted(fs[Len(cs)], e, t),
         Len(t) = Len(l), Len(l) \in Nat,
         \A n \in 1 .. k : l[n] = cs[Len(cs)].locals[n] /\ t[n] = fs[Len(cs)].slots[n],
         Len(l) = k
           \/ (Len(l) = k + 1 /\ Added(h, M!Pop(cs), cs[Len(cs)], fs[Len(cs)], k, l[k + 1], t[k + 1]))
  PROVE  Secure(h, Append(M!Pop(cs), g), Append(M!Pop(fs), e))
<1> DEFINE c == cs[Len(cs)]
           f == fs[Len(cs)]
           p == M!Pop(cs)
           q == M!Pop(fs)
<1>1. Secure(h, p, q) /\ Upon(h, p, q, c, f)
  BY SecurePop
<1>2. Shaped(p, q) /\ Atop(p, q, c, f) /\ c \in GuestCalls /\ f \in RootFrames
  BY ShapedPop
<1>3. Len(f.slots) \in Nat /\ Len(c.locals) = Len(f.slots)
  BY <1>2 DEF Atop, RootFrames
<1>4. /\ k <= Len(f.slots) /\ Edited(c, g, l) /\ Slotted(f, e, t)
      /\ \A n \in 1 .. k : l[n] = c.locals[n] /\ t[n] = f.slots[n]
      /\ Len(l) = k \/ (Len(l) = k + 1 /\ Added(h, p, c, f, k, l[k + 1], t[k + 1]))
  OBVIOUS
<1> HIDE DEF c, f, p, q
<1>5. Upon(h, p, q, g, e)
  BY <1>1, <1>3, <1>4, EditUpon
<1>6. g \in GuestCalls /\ e \in RootFrames
  BY <1>4 DEF Edited, Slotted
<1>7. Secure(h, Append(p, g), Append(q, e))
  BY <1>1, <1>2, <1>5, <1>6, SecurePush
<1> QED
  BY <1>7 DEF p, q

(* The first k locals and slots, and perhaps one after them.               *)
Starts(c, f, k, l, t) ==
  /\ k \in Nat /\ k <= Len(f.slots) /\ Len(t) = k /\ Len(l) = k
  /\ \A n \in 1 .. k : l[n] = c.locals[n] /\ t[n] = f.slots[n]

Extends(c, f, k, l, t) ==
  /\ k \in Nat /\ k <= Len(f.slots) /\ Len(t) = k + 1 /\ Len(l) = k + 1
  /\ \A n \in 1 .. k : l[n] = c.locals[n] /\ t[n] = f.slots[n]

LEMMA AddSecure ==
  ASSUME M!Assumption, NEW h, Heaps(h), NEW cs, NEW fs, Shaped(cs, fs), Secure(h, cs, fs),
         cs # <<>>, NEW k, NEW c, NEW f, c = cs[Len(cs)], f = fs[Len(cs)],
         NEW g, NEW e, NEW l, NEW t, Edited(c, g, l), Slotted(f, e, t),
         Extends(c, f, k, l, t), Added(h, M!Pop(cs), c, f, k, l[k + 1], t[k + 1])
  PROVE  Secure(h, Append(M!Pop(cs), g), Append(M!Pop(fs), e))
<1>0. /\ k \in Nat /\ k <= Len(f.slots) /\ Len(t) = k + 1 /\ Len(l) = k + 1
      /\ \A n \in 1 .. k : l[n] = c.locals[n] /\ t[n] = f.slots[n]
  BY DEF Extends
<1>1. Len(l) \in Nat /\ Len(t) = Len(l)
  BY <1>0
<1>2. Len(l) = k \/ (Len(l) = k + 1 /\ Added(h, M!Pop(cs), c, f, k, l[k + 1], t[k + 1]))
  BY <1>0
<1> QED
  BY <1>0, <1>1, <1>2, EditSecure

LEMMA PartSecure ==
  ASSUME M!Assumption, NEW h, Heaps(h), NEW cs, NEW fs, Shaped(cs, fs), Secure(h, cs, fs),
         cs # <<>>, NEW k, NEW c, NEW f, c = cs[Len(cs)], f = fs[Len(cs)],
         NEW g, NEW e, NEW l, NEW t, Edited(c, g, l), Slotted(f, e, t), Starts(c, f, k, l, t)
  PROVE  Secure(h, Append(M!Pop(cs), g), Append(M!Pop(fs), e))
<1>1. /\ k \in Nat /\ k <= Len(f.slots) /\ Len(t) = k /\ Len(l) = k
      /\ \A n \in 1 .. k : l[n] = c.locals[n] /\ t[n] = f.slots[n]
  BY DEF Starts
<1>2. Len(l) \in Nat /\ Len(t) = Len(l) /\ Len(l) = k
  BY <1>1
<1>3. Len(l) = k \/ (Len(l) = k + 1 /\ Added(h, M!Pop(cs), c, f, k, l[k + 1], t[k + 1]))
  BY <1>2
<1> QED
  BY <1>1, <1>2, <1>3, EditSecure, SMTT(60)

(* One more local and root slot.                                           *)
LEMMA LocalSecure ==
  ASSUME M!Assumption, Shape, calls # <<>>, NEW h, Heaps(h), Secure(h, calls, frames),
         NEW r \in Nat, NEW s \in RootSlots, M!Here.demand # M!None => r \in M!Allocations,
         Added(h, M!Pop(calls), M!Here, frames[M!Top], Len(frames[M!Top].slots), r, s)
  PROVE  Secure(h, Append(M!Pop(calls), WithLocals(M!Here, Append(M!Here.locals, r))),
                   Append(M!Pop(frames), WithSlots(frames[M!Top], Append(frames[M!Top].slots, s))))
<1> DEFINE c == M!Here
           f == frames[M!Top]
           k == Len(f.slots)
           l == Append(c.locals, r)
           t == Append(f.slots, s)
           g == WithLocals(c, l)
           e == WithSlots(f, t)
<1>1. Edited(c, g, l) /\ Slotted(f, e, t)
  BY LocalIs
<1>2. c.locals \in Seq(Nat) /\ f.slots \in Seq(RootSlots) /\ Len(c.locals) = k /\ k \in Nat
  <2>1. c \in GuestCalls /\ f \in RootFrames /\ Atop(M!Pop(calls), M!Pop(frames), c, f)
    BY RunningIs
  <2> HIDE DEF c, f
  <2> QED
    BY <2>1 DEF GuestCalls, RootFrames, Atop
<1>3. /\ Len(l) = k + 1 /\ \A n \in 1 .. k : l[n] = c.locals[n]
      /\ l[k + 1] = r
  BY <1>2, PushIs
<1>4. /\ Len(t) = k + 1 /\ \A n \in 1 .. k : t[n] = f.slots[n]
      /\ t[k + 1] = s
  BY <1>2, PushIs
<1>5. Added(h, M!Pop(calls), c, f, k, l[k + 1], t[k + 1])
  BY <1>3, <1>4
<1>6. c = calls[Len(calls)] /\ f = frames[Len(calls)]
  BY DEF M!Here, M!Top
<1>7. Shaped(calls, frames)
  BY DEF Shape
<1> HIDE DEF c, f, l, t, g, e
<1> DEFINE cs == calls
           fs == frames
           n == Len(cs)
<1>8. /\ Shaped(cs, fs) /\ cs # <<>> /\ c = cs[n] /\ f = fs[n] /\ Secure(h, cs, fs)
      /\ Added(h, M!Pop(cs), c, f, k, l[k + 1], t[k + 1])
  BY <1>5, <1>6, <1>7
<1> HIDE DEF cs, fs
<1>9. /\ k \in Nat /\ k <= Len(fs[n].slots) /\ Len(l) = k + 1 /\ Len(t) = k + 1
      /\ Len(l) \in Nat
  BY <1>2, <1>3, <1>4, <1>8
<1> HIDE DEF k
<1>10. Secure(h, Append(M!Pop(cs), g), Append(M!Pop(fs), e))
  <2>1. Extends(c, f, k, l, t)
    BY <1>3, <1>4, <1>8, <1>9 DEF Extends
  <2>2. c = cs[Len(cs)] /\ f = fs[Len(cs)]
    BY <1>8
  <2> QED
    BY <1>1, <1>8, <2>1, <2>2, AddSecure
<1> QED
  BY <1>10 DEF cs, fs, c, f, k, l, t, g, e

LEMMA LocalMemory ==
  ASSUME M!Assumption, Shape, calls # <<>>, NEW h, Heaps(h), Secure(h, calls, frames),
         NEW r \in Nat, NEW s \in RootSlots, M!Here.demand # M!None => r \in M!Allocations,
         Added(h, M!Pop(calls), M!Here, frames[M!Top], Len(frames[M!Top].slots), r, s), M!Local(r, s)
  PROVE  Secure(h, calls', frames')
<1>1. Edits(Append(M!Here.locals, r), Append(frames[M!Top].slots, s))
  BY LocalStep
<1>2. Secure(h, Append(M!Pop(calls), WithLocals(M!Here, Append(M!Here.locals, r))),
                Append(M!Pop(frames), WithSlots(frames[M!Top], Append(frames[M!Top].slots, s))))
  BY LocalSecure
<1> QED
  BY <1>1, <1>2 DEF Edits

(* A new allocation, before anything refers to it.                         *)
LEMMA NewMemory ==
  ASSUME M!Assumption, Shape, Memory, M!Room, NEW x, x \subseteq DOMAIN heap
  PROVE  LET h == M!With(heap, M!New, x) IN
         /\ Heaps(h) /\ Secure(h, calls, frames) /\ Rooted(h, demand, feedback, service)
         /\ M!New \in M!Allocations /\ M!New \notin DOMAIN heap /\ M!New # M!None /\ M!New \in Nat
         /\ DOMAIN h = DOMAIN heap \cup {M!New} /\ h[M!New] = x
         /\ \A o \in DOMAIN heap : h[o] = heap[o]
<1> DEFINE n == M!New
           h == M!With(heap, n, x)
<1>1. n \in M!Allocations /\ n \notin DOMAIN heap /\ n # M!None /\ n \in Nat
  BY NewIs DEF Shape
<1> HIDE DEF n
<1>2. x \subseteq DOMAIN heap \cup {n} /\ Heaps(heap)
  BY DEF Memory
<1>3. /\ Heaps(h) /\ DOMAIN h = DOMAIN heap \cup {n} /\ h[n] = x
      /\ \A o \in DOMAIN heap : h[o] = heap[o]
  <2> DEFINE w == heap
  <2>1. Heaps(w) /\ n \in M!Allocations /\ n \notin DOMAIN w /\ x \subseteq DOMAIN w \cup {n}
    BY <1>1, <1>2
  <2>2. h = M!With(w, n, x)
    OBVIOUS
  <2> HIDE DEF w, h
  <2>3. /\ Heaps(h) /\ DOMAIN h = DOMAIN w \cup {n} /\ h[n] = x
        /\ \A o \in DOMAIN w : h[o] = w[o]
    BY <2>1, <2>2, WithIs
  <2> QED
    BY <2>3 DEF w
<1> HIDE DEF h
<1>4. Secure(h, calls, frames)
  BY <1>2, <1>3, SecureMore DEF Memory, Shape
<1>5. Rooted(h, demand, feedback, service)
  BY <1>3, RootedMore DEF Memory
<1> QED
  BY <1>1, <1>3, <1>4, <1>5 DEF h, n

(* The place of a new allocation, as a storage of the running call.        *)
LEMMA StorageAdded ==
  ASSUME M!Assumption, Shape, Memory, calls # <<>>, NEW o \in M!Allocations, o \notin DOMAIN heap,
         NEW h, o \in DOMAIN h,
         h[o] \subseteq Held(h, frames[M!Top], Len(frames[M!Top].slots))
  PROVE  Added(h, M!Pop(calls), M!Here, frames[M!Top], Len(frames[M!Top].slots), o, M!Storage(o))
<1>1. \A j \in 1 .. Len(calls) : calls[j].out # o
  BY AbsentIs DEF Memory, Shape
<1>2. /\ M!Top \in Nat /\ M!Top >= 1 /\ Len(M!Pop(calls)) = M!Top - 1 /\ calls \in Seq(GuestCalls)
  BY RunningIs
<1>3. \A j \in 1 .. Len(M!Pop(calls)) : M!Pop(calls)[j] = calls[j]
  BY <1>2, PopIs DEF M!Top
<1>4. M!Here.out # o /\ \A j \in 1 .. Len(M!Pop(calls)) : M!Pop(calls)[j].out # o
  BY <1>1, <1>2, <1>3 DEF M!Here, M!Top
<1>5. M!Storage(o).ref = o /\ ~M!Storage(o).value
  BY DEF M!Storage
<1> QED
  BY <1>4, <1>5 DEF Added

LEMMA MakeMemory ==
  ASSUME M!Assumption, Shape, Memory, NEW v \in M!Values(M!Here) \cup {M!None}, M!Make(v)
  PROVE  Memory'
<1>1. /\ calls # <<>> /\ M!Room /\ heap' = M!With(heap, M!New, M!Contents(v)) /\ M!Local(M!New, M!Storage(M!New))
      /\ UNCHANGED <<demand, feedback, service>>
  BY DEF M!Make, M!Able, M!report, M!export
<1>2. Heaps(heap) /\ Secure(heap, calls, frames)
  BY DEF Memory
<1>3. M!Contents(v) \subseteq DOMAIN heap
  <2>1. CASE v \in M!Values(M!Here)
    BY <1>1, <1>2, <2>1, ValuesHeld DEF M!Contents, M!IsManaged
  <2>2. CASE v = M!None
    BY <2>2 DEF M!Contents, M!IsManaged, M!None, M!Allocations
  <2> QED
    BY <2>1, <2>2
<1> DEFINE h == M!With(heap, M!New, M!Contents(v))
           k == Len(frames[M!Top].slots)
<1>4. /\ Heaps(h) /\ Secure(h, calls, frames) /\ Rooted(h, demand, feedback, service)
      /\ M!New \in M!Allocations /\ M!New \notin DOMAIN heap /\ M!New # M!None /\ M!New \in Nat
      /\ M!New \in DOMAIN h /\ h[M!New] = M!Contents(v)
  BY <1>1, <1>3, NewMemory
<1> HIDE DEF h
<1>5. h[M!New] \subseteq Held(h, frames[M!Top], k)
  <2>1. CASE v \in M!Values(M!Here)
    BY <1>1, <1>4, <2>1, ValuesHeld DEF M!Contents, M!IsManaged
  <2>2. CASE v = M!None
    BY <1>4, <2>2 DEF M!Contents, M!IsManaged, M!None, M!Allocations
  <2> QED
    BY <2>1, <2>2
<1>6. Added(h, M!Pop(calls), M!Here, frames[M!Top], k, M!New, M!Storage(M!New))
  BY <1>1, <1>4, <1>5, StorageAdded
<1>7. M!Storage(M!New) \in RootSlots
  BY <1>4, SlotsAre
<1>8. Secure(h, calls', frames')
  BY <1>1, <1>4, <1>6, <1>7, LocalMemory
<1> QED
  BY <1>1, <1>4, <1>8 DEF Memory, h

(* A local alone: scratch words, or what the frame keeps already.          *)
LEMMA ClearAdded ==
  ASSUME NEW h, NEW cs, NEW c, NEW f, NEW k, NEW r, Named(r, Held(h, f, k), Words(cs, c))
  PROVE  Added(h, cs, c, f, k, r, M!Clear)
BY DEF Added, M!Clear, M!Storage

LEMMA ClearMemory ==
  ASSUME M!Assumption, Shape, Memory, calls # <<>>, NEW r \in Nat,
         M!Here.demand # M!None => r \in M!Allocations,
         Named(r, Held(heap, frames[M!Top], Len(frames[M!Top].slots)), scratch),
         M!Local(r, M!Clear), UNCHANGED <<heap, demand, M!report, M!export>>
  PROVE  Memory'
<1>1. Heaps(heap) /\ Secure(heap, calls, frames) /\ Rooted(heap, demand, feedback, service)
  BY DEF Memory
<1>2. Words(M!Pop(calls), M!Here) = scratch
  BY <1>1, RunningSafe
<1>3. Added(heap, M!Pop(calls), M!Here, frames[M!Top], Len(frames[M!Top].slots), r, M!Clear)
  BY <1>2, ClearAdded
<1>4. M!Clear \in RootSlots
  BY SlotsAre
<1>5. Secure(heap, calls', frames')
  BY <1>1, <1>3, <1>4, LocalMemory
<1> QED
  BY <1>1, <1>5 DEF Memory, M!report, M!export

LEMMA MakePlainMemory ==
  ASSUME M!Assumption, Shape, Memory, M!MakePlain
  PROVE  Memory'
<1>1. /\ calls # <<>> /\ M!Here.demand = M!None /\ M!Local(M!Here.base, M!Clear)
      /\ UNCHANGED <<heap, demand, M!report, M!export>>
  BY DEF M!MakePlain, M!Able
<1>2. M!Here.base = M!Scratch(scratch) /\ scratch \in Nat /\ scratch >= 1
  <2>1. /\ Atop(M!Pop(calls), M!Pop(frames), M!Here, frames[M!Top])
        /\ Level(calls) = Level(M!Pop(calls)) + 1 /\ Level(M!Pop(calls)) \in Nat
    BY <1>1, RunningIs
  <2> QED
    BY <1>1, <2>1 DEF Atop, Kind, Shape
<1>3. HeapSize \in Nat /\ M!Here.base \in Nat /\ M!Here.base > HeapSize
  BY <1>2 DEF M!Assumption, M!Scratch
<1>4. Named(M!Here.base, Held(heap, frames[M!Top], Len(frames[M!Top].slots)), scratch)
  BY <1>2, <1>3 DEF Named
<1> QED
  BY <1>1, <1>3, <1>4, ClearMemory

LEMMA LoadMemory ==
  ASSUME M!Assumption, Shape, Memory, NEW v, NEW w \in M!Allocations, M!Load(v, w)
  PROVE  Memory'
<1>1. /\ calls # <<>> /\ v \in M!Values(M!Here) /\ v \in M!Allocations /\ w \in heap[v]
      /\ M!Local(w, M!Clear) /\ UNCHANGED <<heap, demand, M!report, M!export>>
  BY DEF M!Load, M!Able, M!IsManaged
<1> DEFINE k == Len(frames[M!Top].slots)
<1>2. Heaps(heap) /\ Secure(heap, calls, frames)
  BY DEF Memory
<1>3. v \in Held(heap, frames[M!Top], k)
  BY <1>1, <1>2, ValuesHeld
<1>4. k \in Nat
  BY <1>1, <1>2, RunningSafe
<1>5. w \in Held(heap, frames[M!Top], k)
  BY <1>1, <1>2, <1>3, <1>4, HeldGrows
<1>6. w \in Nat
  BY DEF M!Allocations
<1> QED
  BY <1>1, <1>5, <1>6, ClearMemory DEF Named

LEMMA UseReadyMemory ==
  ASSUME M!Assumption, Shape, Memory, NEW d \in M!Globals, M!UseReady(d)
  PROVE  Memory'
<1> DEFINE r == demand[d].value
           k == Len(frames[M!Top].slots)
<1>1. /\ calls # <<>> /\ demand[d].state = "ready" /\ M!Local(r, M!Value(r))
      /\ UNCHANGED <<heap, demand, M!report, M!export>>
  BY DEF M!UseReady, M!Able
<1>2. Heaps(heap) /\ Secure(heap, calls, frames) /\ Rooted(heap, demand, feedback, service)
  BY DEF Memory
<1>3. r \in M!Allocations /\ r \in Nat /\ r # M!None
  BY <1>1 DEF Shape, Demanded, M!Allocations, M!None
<1>4. r \in DOMAIN heap
  BY <1>2, <1>3 DEF Rooted
<1>5. Added(heap, M!Pop(calls), M!Here, frames[M!Top], k, r, M!Value(r))
  BY <1>4 DEF Added, M!Value
<1>6. M!Value(r) \in RootSlots
  BY <1>3, SlotsAre
<1> HIDE DEF r
<1>7. Secure(heap, calls', frames')
  BY <1>1, <1>2, <1>3, <1>5, <1>6, LocalMemory
<1> QED
  BY <1>1, <1>2, <1>7 DEF Memory, M!report, M!export

(* The temporaries above one are released.                                 *)
LEMMA CutSecure ==
  ASSUME M!Assumption, NEW h, Heaps(h), NEW cs, NEW fs, Shaped(cs, fs), Secure(h, cs, fs),
         cs # <<>>, NEW k \in 0 .. Len(fs[Len(cs)].slots),
         NEW g, NEW e, NEW l, NEW t, Edited(cs[Len(cs)], g, l), Slotted(fs[Len(cs)], e, t),
         l = SubSeq(cs[Len(cs)].locals, 1, k), t = SubSeq(fs[Len(cs)].slots, 1, k)
  PROVE  Secure(h, Append(M!Pop(cs), g), Append(M!Pop(fs), e))
<1> DEFINE c == cs[Len(cs)]
           f == fs[Len(cs)]
<1>1. /\ c.locals \in Seq(Nat) /\ f.slots \in Seq(RootSlots) /\ Len(c.locals) = Len(f.slots)
  <2>1. c \in GuestCalls /\ f \in RootFrames /\ Atop(M!Pop(cs), M!Pop(fs), c, f)
    BY ShapedPop
  <2> HIDE DEF c, f
  <2> QED
    BY <2>1 DEF GuestCalls, RootFrames, Atop
<1>2. Len(l) = k /\ \A n \in 1 .. k : l[n] = c.locals[n]
  BY <1>1, PartOf
<1>3. Len(t) = k /\ \A n \in 1 .. k : t[n] = f.slots[n]
  BY <1>1, PartOf
<1>4. k \in Nat /\ k <= Len(f.slots)
  BY <1>1
<1>5. Edited(c, g, l) /\ Slotted(f, e, t)
  OBVIOUS
<1>7. c = cs[Len(cs)] /\ f = fs[Len(cs)]
  OBVIOUS
<1> HIDE DEF c, f
<1>6. /\ Len(l) \in Nat /\ Len(t) = Len(l) /\ Len(l) = k
      /\ \A n \in 1 .. k : l[n] = c.locals[n] /\ t[n] = f.slots[n]
  BY <1>2, <1>3, <1>4
<1>8. Starts(c, f, k, l, t)
  BY <1>4, <1>6 DEF Starts
<1> QED
  BY <1>5, <1>7, <1>8, PartSecure

(* And one local after them.                                               *)
LEMMA KeepSecure ==
  ASSUME M!Assumption, NEW h, Heaps(h), NEW cs, NEW fs, Shaped(cs, fs), Secure(h, cs, fs),
         cs # <<>>, NEW k \in 0 .. Len(fs[Len(cs)].slots), NEW r \in Nat, NEW s \in RootSlots,
         Added(h, M!Pop(cs), cs[Len(cs)], fs[Len(cs)], k, r, s), NEW g, NEW e,
         Edited(cs[Len(cs)], g, Append(SubSeq(cs[Len(cs)].locals, 1, k), r)),
         Slotted(fs[Len(cs)], e, Append(SubSeq(fs[Len(cs)].slots, 1, k), s))
  PROVE  Secure(h, Append(M!Pop(cs), g), Append(M!Pop(fs), e))
<1> DEFINE c == cs[Len(cs)]
           f == fs[Len(cs)]
           lk == SubSeq(c.locals, 1, k)
           tk == SubSeq(f.slots, 1, k)
           l == Append(lk, r)
           t == Append(tk, s)
<1>1. /\ c.locals \in Seq(Nat) /\ f.slots \in Seq(RootSlots) /\ Len(c.locals) = Len(f.slots)
  <2>1. c \in GuestCalls /\ f \in RootFrames /\ Atop(M!Pop(cs), M!Pop(fs), c, f)
    BY ShapedPop
  <2> HIDE DEF c, f
  <2> QED
    BY <2>1 DEF GuestCalls, RootFrames, Atop
<1>2. lk \in Seq(Nat) /\ Len(lk) = k /\ \A n \in 1 .. k : lk[n] = c.locals[n]
  BY <1>1, PartOf
<1>3. tk \in Seq(RootSlots) /\ Len(tk) = k /\ \A n \in 1 .. k : tk[n] = f.slots[n]
  BY <1>1, PartOf
<1>4. k \in Nat /\ k <= Len(f.slots)
  BY <1>1
<1> HIDE DEF lk, tk
<1>6. Len(l) = k + 1 /\ (\A n \in 1 .. k : l[n] = c.locals[n]) /\ l[k + 1] = r
  BY <1>2, PushIs
<1>7. Len(t) = k + 1 /\ (\A n \in 1 .. k : t[n] = f.slots[n]) /\ t[k + 1] = s
  BY <1>3, PushIs
<1>8. Added(h, M!Pop(cs), c, f, k, l[k + 1], t[k + 1])
  BY <1>6, <1>7
<1>9. Edited(c, g, l) /\ Slotted(f, e, t) /\ c = cs[Len(cs)] /\ f = fs[Len(cs)]
  BY DEF lk, tk
<1> HIDE DEF c, f, l, t
<1>10. Extends(c, f, k, l, t)
  BY <1>4, <1>6, <1>7 DEF Extends
<1> QED
  BY <1>8, <1>9, <1>10, AddSecure

LEMMA DiscardMemory ==
  ASSUME M!Assumption, Shape, Memory, NEW k \in Nat, M!Discard(k)
  PROVE  Memory'
<1>1. /\ calls # <<>> /\ k < Len(M!Here.locals)
      /\ calls' = [calls EXCEPT ![M!Top].locals = SubSeq(@, 1, k)]
      /\ frames' = [frames EXCEPT ![M!Top].slots = SubSeq(@, 1, k)]
      /\ UNCHANGED <<heap, demand, scratch, M!report, M!export>>
  BY DEF M!Discard, M!Able
<1>2. Heaps(heap) /\ Secure(heap, calls, frames) /\ Rooted(heap, demand, feedback, service)
  BY DEF Memory
<1>3. Len(frames[M!Top].slots) \in Nat /\ Len(M!Here.locals) = Len(frames[M!Top].slots)
  BY <1>1, <1>2, RunningSafe
<1>4. k \in 0 .. Len(M!Here.locals)
  BY <1>1, <1>3
<1> DEFINE c == M!Here
           f == frames[M!Top]
           l == SubSeq(c.locals, 1, k)
           t == SubSeq(f.slots, 1, k)
           g == WithLocals(c, l)
           e == WithSlots(f, t)
<1>5. calls' = Append(M!Pop(calls), g) /\ frames' = Append(M!Pop(frames), e)
  BY <1>1, <1>4, CutStep DEF Edits
<1>6. Edited(c, g, l) /\ Slotted(f, e, t)
  <2>1. /\ c \in GuestCalls /\ f \in RootFrames /\ Atop(M!Pop(calls), M!Pop(frames), c, f)
    BY <1>1, RunningIs
  <2>2. c.locals \in Seq(Nat) /\ f.slots \in Seq(RootSlots)
    <3> HIDE DEF c, f
    <3> QED
      BY <2>1 DEF GuestCalls, RootFrames
  <2>3. l \in Seq(Nat) /\ Len(l) = k /\ \A n \in 1 .. k : l[n] = c.locals[n]
    BY <1>4, <2>2, PartOf
  <2>4. t \in Seq(RootSlots) /\ Len(t) = k
    BY <1>3, <1>4, <2>2, PartOf
  <2>5. c.demand # M!None => \A n \in 1 .. Len(c.locals) : c.locals[n] \in M!Allocations
    BY <2>1 DEF Atop, Kind
  <2>6. c.demand # M!None => \A n \in 1 .. Len(l) : l[n] \in M!Allocations
    BY <1>3, <1>4, <2>3, <2>5
  <2> HIDE DEF c, f, l, t
  <2> QED
    BY <2>1, <2>3, <2>4, <2>6, AtopLocals
<1>7. c = calls[Len(calls)] /\ f = frames[Len(calls)] /\ Shaped(calls, frames)
  BY DEF M!Here, M!Top, Shape
<1> HIDE DEF g, e
<1>8. Secure(heap, calls', frames')
  <2>1. Edited(calls[Len(calls)], g, l) /\ Slotted(frames[Len(calls)], e, t)
        /\ l = SubSeq(calls[Len(calls)].locals, 1, k) /\ t = SubSeq(frames[Len(calls)].slots, 1, k)
        /\ k \in 0 .. Len(frames[Len(calls)].slots)
    BY <1>3, <1>4, <1>6, <1>7
  <2> HIDE DEF l, t
  <2> DEFINE cs == calls
             fs == frames
  <2>2. /\ Edited(cs[Len(cs)], g, l) /\ Slotted(fs[Len(cs)], e, t)
        /\ l = SubSeq(cs[Len(cs)].locals, 1, k) /\ t = SubSeq(fs[Len(cs)].slots, 1, k)
        /\ k \in 0 .. Len(fs[Len(cs)].slots)
        /\ Shaped(cs, fs) /\ Secure(heap, cs, fs) /\ cs # <<>>
    BY <1>1, <1>2, <1>7, <2>1
  <2> HIDE DEF cs, fs
  <2>3. Secure(heap, Append(M!Pop(cs), g), Append(M!Pop(fs), e))
    BY <1>2, <2>2, CutSecure
  <2> QED
    BY <1>5, <2>3 DEF cs, fs
<1> QED
  BY <1>1, <1>2, <1>8 DEF Memory, M!report, M!export

(* The result stays, as a value.                                           *)
LEMMA ReleaseMemory ==
  ASSUME M!Assumption, Shape, Memory, NEW k \in Nat, M!Release(k)
  PROVE  Memory'
<1>1. calls # <<>> /\ UNCHANGED <<heap, demand, scratch, M!report, M!export>>
  BY DEF M!Release, M!Able
<1>2. Heaps(heap) /\ Secure(heap, calls, frames) /\ Rooted(heap, demand, feedback, service)
  BY DEF Memory
<1>3. /\ Len(frames[M!Top].slots) \in Nat /\ Len(M!Here.locals) = Len(frames[M!Top].slots)
      /\ Words(M!Pop(calls), M!Here) = scratch
  BY <1>1, <1>2, RunningSafe
<1> DEFINE c == M!Here
           f == frames[M!Top]
           v == c.locals[Len(c.locals)]
           l == Append(SubSeq(c.locals, 1, k), v)
           t == Append(SubSeq(f.slots, 1, k), M!SlotOf(v))
           g == WithLocals(c, l)
           e == WithSlots(f, t)
<1>4. /\ k < Len(c.locals) /\ v \in Nat
      /\ calls' = Append(M!Pop(calls), g) /\ frames' = Append(M!Pop(frames), e)
  BY <1>1, ReleaseStep DEF Edits
<1>5. k \in 0 .. Len(f.slots) /\ Len(c.locals) \in 1 .. Len(c.locals)
  BY <1>3, <1>4
<1>6. v \in M!Values(c) \/ v = M!None
  BY <1>5 DEF M!Values, M!Elements
<1>7. M!SlotOf(v) \in RootSlots /\ M!Clear = M!Storage(M!None)
  BY <1>4, SlotsAre DEF M!Clear
<1>8. Added(heap, M!Pop(calls), c, f, k, v, M!SlotOf(v))
  <2>1. CASE v \in M!Allocations
    <3>1. v \in DOMAIN heap
      BY <1>1, <1>2, <1>6, <2>1, ValuesHeld DEF M!None, M!Allocations
    <3> QED
      BY <2>1, <3>1 DEF Added, M!SlotOf, M!IsManaged, M!Value
  <2>2. CASE v \notin M!Allocations
    <3>1. Named(v, Held(heap, f, k), Words(M!Pop(calls), c))
      <4>1. CASE v = M!None
        BY <4>1 DEF Named
      <4>2. CASE v \in M!Values(c)
        <5>1. Named(v, Held(heap, f, Len(f.slots)), scratch)
          BY <1>1, <1>2, <4>2, ValuesHeld
        <5>2. Held(heap, f, Len(f.slots)) \subseteq M!Allocations
          BY <1>2, <1>3, HeldGrows DEF Heaps
        <5> QED
          BY <1>3, <2>2, <5>1, <5>2 DEF Named
      <4> QED
        BY <1>6, <4>1, <4>2
    <3> QED
      BY <2>2, <3>1, ClearAdded DEF M!SlotOf, M!IsManaged
  <2> QED
    BY <2>1, <2>2
<1>9. Edited(c, g, l) /\ Slotted(f, e, t)
  <2>1. /\ c \in GuestCalls /\ f \in RootFrames /\ Atop(M!Pop(calls), M!Pop(frames), c, f)
    BY <1>1, RunningIs
  <2> DEFINE w == v
             s == M!SlotOf(w)
  <2> HIDE DEF w
  <2>2. c.locals \in Seq(Nat) /\ f.slots \in Seq(RootSlots) /\ w \in Nat /\ s \in RootSlots
    <3>1. w \in Nat /\ s \in RootSlots
      BY <1>4, <1>7 DEF w
    <3> HIDE DEF c, f
    <3> QED
      BY <2>1, <3>1 DEF GuestCalls, RootFrames
  <2> DEFINE lk == SubSeq(c.locals, 1, k)
             tk == SubSeq(f.slots, 1, k)
  <2>3. lk \in Seq(Nat) /\ Len(lk) = k /\ \A n \in 1 .. k : lk[n] = c.locals[n]
    BY <1>3, <1>5, <2>2, PartOf
  <2>4. tk \in Seq(RootSlots) /\ Len(tk) = k
    BY <1>5, <2>2, PartOf
  <2>5. c.demand # M!None => \A n \in 1 .. Len(c.locals) : c.locals[n] \in M!Allocations
    BY <2>1 DEF Atop, Kind
  <2>6. c.demand # M!None => w \in M!Allocations
    BY <1>5, <2>5 DEF w
  <2>7. l = Append(lk, w) /\ t = Append(tk, s)
    BY DEF w
  <2> HIDE DEF lk, tk, s
  <2>8. /\ Append(lk, w) \in Seq(Nat) /\ Len(Append(lk, w)) = k + 1
        /\ \A n \in 1 .. k : Append(lk, w)[n] = c.locals[n]
        /\ Append(lk, w)[k + 1] = w
    BY <2>2, <2>3, PushIs
  <2>9. Append(tk, s) \in Seq(RootSlots) /\ Len(Append(tk, s)) = k + 1
    BY <2>2, <2>4, PushIs
  <2>10. c.demand # M!None => \A n \in 1 .. k + 1 : Append(lk, w)[n] \in M!Allocations
    <3>1. \A n \in 1 .. k + 1 : n \in 1 .. k \/ n = k + 1
      OBVIOUS
    <3>2. \A n \in 1 .. k : n \in 1 .. Len(c.locals)
      BY <1>3, <1>5
    <3> QED
      BY <2>5, <2>6, <2>8, <3>1, <3>2
  <2> DEFINE ll == Append(lk, w)
             tt == Append(tk, s)
  <2>11. l = ll /\ t = tt /\ ll \in Seq(Nat) /\ tt \in Seq(RootSlots) /\ Len(tt) = Len(ll)
         /\ (c.demand # M!None => \A n \in 1 .. Len(ll) : ll[n] \in M!Allocations)
    BY <2>7, <2>8, <2>9, <2>10
  <2> HIDE DEF c, f, ll, tt
  <2>12. Edited(c, WithLocals(c, ll), ll) /\ Slotted(f, WithSlots(f, tt), tt)
    BY <2>1, <2>11, AtopLocals
  <2> QED
    BY <2>11, <2>12
<1>10. c = calls[Len(calls)] /\ f = frames[Len(calls)] /\ Shaped(calls, frames)
  BY DEF M!Here, M!Top, Shape
<1> HIDE DEF g, e
<1>11. Secure(heap, calls', frames')
  <2> DEFINE s == M!SlotOf(v)
             cc == calls[Len(calls)]
             ff == frames[Len(calls)]
  <2>1. /\ Edited(cc, g, Append(SubSeq(cc.locals, 1, k), v))
        /\ Slotted(ff, e, Append(SubSeq(ff.slots, 1, k), s))
        /\ k \in 0 .. Len(ff.slots)
        /\ Added(heap, M!Pop(calls), cc, ff, k, v, s)
        /\ v \in Nat /\ s \in RootSlots
    BY <1>4, <1>5, <1>7, <1>8, <1>9, <1>10
  <2> HIDE DEF l, t, v, s
  <2> QED
    BY <1>1, <1>2, <1>4, <1>10, <2>1, KeepSecure
<1> QED
  BY <1>1, <1>2, <1>11 DEF Memory, M!report, M!export

(* A row of the diagnostics.                                               *)
LEMMA RowMemory ==
  ASSUME M!Assumption, Shape, Memory, calls # <<>>, NEW v \in M!Values(M!Here) \cup {M!None}, M!Row(v)
  PROVE  /\ Heaps(heap') /\ Secure(heap', calls, frames)
         /\ Rooted(heap', demand, feedback', service) /\ M!New \in DOMAIN heap'
<1>1. M!Room /\ heap' = M!With(heap, M!New, M!Contents(v)) /\ feedback' = Append(feedback, M!New)
  BY DEF M!Row
<1>2. Heaps(heap) /\ Secure(heap, calls, frames)
  BY DEF Memory
<1>3. M!Contents(v) \subseteq DOMAIN heap
  <2>1. CASE v \in M!Values(M!Here)
    BY <1>2, <2>1, ValuesHeld DEF M!Contents, M!IsManaged
  <2>2. CASE v = M!None
    BY <2>2 DEF M!Contents, M!IsManaged, M!None, M!Allocations
  <2> QED
    BY <2>1, <2>2
<1> DEFINE h == M!With(heap, M!New, M!Contents(v))
<1>4. /\ Heaps(h) /\ Secure(h, calls, frames) /\ Rooted(h, demand, feedback, service)
      /\ M!New \in DOMAIN h /\ M!New \in Nat
  BY <1>1, <1>3, NewMemory
<1>5. M!Elements(feedback') = M!Elements(feedback) \cup {M!New}
  <2> DEFINE n == M!New
             fb == feedback
             t == Append(fb, n)
  <2>1. fb \in Seq(Nat) /\ n \in Nat
    BY <1>4 DEF Shape
  <2> HIDE DEF n, fb
  <2>2. /\ Len(fb) \in Nat /\ Len(t) = Len(fb) + 1
        /\ \A i \in 1 .. Len(fb) : t[i] = fb[i]
        /\ t[Len(fb) + 1] = n
    BY <2>1, PushIs
  <2>3. 1 .. Len(t) = (1 .. Len(fb)) \cup {Len(fb) + 1}
    BY <2>2
  <2> HIDE DEF t
  <2>4. M!Elements(t) = M!Elements(fb) \cup {n}
    BY <2>2, <2>3 DEF M!Elements
  <2> QED
    BY <1>1, <2>4 DEF n, fb, t
<1> HIDE DEF h
<1>6. Rooted(h, demand, feedback', service)
  BY <1>4, <1>5 DEF Rooted
<1> QED
  BY <1>1, <1>4, <1>6 DEF h

LEMMA WarnMemory ==
  ASSUME M!Assumption, Shape, Memory, NEW v \in M!Values(M!Here), M!Warn(v)
  PROVE  Memory'
<1>1. calls # <<>> /\ M!Row(v) /\ UNCHANGED <<demand, calls, frames, service>>
  BY DEF M!Warn, M!Able, M!stack, M!export
<1> QED
  BY <1>1, RowMemory DEF Memory

LEMMA FailMemory ==
  ASSUME M!Assumption, Shape, Memory, NEW v \in M!Values(M!Here) \cup {M!None}, M!Fail(v)
  PROVE  Memory'
<1>1. calls # <<>> /\ M!Row(v) /\ UNCHANGED <<demand, calls, frames, service>>
  BY DEF M!Fail, M!Able, M!stack, M!export
<1> QED
  BY <1>1, RowMemory DEF Memory

LEMMA UseRunningMemory ==
  ASSUME M!Assumption, Shape, Memory, NEW d \in M!Globals, M!UseRunning(d)
  PROVE  Memory'
<1>1. /\ calls # <<>> /\ M!Row(M!None) /\ UNCHANGED <<calls, frames, service>>
      /\ demand' = [demand EXCEPT ![d] = M!Failed(M!New)]
  BY DEF M!UseRunning, M!Able, M!stack, M!export
<1>2. /\ Heaps(heap') /\ Secure(heap', calls, frames)
      /\ Rooted(heap', demand, feedback', service) /\ M!New \in DOMAIN heap'
  BY <1>1, RowMemory
<1>3. demand \in [M!Globals -> [state : DemandStates, value : Nat]]
  BY DEF Shape, Demanded
<1>4. \A x \in M!Globals : demand'[x].value \in {demand[x].value, M!New}
  BY <1>1, <1>3 DEF M!Failed
<1>5. Rooted(heap', demand', feedback', service)
  BY <1>2, <1>4 DEF Rooted
<1> QED
  BY <1>1, <1>2, <1>5 DEF Memory

LEMMA UseFailedMemory ==
  ASSUME Memory, NEW d \in M!Globals, M!UseFailed(d)
  PROVE  Memory'
BY DEF M!UseFailed, Memory, M!stack, M!export

LEMMA StartMemory ==
  ASSUME M!Assumption, Shape, Memory, NEW d \in M!Globals, M!Start(d)
  PROVE  Memory'
<1>1. /\ demand' = [demand EXCEPT ![d] = M!Running] /\ UNCHANGED <<heap, feedback, service>>
      /\ calls' = Append(calls, M!Evaluation(d))
      /\ frames' = Append(frames, [params |-> {}, slots |-> <<>>])
  BY DEF M!Start, M!report, M!export
<1>2. Heaps(heap) /\ Secure(heap, calls, frames) /\ Rooted(heap, demand, feedback, service)
  BY DEF Memory
<1>3. demand \in [M!Globals -> [state : DemandStates, value : Nat]] /\ Shaped(calls, frames)
  BY DEF Shape, Demanded
<1>4. \A x \in M!Globals : demand'[x].value \in {demand[x].value, M!None}
  BY <1>1, <1>3 DEF M!Running
<1>5. Rooted(heap, demand', feedback, service)
  BY <1>2, <1>4 DEF Rooted
<1> DEFINE u == M!Evaluation(d)
           e == [params |-> {}, slots |-> <<>>]
<1>6. u \in GuestCalls
  BY DEF M!Evaluation, GuestCalls, M!NoCapture, M!None, M!Globals, M!Assumption
<1>7. e \in RootFrames
  BY DEF RootFrames
<1>8. Upon(heap, calls, frames, u, e)
  BY EvaluationUpon
<1> HIDE DEF u, e
<1>9. Secure(heap, Append(calls, u), Append(frames, e))
  BY <1>2, <1>3, <1>6, <1>7, <1>8, SecurePush
<1> QED
  BY <1>1, <1>2, <1>5, <1>9 DEF Memory, u, e

(* The callee of a tail call has the place of the one it replaces.         *)
LEMMA TailCallMemory ==
  ASSUME M!Assumption, Shape, Memory, NEW c, NEW a \in M!Values(M!Here), M!TailCall(c, a)
  PROVE  Memory'
<1>1. /\ calls # <<>> /\ heap' \in M!Afterwards(heap, frames')
      /\ UNCHANGED <<demand, feedback, service>>
  BY DEF M!TailCall, M!Able, M!Safepoint, M!report, M!export
<1> DEFINE b == M!Moved(a)
           o == M!Here.out
           u == M!Function(c, b, o, scratch, M!Here.saved)
           e == M!Prologue(c, b, o)
           p == M!Pop(calls)
           q == M!Pop(frames)
<1>2. /\ c \in M!Values(M!Here) /\ M!IsManaged(c) /\ M!Here.demand = M!None /\ b \in Nat
      /\ calls' = Append(p, u) /\ frames' = Append(q, e) /\ StackSame
  BY <1>1, TailStep
<1>3. Heaps(heap) /\ Secure(heap, calls, frames) /\ Rooted(heap, demand, feedback, service)
  BY DEF Memory
<1>4. /\ Secure(heap, p, q) /\ Apart(p, q, M!Here, frames[M!Top])
      /\ Safe(heap, M!Here, frames[M!Top], scratch) /\ Words(p, M!Here) = scratch
  BY <1>1, <1>3, RunningSafe
<1>5. /\ Shaped(p, q) /\ Level(p) \in Nat /\ scratch = Level(p) + 1
      /\ M!Here \in GuestCalls /\ Atop(p, q, M!Here, frames[M!Top])
  BY <1>1, <1>2, RunningIs DEF Shape
<1>6. c \in DOMAIN heap /\ c \in Nat
  BY <1>1, <1>2, <1>3, ValuesHeld DEF M!IsManaged
<1>7. M!Here.base = M!Scratch(scratch)
  BY <1>2, <1>5 DEF Atop, Kind
<1>8. /\ HeapSize \in Nat /\ a \in Nat /\ a <= M!Scratch(scratch)
      /\ a \in M!Allocations => a \in DOMAIN heap
  BY <1>1, <1>3, ValuesHeld DEF M!Assumption
<1>9. /\ b \in M!Allocations => b \in DOMAIN heap
      /\ b <= M!Scratch(Level(p) + 1)
  BY <1>5, <1>7, <1>8 DEF M!Moved, M!IsScratch, M!Scratch, M!Allocations
<1>10. o \in M!Allocations => o \in DOMAIN heap /\ heap[o] = {} /\ Unknown(p, q, o)
  BY <1>4 DEF Safe, Apart, Unknown
<1>11. u \in GuestCalls /\ e \in RootFrames
  <2>1. o \in Nat /\ M!Here.saved \in [on : BOOLEAN, rows : Nat, error : Nat] /\ scratch \in Nat
    BY <1>5 DEF GuestCalls
  <2> HIDE DEF b, o
  <2> QED
    BY <1>2, <1>6, <2>1, FunctionIs
<1> HIDE DEF p, q, b, o
<1>12. Upon(heap, p, q, u, e)
  BY <1>2, <1>3, <1>5, <1>6, <1>9, <1>10, FunctionUpon
<1> HIDE DEF u, e
<1>13. Secure(heap, calls', frames')
  BY <1>2, <1>4, <1>5, <1>11, <1>12, SecurePush
<1>14. Shaped(calls', frames')
  BY <1>2 DEF StackSame
<1>15. Heaps(heap') /\ Secure(heap', calls', frames') /\ Rooted(heap', demand, feedback, service)
  BY <1>1, <1>3, <1>13, <1>14, SweptMemory
<1> QED
  BY <1>1, <1>15 DEF Memory

(* What a caller provides, and the place is in its frame alone.            *)
LEMMA ProvideSecure ==
  ASSUME M!Assumption, Shape, calls # <<>>, NEW h, Heaps(h), Secure(h, calls, frames),
         NEW o \in Nat, o # M!None, NEW s \in RootSlots,
         M!Here.demand # M!None => o \in M!Allocations,
         o \in M!Allocations =>
           /\ s = M!Storage(o)
           /\ \A j \in 1 .. Len(calls) :
                calls[j].out # o /\ \A m \in 1 .. Len(frames[j].slots) : frames[j].slots[m] # M!Storage(o),
         Added(h, M!Pop(calls), M!Here, frames[M!Top], Len(frames[M!Top].slots), o, s)
  PROVE  LET cs == Append(M!Pop(calls), WithLocals(M!Here, Append(M!Here.locals, o)))
             fs == Append(M!Pop(frames), WithSlots(frames[M!Top], Append(frames[M!Top].slots, s)))
         IN  /\ Shaped(cs, fs) /\ Secure(h, cs, fs) /\ Level(cs) = scratch
             /\ o \in M!Allocations => Unknown(cs, fs, o)
<1> DEFINE l == Append(M!Here.locals, o)
           t == Append(frames[M!Top].slots, s)
           g == WithLocals(M!Here, l)
           e == WithSlots(frames[M!Top], t)
           p == M!Pop(calls)
           q == M!Pop(frames)
           cs == Append(p, g)
           fs == Append(q, e)
<1>1. Secure(h, cs, fs)
  BY LocalSecure
<1>2. /\ Edited(M!Here, g, l) /\ Slotted(frames[M!Top], e, t) /\ Atop(p, q, g, e)
  BY LocalIs
<1>3. /\ p \in Seq(GuestCalls) /\ q \in Seq(RootFrames) /\ Len(q) = Len(p)
      /\ Len(p) = M!Top - 1 /\ M!Top \in Nat /\ M!Top >= 1 /\ M!Here \in GuestCalls
      /\ frames[M!Top] \in RootFrames /\ Shaped(p, q)
      /\ calls \in Seq(GuestCalls) /\ frames \in Seq(RootFrames) /\ Len(frames) = M!Top
      /\ frames # <<>>
  BY RunningIs
<1>4. g \in GuestCalls /\ e \in RootFrames /\ g.out = M!Here.out /\ g.demand = M!Here.demand /\ e.slots = t
  BY <1>2 DEF Edited, Slotted
<1>5. \A j \in 1 .. Len(p) : p[j] = calls[j] /\ q[j] = frames[j]
  <2>1. \A j \in 1 .. Len(calls) - 1 : M!Pop(calls)[j] = calls[j]
    BY <1>3, PopIs
  <2>2. \A j \in 1 .. Len(frames) - 1 : M!Pop(frames)[j] = frames[j]
    BY <1>3, PopIs
  <2> QED
    BY <1>3, <2>1, <2>2 DEF M!Top
<1>6. frames[M!Top].slots \in Seq(RootSlots)
  BY <1>3 DEF RootFrames
<1> HIDE DEF g, e
<1>7. Shaped(cs, fs) /\ Level(cs) = scratch
  <2>1. Shaped(cs, fs)
    BY <1>2, <1>3, <1>4, ShapedPush
  <2>2. Level(cs) = Level(p) + IF g.demand = M!None THEN 1 ELSE 0
    BY <1>3, <1>4, LevelIs
  <2>3. scratch = Level(p) + IF M!Here.demand = M!None THEN 1 ELSE 0
    BY RunningIs DEF Shape
  <2> QED
    BY <1>4, <2>1, <2>2, <2>3
<1>8. ASSUME o \in M!Allocations
      PROVE  Unknown(cs, fs, o)
  <2>1. /\ \A j \in 1 .. Len(p) : cs[j] = p[j]
        /\ cs[Len(p) + 1] = g /\ Len(cs) = Len(p) + 1 /\ Len(p) \in Nat
    BY <1>3, <1>4, PushIs
  <2>2. /\ \A j \in 1 .. Len(p) : fs[j] = q[j]
        /\ fs[Len(p) + 1] = e
    BY <1>3, <1>4, PushIs
  <2>3. /\ \A m \in 1 .. Len(frames[M!Top].slots) : t[m] = frames[M!Top].slots[m]
        /\ Len(t) = Len(frames[M!Top].slots) + 1 /\ Len(frames[M!Top].slots) \in Nat
    BY <1>6, PushIs
  <2>4. \A j \in 1 .. Len(calls) :
          calls[j].out # o /\ \A m \in 1 .. Len(frames[j].slots) : frames[j].slots[m] # M!Storage(o)
    BY <1>8
  <2>5. M!Here.out # o /\ \A m \in 1 .. Len(frames[M!Top].slots) : frames[M!Top].slots[m] # M!Storage(o)
    BY <1>3, <2>4 DEF M!Here, M!Top
  <2>6. \A j \in 1 .. Len(p) :
          p[j].out # o /\ \A m \in 1 .. Len(q[j].slots) : q[j].slots[m] # M!Storage(o)
    <3>1. \A j \in 1 .. Len(p) : j \in 1 .. Len(calls)
      BY <1>3 DEF M!Top
    <3> HIDE DEF p, q
    <3> QED
      BY <1>5, <2>4, <3>1
  <2> HIDE DEF cs, fs, p, q, t
  <2>7. \A j \in 1 .. Len(cs) : cs[j].out # o
    <3>1. \A j \in 1 .. Len(cs) : j \in 1 .. Len(p) \/ j = Len(p) + 1
      BY <2>1
    <3> QED
      BY <1>4, <2>1, <2>5, <2>6, <3>1
  <2>8. ASSUME NEW j \in 1 .. Len(cs), NEW m \in 1 .. Len(fs[j].slots), fs[j].slots[m] = M!Storage(o)
        PROVE  j = Len(cs) /\ m = Len(fs[j].slots)
    <3>1. CASE j \in 1 .. Len(p)
      BY <2>2, <2>6, <2>8, <3>1
    <3>2. CASE j = Len(p) + 1
      <4>1. fs[j].slots = t
        BY <1>4, <2>2, <3>2
      <4>2. m \notin 1 .. Len(frames[M!Top].slots)
        BY <2>3, <2>5, <2>8, <4>1
      <4>3. m = Len(t)
        BY <2>3, <4>1, <4>2
      <4> QED
        BY <2>1, <3>2, <4>1, <4>3
    <3> QED
      BY <2>1, <3>1, <3>2
  <2> QED
    BY <2>7, <2>8 DEF Unknown
<1> QED
  BY <1>1, <1>7, <1>8 DEF cs, fs, p, q, t, g, e

(* A function is entered, in the heap its caller left.                     *)
LEMMA EnterMemory ==
  ASSUME M!Assumption, NEW h, Heaps(h), NEW cs, NEW fs, Shaped(cs, fs), Secure(h, cs, fs),
         Rooted(h, demand, feedback, service),
         NEW c \in DOMAIN h, NEW a \in Nat, a \in M!Allocations => a \in DOMAIN h,
         a <= M!Scratch(Level(cs) + 1),
         NEW o \in Nat, o \in M!Allocations => o \in DOMAIN h /\ h[o] = {} /\ Unknown(cs, fs, o),
         NEW level \in Nat, NEW saved \in [on : BOOLEAN, rows : Nat, error : Nat],
         calls' = Append(cs, M!Function(c, a, o, level, saved)),
         frames' = Append(fs, M!Prologue(c, a, o)),
         Shaped(calls', frames'), heap' \in M!Afterwards(h, frames'),
         UNCHANGED <<demand, feedback, service>>
  PROVE  Memory'
<1> DEFINE u == M!Function(c, a, o, level, saved)
           e == M!Prologue(c, a, o)
<1>1. cs \in Seq(GuestCalls) /\ Level(cs) \in Nat
  BY LevelIs DEF Shaped
<1>2. Upon(h, cs, fs, u, e)
  BY <1>1, FunctionUpon
<1>3. u \in GuestCalls /\ e \in RootFrames
  <2>1. c \in Nat
    BY DEF Heaps, M!Allocations
  <2> QED
    BY <2>1, FunctionIs
<1>4. calls' = Append(cs, u) /\ frames' = Append(fs, e)
  OBVIOUS
<1> HIDE DEF u, e
<1>5. Secure(h, calls', frames')
  BY <1>2, <1>3, <1>4, SecurePush
<1>6. Heaps(heap') /\ Secure(heap', calls', frames') /\ Rooted(heap', demand, feedback, service)
  BY <1>5, SweptMemory
<1> QED
  BY <1>6 DEF Memory

LEMMA CallMemory ==
  ASSUME M!Assumption, Shape, Memory, NEW c, NEW a, NEW plain \in BOOLEAN, NEW saved,
         saved = M!NoCapture \/ (saved = M!Capturing /\ ~plain), M!Call(c, a, plain, saved)
  PROVE  Memory'
<1> DEFINE o == IF plain THEN M!Here.base ELSE M!New
           s == IF plain THEN M!Clear ELSE M!Storage(M!New)
           h == IF plain THEN heap ELSE M!With(heap, M!New, {})
           k == Len(frames[M!Top].slots)
<1>1. /\ calls # <<>> /\ c \in M!Values(M!Here) /\ M!IsManaged(c) /\ a \in M!Values(M!Here)
      /\ plain => M!Here.demand = M!None
      /\ ~plain => M!Room
      /\ Provides(o, s, c, a, saved) /\ heap' \in M!Afterwards(h, frames')
      /\ UNCHANGED <<demand, M!report, M!export>>
      /\ Shaped(calls', frames')
  BY CallStep
<1>2. Heaps(heap) /\ Secure(heap, calls, frames) /\ Rooted(heap, demand, feedback, service)
  BY DEF Memory
<1>3. /\ Words(M!Pop(calls), M!Here) = scratch /\ scratch \in Nat
  BY <1>1, <1>2, RunningSafe
<1>4. saved \in [on : BOOLEAN, rows : Nat, error : Nat]
  <2>1. Len(feedback) \in Nat /\ error \in Nat
    BY DEF Shape
  <2>2. CASE saved = M!NoCapture
    BY <2>2 DEF M!NoCapture, M!None
  <2>3. CASE saved = M!Capturing
    BY <2>1, <2>3 DEF M!Capturing
  <2> QED
    BY <2>2, <2>3
<1>5. /\ o \in Nat /\ o # M!None /\ s \in RootSlots /\ (M!Here.demand # M!None => o \in M!Allocations)
      /\ Heaps(h) /\ Secure(h, calls, frames) /\ Rooted(h, demand, feedback, service)
      /\ DOMAIN heap \subseteq DOMAIN h
      /\ Added(h, M!Pop(calls), M!Here, frames[M!Top], k, o, s)
      /\ o \in M!Allocations => o \notin DOMAIN heap /\ s = M!Storage(o) /\ o \in DOMAIN h /\ h[o] = {}
  <2>1. CASE plain
    <3>1. M!Here.base = M!Scratch(scratch) /\ scratch >= 1
      <4>1. /\ Atop(M!Pop(calls), M!Pop(frames), M!Here, frames[M!Top])
            /\ Level(calls) = Level(M!Pop(calls)) + 1 /\ Level(M!Pop(calls)) \in Nat
        BY <1>1, <2>1, RunningIs
      <4> QED
        BY <1>1, <2>1, <4>1 DEF Atop, Kind, Shape
    <3>2. HeapSize \in Nat /\ M!Here.base \in Nat /\ M!Here.base > HeapSize /\ M!Here.base # M!None
      BY <1>3, <3>1 DEF M!Assumption, M!Scratch, M!None
    <3>3. Named(M!Here.base, Held(heap, frames[M!Top], k), scratch)
      BY <3>1, <3>2 DEF Named
    <3>4. Added(heap, M!Pop(calls), M!Here, frames[M!Top], k, M!Here.base, M!Clear)
      BY <1>3, <3>3, ClearAdded
    <3>5. M!Clear \in RootSlots
      BY <3>2, SlotsAre
    <3>6. M!Here.base \notin M!Allocations
      BY <3>2 DEF M!Allocations
    <3> QED
      BY <1>1, <1>2, <2>1, <3>2, <3>4, <3>5, <3>6
  <2>2. CASE ~plain
    <3> DEFINE w == M!With(heap, M!New, {})
    <3>1. /\ Heaps(w) /\ Secure(w, calls, frames) /\ Rooted(w, demand, feedback, service)
          /\ M!New \in M!Allocations /\ M!New \notin DOMAIN heap /\ M!New # M!None /\ M!New \in Nat
          /\ DOMAIN w = DOMAIN heap \cup {M!New} /\ w[M!New] = {}
      BY <1>1, <2>2, NewMemory
    <3>2. h = w /\ o = M!New /\ s = M!Storage(M!New)
      BY <2>2
    <3> HIDE DEF w, h, o, s
    <3>3. M!New \in DOMAIN w /\ w[M!New] \subseteq Held(w, frames[M!Top], k)
      BY <3>1
    <3>4. Added(w, M!Pop(calls), M!Here, frames[M!Top], k, M!New, M!Storage(M!New))
      BY <1>1, <3>1, <3>3, StorageAdded
    <3>5. M!Storage(M!New) \in RootSlots
      BY <3>1, SlotsAre
    <3> QED
      BY <3>1, <3>2, <3>4, <3>5
  <2> QED
    BY <2>1, <2>2
<1> HIDE DEF o, s, h
<1>6. o \in M!Allocations =>
        /\ s = M!Storage(o)
        /\ \A j \in 1 .. Len(calls) :
             calls[j].out # o /\ \A m \in 1 .. Len(frames[j].slots) : frames[j].slots[m] # M!Storage(o)
  BY <1>2, <1>5, AbsentIs DEF Shape
<1> DEFINE cs == Append(M!Pop(calls), WithLocals(M!Here, Append(M!Here.locals, o)))
           fs == Append(M!Pop(frames), WithSlots(frames[M!Top], Append(frames[M!Top].slots, s)))
<1>7. /\ Shaped(cs, fs) /\ Secure(h, cs, fs) /\ Level(cs) = scratch
      /\ o \in M!Allocations => Unknown(cs, fs, o)
  BY <1>1, <1>5, <1>6, ProvideSecure
<1>8. /\ calls' = Append(cs, M!Function(c, a, o, scratch + 1, saved))
      /\ frames' = Append(fs, M!Prologue(c, a, o))
  BY <1>1 DEF Provides
<1> HIDE DEF cs, fs
<1>9. c \in DOMAIN h
  BY <1>1, <1>2, <1>5, ValuesHeld DEF M!IsManaged
<1>10. /\ a \in Nat /\ a <= M!Scratch(scratch) /\ (a \in M!Allocations => a \in DOMAIN h)
  BY <1>1, <1>2, <1>5, ValuesHeld
<1>11. a <= M!Scratch(Level(cs) + 1) /\ scratch + 1 \in Nat
  BY <1>3, <1>7, <1>10 DEF M!Scratch, M!Assumption
<1>12. UNCHANGED <<demand, feedback, service>>
  BY <1>1 DEF M!report, M!export
<1> QED
  BY <1>1, <1>4, <1>5, <1>7, <1>8, <1>9, <1>10, <1>11, <1>12, EnterMemory

LEMMA NoneSecure ==
  ASSUME NEW h, NEW fs
  PROVE  Secure(h, <<>>, fs)
<1> DEFINE e == <<>>
<1>1. Len(e) = 0
  OBVIOUS
<1> HIDE DEF e
<1>2. Secure(h, e, fs)
  BY <1>1 DEF Secure
<1> QED
  BY <1>2 DEF e

LEMMA FinishMemory ==
  ASSUME M!Assumption, Shape, Memory, NEW v \in M!Values(M!Here), M!Finish(v)
  PROVE  Memory'
<1>1. /\ calls # <<>> /\ demand' = [demand EXCEPT ![M!Here.demand] = M!Ready(v)]
      /\ UNCHANGED <<heap, feedback, service>>
  BY DEF M!Finish, M!Able, M!report, M!export
<1>2. Heaps(heap) /\ Secure(heap, calls, frames) /\ Rooted(heap, demand, feedback, service)
  BY DEF Memory
<1>3. v \in M!Allocations
  BY <1>1, FinishStep
<1>4. v \in DOMAIN heap
  BY <1>1, <1>2, <1>3, ValuesHeld
<1>5. Rooted(heap, demand', feedback, service)
  <2>1. demand \in [M!Globals -> [state : DemandStates, value : Nat]]
    BY DEF Shape, Demanded
  <2>2. \A x \in M!Globals : demand'[x].value \in {demand[x].value, v}
    BY <1>1, <2>1 DEF M!Ready
  <2> QED
    BY <1>2, <1>4, <2>2 DEF Rooted
<1>6. CASE M!Top = 1
  <2>1. calls' = <<>>
    BY <1>1, <1>6, FinishStep
  <2>2. Secure(heap, calls', frames')
    BY <2>1, NoneSecure
  <2> QED
    BY <1>1, <1>2, <1>5, <2>2 DEF Memory
<1>7. CASE M!Top # 1
  <2> DEFINE p == M!Pop(calls)
             q == M!Pop(frames)
             c == p[Len(p)]
             f == q[Len(p)]
             l == Append(c.locals, v)
             t == Append(f.slots, M!Value(v))
             g == WithLocals(c, l)
             e == WithSlots(f, t)
             k == Len(f.slots)
  <2>1. /\ p # <<>> /\ Edited(c, g, l) /\ Slotted(f, e, t)
        /\ calls' = Append(M!Pop(p), g) /\ frames' = Append(M!Pop(q), e)
    BY <1>1, <1>7, FinishStep
  <2>2. Shaped(p, q)
    BY <1>1, RunningIs
  <2>3. Secure(heap, p, q)
    BY <1>1, <1>2, RunningSafe
  <2> HIDE DEF p, q
  <2>4. c \in GuestCalls /\ f \in RootFrames /\ Atop(M!Pop(p), M!Pop(q), c, f)
    BY <2>1, <2>2, ShapedPop
  <2> DEFINE b == M!Value(v)
  <2>5. b \in RootSlots /\ b.ref = v /\ b.value /\ v \in Nat
    <3>1. v \in Nat
      BY <1>3 DEF M!Allocations
    <3> QED
      BY <3>1, SlotsAre DEF M!Value
  <2> HIDE DEF b
  <2>6. c.locals \in Seq(Nat) /\ f.slots \in Seq(RootSlots) /\ Len(c.locals) = k /\ k \in Nat
    <3> HIDE DEF c, f
    <3> QED
      BY <2>4 DEF GuestCalls, RootFrames, Atop
  <2>7. Len(l) = k + 1 /\ (\A n \in 1 .. k : l[n] = c.locals[n]) /\ l[k + 1] = v
    <3> DEFINE s == c.locals
    <3>1. s \in Seq(Nat) /\ Len(s) = k /\ l = Append(s, v)
      BY <2>6
    <3> HIDE DEF s, l, k
    <3>2. Len(l) = k + 1 /\ (\A n \in 1 .. k : l[n] = s[n]) /\ l[k + 1] = v
      BY <2>5, <3>1, PushIs
    <3> QED
      BY <3>2 DEF s
  <2>8. Len(t) = k + 1 /\ (\A n \in 1 .. k : t[n] = f.slots[n]) /\ t[k + 1] = b
    <3> DEFINE s == f.slots
    <3>1. s \in Seq(RootSlots) /\ Len(s) = k /\ t = Append(s, b)
      BY <2>6 DEF b
    <3> HIDE DEF s, t, k
    <3>2. Len(t) = k + 1 /\ (\A n \in 1 .. k : t[n] = s[n]) /\ t[k + 1] = b
      BY <2>5, <3>1, PushIs
    <3> QED
      BY <3>2 DEF s
  <2>9. Extends(c, f, k, l, t)
    BY <2>6, <2>7, <2>8 DEF Extends
  <2>10. Added(heap, M!Pop(p), c, f, k, l[k + 1], t[k + 1])
    <3>1. Added(heap, M!Pop(p), c, f, k, v, b)
      BY <1>4, <2>5 DEF Added
    <3> QED
      BY <2>7, <2>8, <3>1
  <2>11. c = p[Len(p)] /\ f = q[Len(p)]
    OBVIOUS
  <2> HIDE DEF c, f, l, t, g, e, k
  <2>12. Secure(heap, Append(M!Pop(p), g), Append(M!Pop(q), e))
    BY <1>2, <2>1, <2>2, <2>3, <2>9, <2>10, <2>11, AddSecure
  <2> QED
    BY <1>1, <1>2, <1>5, <2>1, <2>12 DEF Memory
<1> QED
  BY <1>6, <1>7

(* The caller of a call that ends lets its place go, the result is         *)
(* written, and the caller has it again as a value.                        *)
LEMMA ProvidedSecure ==
  ASSUME M!Assumption, NEW h, Heaps(h), NEW p, NEW q, Shaped(p, q), Secure(h, p, q), p # <<>>,
         NEW o \in DOMAIN h, h[o] = {}, NEW x, x \subseteq DOMAIN h,
         Linked(p, q, o), Unknown(p, q, o)
  PROVE  Secure([h EXCEPT ![o] = x], p, Append(M!Pop(q), Provided(q[Len(p)], o)))
<1> DEFINE c == p[Len(p)]
           f == q[Len(p)]
           k == Len(f.slots) - 1
           l == SubSeq(c.locals, 1, k)
           t == SubSeq(f.slots, 1, k)
           g == WithLocals(c, l)
           e == WithSlots(f, t)
           y == Append(M!Pop(f.slots), M!Value(o))
<1>1. /\ p \in Seq(GuestCalls) /\ q \in Seq(RootFrames) /\ Len(q) = Len(p)
      /\ Shaped(M!Pop(p), M!Pop(q)) /\ Atop(M!Pop(p), M!Pop(q), c, f)
      /\ c \in GuestCalls /\ f \in RootFrames
      /\ p = Append(M!Pop(p), c) /\ q = Append(M!Pop(q), f)
  <2>1. Shaped(p, q)
    OBVIOUS
  <2>2. p \in Seq(GuestCalls) /\ q \in Seq(RootFrames) /\ Len(q) = Len(p)
    BY <2>1 DEF Shaped
  <2> QED
    BY <2>2, ShapedPop
<1>2. /\ c.locals \in Seq(Nat) /\ f.slots \in Seq(RootSlots) /\ Len(c.locals) = Len(f.slots)
      /\ Len(f.slots) \in Nat
  <2> HIDE DEF c, f
  <2> QED
    BY <1>1 DEF GuestCalls, RootFrames, Atop
<1>3. /\ f.slots # <<>> /\ c.locals[Len(c.locals)] = o
      /\ f.slots[Len(f.slots)] = M!Storage(o)
  BY DEF Linked
<1>4. Len(f.slots) >= 1
  <2> DEFINE s == f.slots
  <2>1. s \in Seq(RootSlots) /\ s # <<>>
    BY <1>2, <1>3
  <2> HIDE DEF s
  <2>2. Len(s) >= 1
    BY <2>1, PopIs
  <2> QED
    BY <2>2 DEF s
<1>5. k \in Nat /\ k \in 0 .. Len(f.slots) /\ k + 1 = Len(f.slots)
  BY <1>2, <1>4
<1>6. l \in Seq(Nat) /\ Len(l) = k /\ \A n \in 1 .. k : l[n] = c.locals[n]
  <2> DEFINE s == c.locals
             m == k
  <2>1. s \in Seq(Nat) /\ m \in 0 .. Len(s) /\ l = SubSeq(s, 1, m)
    BY <1>2, <1>5
  <2> HIDE DEF s, m, l
  <2>2. l \in Seq(Nat) /\ Len(l) = m /\ \A n \in 1 .. m : l[n] = s[n]
    BY <2>1, PartOf
  <2> QED
    BY <2>2 DEF s, m
<1>7. t \in Seq(RootSlots) /\ Len(t) = k /\ \A n \in 1 .. k : t[n] = f.slots[n]
  <2> DEFINE s == f.slots
             m == k
  <2>1. s \in Seq(RootSlots) /\ m \in 0 .. Len(s) /\ t = SubSeq(s, 1, m)
    BY <1>2, <1>5
  <2> HIDE DEF s, m, t
  <2>2. t \in Seq(RootSlots) /\ Len(t) = m /\ \A n \in 1 .. m : t[n] = s[n]
    BY <2>1, PartOf
  <2> QED
    BY <2>2 DEF s, m
<1>8. /\ Atop(M!Pop(p), M!Pop(q), g, e) /\ Edited(c, g, l) /\ Slotted(f, e, t)
  <2>1. c.demand # M!None => \A n \in 1 .. Len(c.locals) : c.locals[n] \in M!Allocations
    BY <1>1 DEF Atop, Kind
  <2>2. c.demand # M!None => \A n \in 1 .. Len(l) : l[n] \in M!Allocations
    BY <1>2, <1>5, <1>6, <2>1
  <2> HIDE DEF c, f, l, t
  <2> QED
    BY <1>1, <1>6, <1>7, <2>2, AtopLocals
<1>9. M!Value(o) \in RootSlots /\ M!Value(o).ref = o /\ M!Value(o).value /\ M!Storage(o).ref = o
      /\ o \in M!Allocations
  <2>1. o \in M!Allocations /\ o \in Nat
    BY DEF Heaps, M!Allocations
  <2> QED
    BY <2>1, SlotsAre DEF M!Value, M!Storage
<1>10. /\ M!Pop(f.slots) = t
  BY DEF M!Pop
<1>11. /\ Len(y) = k + 1 /\ \A n \in 1 .. k : y[n] = f.slots[n]
       /\ y[k + 1] = M!Value(o) /\ y \in Seq(RootSlots)
  <2> DEFINE b == M!Value(o)
             tt == t
  <2>1. b \in RootSlots /\ tt \in Seq(RootSlots) /\ Len(tt) = k /\ \A n \in 1 .. k : tt[n] = f.slots[n]
    BY <1>7, <1>9
  <2>2. y = Append(tt, b)
    BY <1>10
  <2> HIDE DEF b, tt, y
  <2>3. /\ Len(y) = k + 1 /\ \A n \in 1 .. k : y[n] = f.slots[n]
        /\ y[k + 1] = b /\ y \in Seq(RootSlots)
    BY <2>1, <2>2, PushIs
  <2> QED
    BY <2>3 DEF b
<1>12. Provided(f, o) = WithSlots(f, y)
  BY DEF Provided
<1>13. l = SubSeq(c.locals, 1, k) /\ t = SubSeq(f.slots, 1, k) /\ c = p[Len(p)] /\ f = q[Len(p)]
  OBVIOUS
<1> HIDE DEF c, f, k, l, t, g, e, y
<1> DEFINE cs == Append(M!Pop(p), g)
           fs == Append(M!Pop(q), e)
<1>14. Secure(h, cs, fs)
  BY <1>5, <1>8, <1>13, CutSecure
<1>15. g \in GuestCalls /\ e \in RootFrames /\ g.out = c.out /\ e.slots = t /\ g.locals = l
  BY <1>8 DEF Edited, Slotted
<1>16. Shaped(cs, fs)
  BY <1>1, <1>8, <1>15, ShapedPush
<1>17. /\ M!Pop(p) \in Seq(GuestCalls) /\ Len(M!Pop(p)) = Len(p) - 1 /\ Len(p) \in Nat /\ Len(p) >= 1
       /\ \A j \in 1 .. Len(p) - 1 : M!Pop(p)[j] = p[j]
  BY <1>1, PopIs
<1>18. /\ M!Pop(q) \in Seq(RootFrames) /\ Len(M!Pop(q)) = Len(p) - 1
       /\ \A j \in 1 .. Len(p) - 1 : M!Pop(q)[j] = q[j]
  <2>1. q # <<>>
    BY <1>1, <1>17
  <2> QED
    BY <1>1, <2>1, PopIs
<1>19. /\ Len(cs) = Len(p) /\ \A j \in 1 .. Len(p) - 1 : cs[j] = p[j]
       /\ cs[Len(p)] = g /\ M!Pop(cs) = M!Pop(p)
  <2>1. /\ Len(cs) = Len(M!Pop(p)) + 1 /\ \A j \in 1 .. Len(M!Pop(p)) : cs[j] = M!Pop(p)[j]
        /\ cs[Len(M!Pop(p)) + 1] = g
    BY <1>15, <1>17, PushIs
  <2>2. M!Pop(cs) = M!Pop(p)
    BY <1>15, <1>17, Prefixes
  <2> HIDE DEF cs
  <2> QED
    BY <1>17, <2>1, <2>2
<1>20. /\ \A j \in 1 .. Len(p) - 1 : fs[j] = q[j]
       /\ fs[Len(p)] = e /\ M!Pop(fs) = M!Pop(q)
  <2>1. /\ \A j \in 1 .. Len(M!Pop(q)) : fs[j] = M!Pop(q)[j]
        /\ fs[Len(M!Pop(q)) + 1] = e
    BY <1>15, <1>18, PushIs
  <2>2. M!Pop(fs) = M!Pop(q)
    BY <1>15, <1>18, Prefixes
  <2> HIDE DEF fs
  <2> QED
    BY <1>17, <1>18, <2>1, <2>2
<1> HIDE DEF cs, fs
<1>21. \A j \in 1 .. Len(cs) : j \in 1 .. Len(p) - 1 \/ j = Len(p)
  BY <1>17, <1>19
<1>22. \A j \in 1 .. Len(cs) : cs[j].out # o
  <2>1. \A j \in 1 .. Len(p) : p[j].out # o
    BY DEF Unknown
  <2>2. Len(p) \in 1 .. Len(p) /\ \A j \in 1 .. Len(p) - 1 : j \in 1 .. Len(p)
    BY <1>17
  <2> QED
    BY <1>13, <1>15, <1>19, <1>21, <2>1, <2>2
<1>23. ASSUME NEW j \in 1 .. Len(cs), NEW m \in 1 .. Len(fs[j].slots)
       PROVE  fs[j].slots[m] # M!Storage(o)
  <2>1. CASE j \in 1 .. Len(p) - 1
    <3>1. fs[j] = q[j] /\ j \in 1 .. Len(p) /\ j # Len(p)
      BY <1>17, <1>20, <2>1
    <3> QED
      BY <1>23, <3>1 DEF Unknown
  <2>2. CASE j = Len(p)
    <3>1. fs[j].slots = t /\ m \in 1 .. k
      BY <1>7, <1>15, <1>20, <1>23, <2>2
    <3>2. t[m] = f.slots[m] /\ m \in 1 .. Len(f.slots) /\ m # Len(f.slots)
      BY <1>2, <1>5, <1>7, <3>1
    <3>3. Len(p) \in 1 .. Len(p)
      BY <1>17
    <3> QED
      BY <1>13, <3>1, <3>2, <3>3 DEF Unknown
  <2> QED
    BY <1>21, <2>1, <2>2
<1> DEFINE w == [h EXCEPT ![o] = x]
<1>24. Heaps(w) /\ Secure(w, cs, fs) /\ DOMAIN w = DOMAIN h
  BY <1>14, <1>16, <1>22, <1>23, SecureWrite
<1> HIDE DEF w
<1>25. Edited(g, c, c.locals) /\ Slotted(e, WithSlots(f, y), y)
  <2>1. Edited(g, c, c.locals)
    BY <1>1, <1>8 DEF Edited
  <2>2. Slotted(f, WithSlots(f, y), y)
    BY <1>1, <1>11 DEF Slotted, WithSlots, RootFrames
  <2> QED
    BY <1>8, <2>1, <2>2 DEF Slotted
<1>26. Extends(g, e, k, c.locals, y)
  <2>1. k <= Len(e.slots) /\ Len(c.locals) = k + 1
    BY <1>2, <1>5, <1>7, <1>15
  <2> QED
    BY <1>5, <1>6, <1>7, <1>11, <1>15, <2>1 DEF Extends
<1>27. Added(w, M!Pop(cs), g, e, k, c.locals[k + 1], y[k + 1])
  <2>1. c.locals[k + 1] = o /\ y[k + 1] = M!Value(o)
    BY <1>2, <1>3, <1>5, <1>11
  <2>2. Added(w, M!Pop(cs), g, e, k, o, M!Value(o))
    BY <1>9, <1>24 DEF Added
  <2> QED
    BY <2>1, <2>2
<1>28. cs # <<>> /\ g = cs[Len(cs)] /\ e = fs[Len(cs)]
  BY <1>17, <1>19, <1>20
<1>29. Secure(w, Append(M!Pop(cs), c), Append(M!Pop(fs), WithSlots(f, y)))
  BY <1>16, <1>24, <1>25, <1>26, <1>27, <1>28, AddSecure
<1> QED
  BY <1>1, <1>12, <1>13, <1>19, <1>20, <1>29 DEF w

LEMMA LeaveSecure ==
  ASSUME M!Assumption, Shape, Heaps(heap), Secure(heap, calls, frames), calls # <<>>,
         M!Here.demand = M!None, M!LeaveFrames(M!Here.out), NEW x, x \subseteq DOMAIN heap,
         heap' = IF M!IsScratch(M!Here.out) THEN heap ELSE [heap EXCEPT ![M!Here.out] = x]
  PROVE  /\ Heaps(heap') /\ Secure(heap', calls', frames') /\ DOMAIN heap' = DOMAIN heap
         /\ M!Here.out \in DOMAIN heap \/ M!IsScratch(M!Here.out)
<1> DEFINE o == M!Here.out
           p == M!Pop(calls)
           q == M!Pop(frames)
<1>1. /\ calls' = p /\ (M!IsScratch(o) \/ o \in M!Allocations)
      /\ M!Top = 1 => calls' = <<>>
      /\ M!Top = 1 \/ M!IsScratch(o) => frames' = q
  BY LeaveStep
<1>2. ~(M!Top = 1 \/ M!IsScratch(o)) =>
        /\ p # <<>> /\ Linked(p, q, o)
        /\ frames' = Append(M!Pop(q), Provided(q[Len(p)], o))
  BY LeaveStep
<1>3. /\ Secure(heap, p, q) /\ Apart(p, q, M!Here, frames[M!Top])
      /\ Safe(heap, M!Here, frames[M!Top], scratch)
  BY RunningSafe
<1>4. Shaped(p, q)
  BY RunningIs
<1>5. o \in M!Allocations => o \in DOMAIN heap /\ heap[o] = {} /\ Unknown(p, q, o)
  BY <1>3 DEF Safe, Apart, Unknown
<1>6. o \in DOMAIN heap \/ M!IsScratch(o)
  BY <1>1, <1>5
<1> HIDE DEF o, p, q
<1>7. CASE M!IsScratch(o)
  <2>1. heap' = heap
    BY <1>7 DEF o
  <2> QED
    BY <1>1, <1>3, <1>6, <1>7, <2>1 DEF o
<1>8. CASE ~M!IsScratch(o)
  <2> DEFINE w == [heap EXCEPT ![o] = x]
  <2>1. heap' = w /\ o \in DOMAIN heap /\ heap[o] = {} /\ Unknown(p, q, o)
    BY <1>1, <1>5, <1>8 DEF o
  <2>2. Heaps(w) /\ DOMAIN w = DOMAIN heap
    BY <2>1, WriteIs
  <2>3. CASE M!Top = 1
    <3>1. Secure(w, <<>>, frames')
      BY NoneSecure
    <3> HIDE DEF w
    <3> QED
      BY <1>1, <1>6, <2>1, <2>2, <2>3, <3>1 DEF o
  <2>4. CASE M!Top # 1
    <3>1. p # <<>> /\ Linked(p, q, o) /\ frames' = Append(M!Pop(q), Provided(q[Len(p)], o))
      BY <1>2, <1>8, <2>4
    <3>2. Secure(w, p, Append(M!Pop(q), Provided(q[Len(p)], o)))
      BY <1>3, <1>4, <2>1, <3>1, ProvidedSecure
    <3> HIDE DEF w
    <3> QED
      BY <1>1, <1>6, <2>1, <2>2, <3>1, <3>2 DEF o
  <2> QED
    BY <2>3, <2>4
<1> QED
  BY <1>7, <1>8

(* What a capture returns, and the rows that stay.                         *)
LEMMA SettledRoots ==
  ASSUME Shape, Memory, calls # <<>>, M!Settle(M!Here.saved)
  PROVE  M!Reports(M!Here.saved) \subseteq DOMAIN heap /\ M!Elements(feedback') \subseteq DOMAIN heap
<1>1. Heaps(heap) /\ M!Elements(feedback) \subseteq DOMAIN heap
  BY DEF Memory, Rooted
<1>2. \A i \in 1 .. Len(feedback) : feedback[i] \in DOMAIN heap
  BY <1>1 DEF M!Elements
<1>3. feedback \in Seq(Nat) /\ Len(feedback) \in Nat
  BY DEF Shape
<1>4. M!Here.saved.rows \in Nat
  <2>1. M!Here \in GuestCalls
    BY RunningIs
  <2> QED
    BY <2>1 DEF GuestCalls
<1>5. M!Reports(M!Here.saved) \subseteq DOMAIN heap
  <2>1. \A i \in M!Here.saved.rows + 1 .. Len(feedback) : i \in 1 .. Len(feedback)
    BY <1>3, <1>4
  <2>2. \A i \in 1 .. Len(feedback) : heap[feedback[i]] \subseteq DOMAIN heap
    BY <1>1, <1>2 DEF Heaps
  <2> QED
    BY <2>1, <2>2 DEF M!Reports
<1>6. M!Elements(feedback') \subseteq DOMAIN heap
  <2>1. CASE M!Here.saved.on
    <3> DEFINE n == M!Here.saved.rows
    <3>1. n <= Len(feedback)
      BY <2>1, PoppedIs DEF Shape
    <3>2. feedback' = SubSeq(feedback, 1, n) /\ n \in 0 .. Len(feedback)
      BY <1>3, <1>4, <2>1, <3>1 DEF M!Settle
    <3> HIDE DEF n
    <3>3. Len(feedback') = n /\ \A i \in 1 .. n : feedback'[i] = feedback[i]
      BY <1>3, <3>2, PartOf
    <3>4. \A i \in 1 .. n : i \in 1 .. Len(feedback)
      BY <3>2
    <3> QED
      BY <1>2, <3>3, <3>4 DEF M!Elements
  <2>2. CASE ~M!Here.saved.on
    BY <1>1, <2>2 DEF M!Settle, M!Elements
  <2> QED
    BY <2>1, <2>2
<1> QED
  BY <1>5, <1>6

LEMMA ReturnMemory ==
  ASSUME M!Assumption, Shape, Memory, NEW v \in M!Values(M!Here), M!Return(v)
  PROVE  Memory'
<1>1. /\ calls # <<>> /\ M!Here.demand = M!None /\ M!LeaveFrames(M!Here.out) /\ M!Settle(M!Here.saved)
      /\ UNCHANGED <<demand, service>>
  BY DEF M!Return, M!Able
<1>2. Heaps(heap) /\ Secure(heap, calls, frames) /\ Rooted(heap, demand, feedback, service)
  BY DEF Memory
<1>3. M!Reports(M!Here.saved) \subseteq DOMAIN heap /\ M!Elements(feedback') \subseteq DOMAIN heap
  BY <1>1, SettledRoots
<1> DEFINE x == (IF M!IsScratch(v) THEN {} ELSE heap[v]) \cup M!Reports(M!Here.saved)
<1>4. heap' = IF M!IsScratch(M!Here.out) THEN heap ELSE [heap EXCEPT ![M!Here.out] = x]
  BY DEF M!Return
<1>5. x \subseteq DOMAIN heap
  <2>1. ~M!IsScratch(v) => v \in DOMAIN heap
    <3>1. /\ v \in Nat /\ v # M!None
          /\ v \in M!Allocations => v \in DOMAIN heap
      BY <1>1, <1>2, ValuesHeld
    <3> QED
      BY <3>1 DEF M!IsScratch, M!Allocations, M!None, M!Assumption
  <2> QED
    BY <1>2, <1>3, <2>1 DEF Heaps
<1> HIDE DEF x
<1>6. Heaps(heap') /\ Secure(heap', calls', frames') /\ DOMAIN heap' = DOMAIN heap
  BY <1>1, <1>2, <1>4, <1>5, LeaveSecure
<1>7. Rooted(heap', demand', feedback', service')
  BY <1>1, <1>2, <1>3, <1>6 DEF Rooted
<1> QED
  BY <1>6, <1>7 DEF Memory

LEMMA RaisedAlive ==
  ASSUME Rooted(heap, demand, feedback, service), Raised
  PROVE  error \in DOMAIN heap \cup {M!None}
<1>1. CASE error \in M!Elements(feedback)
  BY <1>1 DEF Rooted
<1>2. CASE \E d \in M!Globals : demand[d] = M!Failed(error)
  BY <1>2 DEF Rooted, M!Failed
<1> QED
  BY <1>1, <1>2 DEF Raised

LEMMA UnwindMemory ==
  ASSUME M!Assumption, Shape, Memory, Errors, M!Unwind
  PROVE  Memory'
<1>1. calls # <<>> /\ failing /\ UNCHANGED service
  BY DEF M!Unwind
<1>2. Heaps(heap) /\ Secure(heap, calls, frames) /\ Rooted(heap, demand, feedback, service)
  BY DEF Memory
<1>3. Secure(heap, M!Pop(calls), M!Pop(frames))
  BY <1>1, <1>2, RunningSafe
<1>4. CASE M!Here.demand # M!None
  <2>1. /\ demand' = [demand EXCEPT ![M!Here.demand] = M!Failed(error)]
        /\ calls' = M!Pop(calls) /\ frames' = M!Pop(frames) /\ UNCHANGED <<heap, feedback>>
    BY <1>4 DEF M!Unwind
  <2>2. error \in DOMAIN heap \cup {M!None}
    BY <1>1, <1>2, RaisedAlive DEF Errors
  <2>3. demand \in [M!Globals -> [state : DemandStates, value : Nat]]
    BY DEF Shape, Demanded
  <2>4. \A y \in M!Globals : demand'[y].value \in {demand[y].value, error}
    BY <2>1, <2>3 DEF M!Failed
  <2>5. Rooted(heap, demand', feedback, service)
    BY <1>2, <2>2, <2>4 DEF Rooted
  <2> QED
    BY <1>1, <1>2, <1>3, <2>1, <2>5 DEF Memory
<1>5. CASE M!Here.demand = M!None
  <2>1. M!Settle(M!Here.saved) /\ UNCHANGED demand
    BY <1>5 DEF M!Unwind
  <2>2. M!Reports(M!Here.saved) \subseteq DOMAIN heap /\ M!Elements(feedback') \subseteq DOMAIN heap
    BY <1>1, <2>1, SettledRoots
  <2>3. Heaps(heap') /\ Secure(heap', calls', frames') /\ DOMAIN heap' = DOMAIN heap
    <3>1. CASE M!Here.saved.on
      <4>1. /\ heap' = [heap EXCEPT ![M!Here.out] = M!Reports(M!Here.saved)]
            /\ M!LeaveFrames(M!Here.out)
        BY <1>5, <3>1 DEF M!Unwind
      <4>2. M!Here.out \in M!Allocations
        BY <1>1, <3>1, RunningIs DEF Atop
      <4>3. ~M!IsScratch(M!Here.out)
        BY <4>2 DEF M!IsScratch, M!Allocations, M!Assumption
      <4> DEFINE x == M!Reports(M!Here.saved)
      <4>4. heap' = IF M!IsScratch(M!Here.out) THEN heap ELSE [heap EXCEPT ![M!Here.out] = x]
        BY <4>1, <4>3
      <4> HIDE DEF x
      <4> QED
        BY <1>1, <1>2, <1>5, <2>2, <4>1, <4>4, LeaveSecure DEF x
    <3>2. CASE ~M!Here.saved.on
      <4>1. calls' = M!Pop(calls) /\ frames' = M!Pop(frames) /\ UNCHANGED heap
        BY <1>5, <3>2 DEF M!Unwind
      <4> QED
        BY <1>2, <1>3, <4>1
    <3> QED
      BY <3>1, <3>2
  <2>4. Rooted(heap', demand', feedback', service')
    BY <1>1, <1>2, <2>1, <2>2, <2>3 DEF Rooted
  <2> QED
    BY <2>3, <2>4 DEF Memory
<1> QED
  BY <1>4, <1>5

-----------------------------------------------------------------------------
(* The result an export has still to take: it is there once the outermost  *)
(* call returned, and the initialization has none, for what it runs first  *)
(* is an evaluation.                                                       *)
First(cs) == cs # <<>> => cs[1].demand # M!None

Results ==
  /\ ~M!Idle /\ result # M!None => M!AtRest /\ job # "prepare" /\ result \in DOMAIN heap
  /\ M!Idle /\ result # M!None => service # M!NoService
  /\ job = "run" => service # M!NoService
  /\ job = "prepare" => First(calls)

LEMMA FirstIs ==
  ASSUME NEW cs \in Seq(GuestCalls), NEW g \in GuestCalls
  PROVE  /\ First(Append(cs, g)) <=> IF cs = <<>> THEN g.demand # M!None ELSE cs[1].demand # M!None
         /\ First(cs) => First(M!Pop(cs))
         /\ cs # <<>> /\ First(cs) /\ g.demand = cs[Len(cs)].demand => First(Append(M!Pop(cs), g))
<1> DEFINE e == <<>>
<1>1. ASSUME NEW s \in Seq(GuestCalls)
      PROVE  First(Append(s, g)) <=> IF s = e THEN g.demand # M!None ELSE s[1].demand # M!None
  <2> DEFINE t == Append(s, g)
  <2>1. /\ t # e /\ Len(s) \in Nat /\ \A i \in 1 .. Len(s) : t[i] = s[i]
        /\ t[Len(s) + 1] = g
    BY <1>1, PushIs
  <2>2. (s = e <=> Len(s) = 0)
    BY <1>1
  <2> HIDE DEF t, e
  <2>3. t[1] = IF s = e THEN g ELSE s[1]
    <3>1. s # e => 1 \in 1 .. Len(s)
      BY <2>1, <2>2
    <3>2. s = e => Len(s) + 1 = 1
      BY <2>2
    <3> QED
      BY <2>1, <3>1, <3>2
  <2> QED
    BY <2>1, <2>3 DEF First, t, e
<1>2. cs # e => /\ M!Pop(cs) \in Seq(GuestCalls) /\ Len(cs) \in Nat /\ Len(cs) >= 1
                /\ Len(M!Pop(cs)) = Len(cs) - 1
                /\ \A i \in 1 .. Len(cs) - 1 : M!Pop(cs)[i] = cs[i]
                /\ (M!Pop(cs) = e <=> Len(cs) = 1)
  <2> SUFFICES ASSUME cs # e
               PROVE  /\ M!Pop(cs) \in Seq(GuestCalls) /\ Len(cs) \in Nat /\ Len(cs) >= 1
                      /\ Len(M!Pop(cs)) = Len(cs) - 1
                      /\ \A i \in 1 .. Len(cs) - 1 : M!Pop(cs)[i] = cs[i]
                      /\ (M!Pop(cs) = e <=> Len(cs) = 1)
    OBVIOUS
  <2>1. /\ M!Pop(cs) \in Seq(GuestCalls) /\ Len(cs) \in Nat /\ Len(cs) >= 1
        /\ Len(M!Pop(cs)) = Len(cs) - 1
        /\ \A i \in 1 .. Len(cs) - 1 : M!Pop(cs)[i] = cs[i]
    BY PopIs
  <2>2. \A s \in Seq(GuestCalls) : s = e <=> Len(s) = 0
    OBVIOUS
  <2> HIDE DEF e
  <2> QED
    BY <2>1, <2>2
<1>3. cs = e => M!Pop(cs) = e
  BY DEF M!Pop
<1> HIDE DEF e
<1>4. cs # e /\ M!Pop(cs) # e => M!Pop(cs)[1] = cs[1]
  <2> SUFFICES ASSUME cs # e, M!Pop(cs) # e PROVE M!Pop(cs)[1] = cs[1]
    OBVIOUS
  <2>1. 1 \in 1 .. Len(cs) - 1
    BY <1>2
  <2> QED
    BY <1>2, <2>1
<1>5. First(cs) => First(M!Pop(cs))
  BY <1>3, <1>4 DEF First, e
<1>6. cs # e /\ First(cs) /\ g.demand = cs[Len(cs)].demand => First(Append(M!Pop(cs), g))
  <2> SUFFICES ASSUME cs # e, First(cs), g.demand = cs[Len(cs)].demand
               PROVE  First(Append(M!Pop(cs), g))
    OBVIOUS
  <2>1. First(Append(M!Pop(cs), g)) <=>
          IF M!Pop(cs) = e THEN g.demand # M!None ELSE M!Pop(cs)[1].demand # M!None
    BY <1>1, <1>2
  <2>2. cs[1].demand # M!None
    BY DEF First, e
  <2> QED
    BY <1>2, <1>4, <2>1, <2>2
<1> QED
  BY <1>1, <1>5, <1>6 DEF e

LEMMA RunningResults ==
  ASSUME Results, calls # <<>>, job # "none", result' \in {result, M!None},
         UNCHANGED <<service, job>>, job = "prepare" => First(calls')
  PROVE  Results'
BY DEF Results, M!Idle, M!AtRest

LEMMA SwapResults ==
  ASSUME Shape, Results, calls # <<>>, job # "none", UNCHANGED M!export, NEW g \in GuestCalls,
         g.demand = M!Here.demand, calls' = Append(M!Pop(calls), g)
  PROVE  Results'
<1>1. calls \in Seq(GuestCalls) /\ g.demand = calls[Len(calls)].demand
  BY RunningIs DEF M!Here, M!Top
<1>2. First(calls) => First(calls')
  BY <1>1, FirstIs
<1> QED
  BY <1>2, RunningResults DEF Results, M!export

LEMMA SameCallsResults ==
  ASSUME Results, calls # <<>>, job # "none", UNCHANGED <<calls, M!export>>
  PROVE  Results'
BY RunningResults DEF Results, M!export

LEMMA CallResults ==
  ASSUME M!Assumption, Shape, Results, NEW c, NEW a, NEW plain \in BOOLEAN, NEW saved,
         saved = M!NoCapture \/ (saved = M!Capturing /\ ~plain), M!Call(c, a, plain, saved)
  PROVE  Results'
<1> DEFINE o == IF plain THEN M!Here.base ELSE M!New
           s == IF plain THEN M!Clear ELSE M!Storage(M!New)
           g == WithLocals(M!Here, Append(M!Here.locals, o))
           u == M!Function(c, a, o, scratch + 1, saved)
           p == M!Pop(calls)
<1>1. /\ calls # <<>> /\ job # "none"
      /\ ~plain => M!Room
      /\ calls' = Append(Append(p, g), u) /\ UNCHANGED M!export
      /\ Shaped(calls', frames')
  <2>1. /\ Provides(o, s, c, a, saved) /\ calls # <<>> /\ M!Able /\ (~plain => M!Room)
        /\ UNCHANGED M!export /\ Shaped(calls', frames')
    BY CallStep
  <2> HIDE DEF o, s
  <2> QED
    BY <2>1 DEF Provides, M!Able
<1>2. M!Here \in GuestCalls /\ p \in Seq(GuestCalls) /\ calls \in Seq(GuestCalls)
  BY <1>1, RunningIs
<1>3. o \in Nat
  <2>1. ~plain => M!New \in Nat
    BY <1>1, NewIs DEF Shape
  <2> QED
    BY <1>2, <2>1 DEF GuestCalls
<1>4. g \in GuestCalls /\ g.demand = M!Here.demand
  <2> DEFINE h == M!Here
             l == Append(h.locals, o)
  <2>1. h \in GuestCalls
    BY <1>2
  <2> HIDE DEF h, o
  <2>2. h.locals \in Seq(Nat)
    BY <2>1 DEF GuestCalls
  <2>3. l \in Seq(Nat)
    BY <1>3, <2>2, PushIs
  <2> HIDE DEF l
  <2>4. WithLocals(h, l) \in GuestCalls /\ WithLocals(h, l).demand = h.demand
    BY <2>1, <2>3 DEF WithLocals, GuestCalls
  <2> QED
    BY <2>4 DEF h, l, o
<1> DEFINE q == Append(p, g)
<1>5. calls' \in Seq(GuestCalls)
  BY <1>1 DEF Shaped
<1> HIDE DEF g, u, o
<1>6. q \in Seq(GuestCalls) /\ q # <<>>
  BY <1>2, <1>4, PushIs
<1>7. First(calls) => First(q)
  <2>1. g.demand = calls[Len(calls)].demand
    BY <1>4 DEF M!Here, M!Top
  <2> QED
    BY <1>1, <1>2, <1>4, <2>1, FirstIs
<1> HIDE DEF q
<1>8. calls' = Append(q, u)
  BY <1>1 DEF q
<1>9. u \in GuestCalls
  <2>1. Len(q) + 1 \in 1 .. Len(calls') /\ calls'[Len(q) + 1] = u
    BY <1>6, <1>8
  <2> QED
    BY <1>5, <2>1
<1>10. First(q) => First(Append(q, u))
  BY <1>6, <1>9, FirstIs DEF First
<1>11. job = "prepare" => First(calls')
  BY <1>7, <1>8, <1>10 DEF Results
<1>12. result' \in {result, M!None} /\ UNCHANGED <<service, job>>
  BY <1>1 DEF M!export
<1> QED
  BY <1>1, <1>11, <1>12, RunningResults

LEMMA StartResults ==
  ASSUME M!Assumption, Shape, Results, NEW d \in M!Globals, M!Start(d), job # "none",
         calls # <<>> \/ job = "prepare"
  PROVE  Results'
<1> DEFINE u == M!Evaluation(d)
<1>1. calls' = Append(calls, u) /\ UNCHANGED M!export
  BY DEF M!Start
<1>2. u \in GuestCalls /\ u.demand # M!None
  BY DEF M!Evaluation, GuestCalls, M!NoCapture, M!None, M!Globals, M!Assumption
<1>3. calls \in Seq(GuestCalls)
  BY DEF Shape, Shaped
<1> HIDE DEF u
<1>4. First(calls) => First(calls')
  BY <1>1, <1>2, <1>3, FirstIs DEF First
<1>5. CASE calls # <<>>
  BY <1>1, <1>4, <1>5, RunningResults DEF Results, M!export
<1>6. CASE job = "prepare"
  <2>1. result = M!None
    BY <1>6 DEF Results, M!Idle
  <2> QED
    BY <1>1, <1>4, <1>6, <2>1 DEF Results, M!export, M!Idle
<1> QED
  BY <1>5, <1>6

LEMMA FinishResults ==
  ASSUME Shape, Results, NEW v \in M!Values(M!Here), M!Finish(v)
  PROVE  Results'
<1>1. calls # <<>> /\ job # "none" /\ UNCHANGED M!export
  BY DEF M!Finish, M!Able
<1>2. M!Pop(calls) \in Seq(GuestCalls) /\ M!Here \in GuestCalls /\ calls \in Seq(GuestCalls)
  BY <1>1, RunningIs
<1>3. First(calls) => First(M!Pop(calls))
  BY <1>2, FirstIs
<1>4. First(M!Pop(calls)) => First(calls')
  <2>1. CASE M!Top = 1
    <3>1. calls' = <<>>
      BY <1>1, <2>1, FinishStep
    <3> QED
      BY <3>1 DEF First
  <2>2. CASE M!Top # 1
    <3> DEFINE p == M!Pop(calls)
               c == p[Len(p)]
               l == Append(c.locals, v)
               g == WithLocals(c, l)
    <3>1. p # <<>> /\ Edited(c, g, l) /\ calls' = Append(M!Pop(p), g)
      BY <1>1, <2>2, FinishStep
    <3>2. g \in GuestCalls /\ g.demand = c.demand
      BY <3>1 DEF Edited
    <3> HIDE DEF g, p
    <3>3. p \in Seq(GuestCalls)
      BY <1>2 DEF p
    <3>4. First(p) => First(Append(M!Pop(p), g))
      BY <3>1, <3>2, <3>3, FirstIs
    <3> QED
      BY <3>1, <3>4 DEF p
  <2> QED
    BY <2>1, <2>2
<1> QED
  BY <1>1, <1>3, <1>4, RunningResults DEF Results, M!export

LEMMA UnwindResults ==
  ASSUME Shape, Results, M!Unwind
  PROVE  Results'
<1>1. /\ calls # <<>> /\ job # "none" /\ calls' = M!Pop(calls) /\ result' = M!None
      /\ UNCHANGED <<service, job>>
  BY DEF M!Unwind, M!LeaveFrames
<1>2. First(calls) => First(calls')
  <2>1. calls \in Seq(GuestCalls) /\ M!Here \in GuestCalls
    BY <1>1, RunningIs
  <2> QED
    BY <1>1, <2>1, FirstIs
<1> QED
  BY <1>1, <1>2, RunningResults DEF Results

LEMMA ReturnResults ==
  ASSUME M!Assumption, Shape, Memory, Results, NEW v \in M!Values(M!Here), M!Return(v)
  PROVE  Results'
<1>1. /\ calls # <<>> /\ job # "none" /\ calls' = M!Pop(calls) /\ M!LeaveFrames(M!Here.out)
      /\ result' = (IF M!Top = 1 THEN M!Here.out ELSE M!None) /\ M!Here.demand = M!None
      /\ UNCHANGED <<service, job>>
  BY DEF M!Return, M!LeaveFrames, M!Able
<1>2. calls \in Seq(GuestCalls) /\ M!Here \in GuestCalls
  BY <1>1, RunningIs
<1>3. First(calls) => First(calls')
  BY <1>1, <1>2, FirstIs
<1>4. CASE M!Top # 1
  BY <1>1, <1>3, <1>4, RunningResults DEF Results
<1>5. CASE M!Top = 1
  <2>1. calls' = <<>>
    BY <1>1, <1>5, LeaveStep
  <2>2. job # "prepare"
    <3>1. M!Here = calls[1]
      BY <1>5 DEF M!Here
    <3> QED
      BY <1>1, <3>1 DEF Results, First
  <2>3. M!Here.out \in DOMAIN heap'
    <3>1. Level(M!Pop(calls)) = 0
      <4>1. M!Pop(calls) \in Seq(GuestCalls) /\ M!Pop(calls) = <<>>
        BY <1>1, <2>1, RunningIs
      <4> QED
        BY <4>1, LevelIs
    <3>2. M!Here.out <= M!Scratch(0)
      BY <1>1, <3>1, RunningIs DEF Atop, Kind
    <3>3. ~M!IsScratch(M!Here.out)
      BY <1>2, <3>2 DEF M!IsScratch, M!Scratch, GuestCalls, M!Assumption
    <3>4. M!Here.out \in DOMAIN heap
      <4>1. Heaps(heap) /\ Secure(heap, calls, frames)
        BY DEF Memory
      <4>2. Safe(heap, M!Here, frames[M!Top], scratch)
        BY <1>1, <4>1, RunningSafe
      <4>3. M!Here.out \in M!Allocations
        BY <1>1, <3>3, LeaveStep
      <4> QED
        BY <4>2, <4>3 DEF Safe
    <3>5. DOMAIN heap' = DOMAIN heap
      BY DEF M!Return
    <3> QED
      BY <3>4, <3>5
  <2> QED
    BY <1>1, <1>3, <1>5, <2>1, <2>2, <2>3 DEF Results, M!Idle, M!AtRest
<1> QED
  BY <1>4, <1>5

-----------------------------------------------------------------------------
(* All of it, the image the host keeps included; and a failure is over     *)
(* before the export returns.                                              *)
Pictured(i) ==
  Heaps(i.heap) /\ Rooted(i.heap, i.demand, i.feedback, [M!NoService EXCEPT !.handler = i.handler])

Calm == failing => ~M!AtRest

Sound == Memory /\ Errors /\ Results /\ Calm /\ Pictured(stored)

(* The exports that return.                                                *)
LEMMA RestSound ==
  ASSUME Shape, Sound, M!AtRest, UNCHANGED <<M!Execution, stored>>, Results',
         {service'.initializer, service'.handler} \cup service'.values
           \subseteq DOMAIN heap \cup {M!None}
  PROVE  Sound'
<1>1. UNCHANGED <<heap, demand, calls, frames, scratch, feedback, error, failing, stored>>
  BY DEF M!Execution, M!stack, M!report
<1>2. Memory'
  BY <1>1 DEF Sound, Memory, Rooted
<1>3. Errors'
  BY <1>1, SameErrors DEF Sound, M!report
<1>4. Calm' /\ Pictured(stored')
  BY <1>1 DEF Sound, Calm, M!AtRest
<1> QED
  BY <1>2, <1>3, <1>4 DEF Sound

LEMMA PrepareSound ==
  ASSUME M!Assumption, Shape, Sound, M!BeginPrepare \/ M!EndPrepare \/ M!FailPrepare
  PROVE  Sound'
<1>1. /\ {service.initializer, service.handler} \cup service.values \subseteq DOMAIN heap \cup {M!None}
      /\ {demand[d].value : d \in M!Globals} \subseteq DOMAIN heap \cup {M!None}
      /\ Results
  BY DEF Sound, Memory, Rooted
<1>2. CASE M!BeginPrepare
  <2>1. /\ M!Idle /\ M!AtRest /\ service = M!NoService /\ job' = "prepare"
        /\ UNCHANGED <<M!Execution, service, result, stored>> /\ calls' = calls
    BY <1>2 DEF M!BeginPrepare, Shape, M!Execution, M!stack
  <2>2. result = M!None
    BY <1>1, <2>1 DEF Results
  <2>3. Results'
    BY <2>1, <2>2 DEF Results, First, M!AtRest, M!Idle
  <2> QED
    BY <1>1, <2>1, <2>3, RestSound
<1>3. CASE M!EndPrepare
  <2>1. /\ job = "prepare" /\ M!AtRest /\ job' = "none"
        /\ service' = [service EXCEPT !.initializer = demand[Demands].value]
        /\ UNCHANGED <<M!Execution, result, stored>> /\ calls' = calls
    BY <1>3 DEF M!EndPrepare, M!Execution, M!stack
  <2>2. result = M!None
    BY <1>1, <2>1 DEF Results, M!Idle
  <2>3. Results'
    BY <2>1, <2>2 DEF Results, M!Idle
  <2>4. Demands \in M!Globals
    BY DEF M!Globals, M!Assumption
  <2>5. /\ service'.initializer = demand[Demands].value /\ service'.handler = service.handler
        /\ service'.values = service.values
    BY <2>1 DEF Shape, GuestServices
  <2> QED
    BY <1>1, <2>1, <2>3, <2>4, <2>5, RestSound
<1>4. CASE M!FailPrepare
  <2>1. /\ job = "prepare" /\ M!AtRest /\ job' = "none"
        /\ UNCHANGED <<M!Execution, service, result, stored>> /\ calls' = calls
    BY <1>4 DEF M!FailPrepare, M!Execution, M!stack
  <2>2. result = M!None
    BY <1>1, <2>1 DEF Results, M!Idle
  <2>3. Results'
    BY <2>1, <2>2 DEF Results, M!Idle
  <2> QED
    BY <1>1, <2>1, <2>3, RestSound
<1> QED
  BY <1>2, <1>3, <1>4

LEMMA EndSound ==
  ASSUME M!Assumption, Shape, Sound, M!EndCreate \/ M!FailCreate \/ M!EndRun
  PROVE  Sound'
<1>1. /\ {service.initializer, service.handler} \cup service.values \subseteq DOMAIN heap \cup {M!None}
      /\ Results
  BY DEF Sound, Memory, Rooted
<1>2. CASE M!EndCreate
  <2>1. /\ job = "create" /\ M!AtRest /\ result # M!None /\ job' = "none"
        /\ service' = [M!NoService EXCEPT !.handler = result]
        /\ UNCHANGED <<M!Execution, result, stored>> /\ calls' = calls
    BY <1>2 DEF M!EndCreate, M!Execution, M!stack
  <2>2. result \in DOMAIN heap
    BY <1>1, <2>1 DEF Results, M!Idle
  <2>3. service'.initializer = M!None /\ service'.handler = result /\ service'.values = {}
    BY <2>1 DEF M!NoService
  <2>4. Results'
    <3>1. service' # M!NoService
      BY <2>1, <2>3 DEF M!NoService
    <3> QED
      BY <2>1, <3>1 DEF Results, M!Idle
  <2> QED
    BY <2>1, <2>2, <2>3, <2>4, RestSound
<1>3. CASE M!FailCreate
  <2>1. /\ M!AtRest /\ result = M!None /\ job' = "none"
        /\ UNCHANGED <<M!Execution, service, result, stored>> /\ calls' = calls
    BY <1>3 DEF M!FailCreate, M!Execution, M!stack
  <2>2. Results'
    BY <2>1 DEF Results, M!Idle
  <2> QED
    BY <1>1, <2>1, <2>2, RestSound
<1>4. CASE M!EndRun
  <2>1. /\ job = "run" /\ M!AtRest /\ job' = "none"
        /\ UNCHANGED <<M!Execution, service, result, stored>> /\ calls' = calls
    BY <1>4 DEF M!EndRun, M!Execution, M!stack
  <2>2. Results'
    BY <1>1, <2>1 DEF Results, M!Idle
  <2> QED
    BY <1>1, <2>1, <2>2, RestSound
<1> QED
  BY <1>2, <1>3, <1>4

(* An instance with the state of an image.                                 *)
LEMMA RestoreSound ==
  ASSUME NEW i, Pictured(i), Pictured(stored'), M!Restore(i)
  PROVE  Sound'
<1>1. /\ heap' = i.heap /\ demand' = i.demand /\ calls' = <<>> /\ frames' = <<>>
      /\ feedback' = i.feedback /\ error' = M!None /\ failing' = FALSE
      /\ service' = [M!NoService EXCEPT !.handler = i.handler]
      /\ job' = "none" /\ result' = M!None
  BY DEF M!Restore
<1>2. Secure(heap', calls', frames')
  BY <1>1, NoneSecure
<1>3. Memory'
  BY <1>1, <1>2 DEF Memory, Pictured
<1>4. Errors'
  BY <1>1, NoCallsErrors
<1>5. Results' /\ Calm'
  BY <1>1 DEF Results, Calm, M!Idle
<1> QED
  BY <1>3, <1>4, <1>5 DEF Sound

LEMMA FreshPictured == Pictured(M!Fresh)
<1> DEFINE h == << >>
           dm == [d \in M!Globals |-> M!Pending]
           fb == <<>>
<1>1. DOMAIN h = {}
  OBVIOUS
<1>2. h = [o \in DOMAIN h |-> h[o]]
  OBVIOUS
<1>3. M!Elements(fb) = {} /\ {dm[d].value : d \in M!Globals} \subseteq {M!None}
  BY DEF M!Elements, M!Pending
<1>4. M!Fresh.heap = h /\ M!Fresh.demand = dm /\ M!Fresh.feedback = fb /\ M!Fresh.handler = M!None
  BY DEF M!Fresh
<1> HIDE DEF h, dm, fb
<1>5. Heaps(h)
  BY <1>1, <1>2 DEF Heaps
<1>6. Rooted(h, dm, fb, [M!NoService EXCEPT !.handler = M!None])
  BY <1>3 DEF Rooted, M!NoService
<1> QED
  BY <1>4, <1>5, <1>6 DEF Pictured

LEMMA BuiltPictured ==
  ASSUME M!Assumption
  PROVE  Pictured(M!Built)
<1> DEFINE h == [o \in {1} |-> {}]
           dm == [d \in M!Globals |-> M!Ready(1)]
           fb == <<>>
<1>1. DOMAIN h = {1} /\ h[1] = {} /\ h = [o \in DOMAIN h |-> h[o]]
  OBVIOUS
<1>2. M!Elements(fb) = {} /\ {dm[d].value : d \in M!Globals} \subseteq {1}
  BY DEF M!Elements, M!Ready
<1>3. M!Built.heap = h /\ M!Built.demand = dm /\ M!Built.feedback = fb /\ M!Built.handler = 1
  BY DEF M!Built
<1>4. 1 \in M!Allocations
  BY DEF M!Allocations, M!Assumption
<1> HIDE DEF h, dm, fb
<1>5. Heaps(h)
  BY <1>1, <1>4 DEF Heaps
<1>6. Rooted(h, dm, fb, [M!NoService EXCEPT !.handler = 1])
  BY <1>1, <1>2 DEF Rooted, M!NoService
<1> QED
  BY <1>3, <1>5, <1>6 DEF Pictured

(* An image is what the handler, the globals and the rows lead to.         *)
LEMMA ImagePictured ==
  ASSUME M!Assumption, Shape, Memory
  PROVE  Pictured(M!Image)
<1> DEFINE R == {service.handler} \cup M!DemandRoots \cup M!Elements(feedback)
           live == M!Reached(heap, R)
           g == [o \in live |-> heap[o]]
<1>1. /\ R \cap DOMAIN heap \subseteq live /\ live \subseteq DOMAIN heap
      /\ \A o \in live : heap[o] \subseteq live
  BY ReachedHas DEF Memory
<1>2. M!Image.heap = g /\ M!Image.demand = demand /\ M!Image.feedback = feedback
      /\ M!Image.handler = service.handler
  BY DEF M!Image
<1>3. R \subseteq DOMAIN heap \cup {M!None}
  BY DEF Memory, Rooted, M!DemandRoots
<1> HIDE DEF live
<1>4. Heaps(g) /\ DOMAIN g = live
  BY <1>1, PartIs DEF Memory
<1> HIDE DEF g
<1>5. M!Elements(feedback) \subseteq DOMAIN heap
  BY DEF Memory, Rooted
<1>6. Rooted(g, demand, feedback, [M!NoService EXCEPT !.handler = service.handler])
  <2>1. {demand[d].value : d \in M!Globals} \subseteq live \cup {M!None}
    BY <1>1, <1>3 DEF M!DemandRoots
  <2>2. M!Elements(feedback) \subseteq live /\ service.handler \in live \cup {M!None}
    BY <1>1, <1>3, <1>5
  <2> QED
    BY <1>4, <2>1, <2>2 DEF Rooted, M!NoService
<1> QED
  BY <1>2, <1>4, <1>6 DEF Pictured

LEMMA InstanceSound ==
  ASSUME M!Assumption, Shape, Sound, M!Reset \/ M!Export \/ M!Import \/ M!Trap
  PROVE  Sound'
<1>1. CASE M!Reset
  <2>1. /\ calls' = <<>> /\ frames' = <<>> /\ feedback' = <<>> /\ error' = M!None
        /\ failing' = FALSE /\ UNCHANGED <<heap, demand, service, job, result, stored>> /\ M!Idle
    BY <1>1 DEF M!Reset, M!ResetFeedback, M!export
  <2>2. Secure(heap', calls', frames')
    BY <2>1, NoneSecure
  <2>3. M!Elements(feedback') = {}
    BY <2>1 DEF M!Elements
  <2>4. Memory'
    BY <2>1, <2>2, <2>3 DEF Sound, Memory, Rooted
  <2>5. Errors'
    BY <2>1, NoCallsErrors
  <2>6. Results' /\ Calm' /\ Pictured(stored')
    BY <2>1 DEF Sound, Results, Calm, M!Idle
  <2> QED
    BY <2>4, <2>5, <2>6 DEF Sound
<1>2. CASE M!Export
  <2> DEFINE i == M!Image
  <2>1. stored' = i /\ M!Restore(i) /\ Pictured(i)
    BY <1>2, ImagePictured DEF M!Export, Sound
  <2> HIDE DEF i
  <2> QED
    BY <2>1, RestoreSound
<1>3. CASE M!Import
  BY <1>3, RestoreSound DEF M!Import, Sound
<1>4. CASE M!Trap
  <2> DEFINE i == M!Fresh
  <2>1. UNCHANGED stored /\ M!Restore(i) /\ Pictured(i) /\ Pictured(stored)
    BY <1>4, FreshPictured DEF M!Trap, Sound
  <2> HIDE DEF i
  <2> QED
    BY <2>1, RestoreSound
<1> QED
  BY <1>1, <1>2, <1>3, <1>4

(* The value of a source.                                                  *)
LEMMA StoreSound ==
  ASSUME M!Assumption, Shape, Sound, M!StoreSource
  PROVE  Sound'
<1>1. PICK h \in M!Afterwards(heap, frames) :
        /\ M!Fits(h) /\ heap' = M!With(h, M!Free(h), {})
        /\ service' = [service EXCEPT !.values = @ \cup {M!Free(h)}]
  BY DEF M!StoreSource
<1> DEFINE o == M!Free(h)
           g == M!With(h, o, {})
<1>2. /\ M!Idle /\ service.initializer # M!None
      /\ UNCHANGED <<demand, calls, frames, scratch, feedback, error, failing, job, result, stored>>
  BY DEF M!StoreSource, M!stack, M!report
<1>3. M!AtRest /\ Shaped(calls, frames) /\ job \in M!Jobs /\ service \in GuestServices
  BY <1>2 DEF Shape
<1>4. /\ Heaps(h) /\ Secure(h, calls, frames) /\ Rooted(h, demand, feedback, service)
  BY <1>3, SweptMemory DEF Sound, Memory
<1>5. o \in M!Allocations /\ o \notin DOMAIN h
  BY <1>1, <1>3, <1>4, FreeIs DEF Heaps
<1>6. heap' = g /\ service'.values = service.values \cup {o}
      /\ service'.initializer = service.initializer /\ service'.handler = service.handler
  BY <1>1, <1>3 DEF GuestServices
<1> HIDE DEF o
<1>7. Heaps(g) /\ DOMAIN g = DOMAIN h \cup {o}
  <2> DEFINE e == {}
  <2>1. e \subseteq DOMAIN h \cup {o} /\ g = M!With(h, o, e)
    OBVIOUS
  <2> HIDE DEF e
  <2> QED
    BY <1>4, <1>5, <2>1, WithIs
<1> HIDE DEF g
<1>8. Rooted(g, demand, feedback, service')
  BY <1>4, <1>6, <1>7 DEF Rooted
<1>9. Secure(g, calls', frames')
  BY <1>2, <1>3, NoneSecure DEF M!AtRest
<1>10. Memory'
  BY <1>2, <1>6, <1>7, <1>8, <1>9 DEF Memory
<1>11. Errors'
  BY <1>2, SameErrors DEF Sound, M!report
<1>12. service' # M!NoService
  BY <1>2, <1>6 DEF M!NoService
<1>13. Results' /\ Calm' /\ Pictured(stored')
  BY <1>2, <1>12 DEF Sound, Results, Calm, M!Idle, M!AtRest
<1> QED
  BY <1>10, <1>11, <1>13 DEF Sound

(* An export that calls: its argument and output, and the frame above them.*)
LEMMA InvokeSound ==
  ASSUME M!Assumption, Shape, Sound, M!AtRest, NEW c \in DOMAIN heap, NEW contents,
         contents \subseteq DOMAIN heap, M!Invoke(c, contents), job' \in {"create", "run"},
         job' = "run" => service # M!NoService, Shaped(calls', frames')
  PROVE  Sound'
<1> DEFINE n == M!New
           h == M!With(heap, n, contents)
           o == M!Free(h)
           x == {}
           g == M!With(h, o, x)
           e == <<>>
           s == M!NoCapture
<1>1. /\ M!Room /\ M!Fits(h) /\ M!Enter(g, e, e, c, n, o, s)
      /\ result' = M!None /\ UNCHANGED <<demand, M!report, service, stored>>
  BY DEF M!Invoke
<1>2. Heaps(heap) /\ Rooted(heap, demand, feedback, service) /\ job \in M!Jobs /\ calls = e
      /\ Shaped(e, e) /\ Level(e) = 0 /\ scratch = 0
  BY AtRestIs DEF Shape, Sound, Memory, M!AtRest
<1>3. n \in M!Allocations /\ n \notin DOMAIN heap
  BY <1>1, <1>2, NewIs DEF Heaps
<1>4. Heaps(h) /\ DOMAIN h = DOMAIN heap \cup {n}
  <2> HIDE DEF n
  <2> QED
    BY <1>2, <1>3, WithIs
<1> HIDE DEF n, h
<1>5. o \in M!Allocations /\ o \notin DOMAIN h /\ o # M!None
  BY <1>1, <1>2, <1>4, FreeIs DEF Heaps
<1> HIDE DEF o
<1>6. Heaps(g) /\ DOMAIN g = DOMAIN h \cup {o} /\ g[o] = x
  BY <1>4, <1>5, WithIs
<1>7. /\ calls' = Append(e, M!Function(c, n, o, scratch + 1, s))
      /\ frames' = Append(e, M!Prologue(c, n, o))
      /\ heap' \in M!Afterwards(g, frames')
  BY <1>1 DEF M!Enter, M!Safepoint
<1>8. Secure(g, e, e)
  BY NoneSecure
<1>9. Len(e) = 0
  OBVIOUS
<1>10. Unknown(e, e, o)
  BY <1>9 DEF Unknown
<1>11. s \in [on : BOOLEAN, rows : Nat, error : Nat]
  BY DEF M!NoCapture, M!None
<1>12. Rooted(g, demand, feedback, service)
  BY <1>2, <1>4, <1>6, RootedMore
<1> HIDE DEF g, e, s
<1>13. /\ c \in DOMAIN g /\ n \in Nat /\ n \in DOMAIN g /\ o \in Nat /\ o \in DOMAIN g /\ g[o] = {}
  BY <1>3, <1>4, <1>5, <1>6 DEF M!Allocations
<1>14. n <= M!Scratch(Level(e) + 1)
  BY <1>2, <1>3 DEF M!Scratch, M!Allocations, M!Assumption
<1>15. scratch + 1 \in Nat
  BY <1>2
<1>16. Memory'
  <2>1. UNCHANGED <<demand, feedback, service>>
    BY <1>1 DEF M!report
  <2> QED
    BY <1>2, <1>6, <1>7, <1>8, <1>10, <1>11, <1>12, <1>13, <1>14, <1>15, <2>1, EnterMemory
<1>17. Errors'
  <2>1. c \in Nat
    BY <1>2 DEF Heaps, M!Allocations
  <2> QED
    BY <2>1, InvokeErrors DEF Sound
<1>18. Results' /\ Calm' /\ Pictured(stored')
  <2>1. ~failing
    BY DEF Sound, Calm
  <2> QED
    BY <1>1, <2>1 DEF Sound, Results, Calm, M!Idle, M!report
<1> QED
  BY <1>16, <1>17, <1>18 DEF Sound

LEMMA BeginSound ==
  ASSUME M!Assumption, Shape, Sound, M!BeginCreate \/ M!BeginRun
  PROVE  Sound'
<1>1. M!AtRest /\ service \in GuestServices /\ Rooted(heap, demand, feedback, service)
      /\ DOMAIN heap \subseteq M!Allocations
  BY DEF Shape, M!BeginCreate, M!BeginRun, Sound, Memory
<1>2. Shape'
  BY BeginShape
<1>3. Shaped(calls', frames')
  BY <1>2 DEF Shape
<1>4. service.values \subseteq DOMAIN heap
  BY <1>1 DEF Rooted, GuestServices, M!Allocations, M!None
<1>5. CASE M!BeginCreate
  <2> DEFINE c == service.initializer
             s == service.values
  <2>1. M!Invoke(c, s) /\ job' = "create" /\ c # M!None
    BY <1>5 DEF M!BeginCreate
  <2>2. c \in DOMAIN heap /\ s \subseteq DOMAIN heap
    BY <1>1, <1>4, <2>1 DEF Rooted
  <2> HIDE DEF c, s
  <2> QED
    BY <1>1, <1>3, <2>1, <2>2, InvokeSound
<1>6. CASE M!BeginRun
  <2> DEFINE c == service.handler
             s == {}
  <2>1. M!Invoke(c, s) /\ job' = "run" /\ c # M!None
    BY <1>6 DEF M!BeginRun
  <2>2. c \in DOMAIN heap /\ s \subseteq DOMAIN heap /\ service # M!NoService
    BY <1>1, <2>1 DEF Rooted, M!NoService
  <2> HIDE DEF c, s
  <2> QED
    BY <1>1, <1>3, <2>1, <2>2, InvokeSound
<1> QED
  BY <1>5, <1>6

(* The steps of compiled code.  The call that runs takes other locals, or  *)
(* is replaced, or stays.                                                  *)
LEMMA SwapSound ==
  ASSUME Shape, Sound, calls # <<>>, job # "none", NEW g \in GuestCalls,
         g.demand = M!Here.demand, g.saved = M!Here.saved,
         calls' = Append(M!Pop(calls), g), StackSame, UNCHANGED <<demand, M!report, M!export>>, Memory'
  PROVE  Sound'
<1>1. Errors'
  BY SwapErrors DEF Sound
<1>2. Results'
  BY SwapResults DEF Sound
<1>3. Calm' /\ Pictured(stored')
  BY DEF Sound, Calm, M!AtRest, StackSame, M!report, M!export
<1> QED
  BY <1>1, <1>2, <1>3 DEF Sound

LEMMA LocalsSound ==
  ASSUME Shape, Sound, calls # <<>>, job # "none", NEW l \in Seq(Nat), NEW s, Edits(l, s),
         StackSame, UNCHANGED <<demand, M!report, M!export>>, Memory'
  PROVE  Sound'
<1> DEFINE h == M!Here
           g == WithLocals(h, l)
<1>1. h \in GuestCalls /\ calls' = Append(M!Pop(calls), g)
  BY RunningIs DEF Edits
<1> HIDE DEF h
<1>2. g \in GuestCalls /\ g.demand = h.demand /\ g.saved = h.saved
  BY <1>1 DEF WithLocals, GuestCalls
<1> HIDE DEF g
<1> QED
  BY <1>1, <1>2, SwapSound DEF h

LEMMA GrowSound ==
  ASSUME Shape, Sound, calls # <<>>, job # "none", NEW r \in Nat, NEW s \in RootSlots,
         M!Here.demand # M!None => r \in M!Allocations, M!Local(r, s),
         UNCHANGED <<demand, M!report, M!export>>, Memory'
  PROVE  Sound'
<1> DEFINE k == M!Here.locals
           l == Append(k, r)
           t == Append(frames[M!Top].slots, s)
<1>1. StackSame /\ Edits(l, t)
  BY LocalStep
<1>2. k \in Seq(Nat)
  <2>1. M!Here \in GuestCalls
    BY RunningIs
  <2> QED
    BY <2>1 DEF GuestCalls
<1> HIDE DEF k, t
<1>3. l \in Seq(Nat)
  BY <1>2, PushIs
<1> HIDE DEF l
<1> QED
  BY <1>1, <1>3, LocalsSound

LEMMA MakeSound ==
  ASSUME M!Assumption, Shape, Sound, NEW v \in M!Values(M!Here) \cup {M!None}, M!Make(v)
  PROVE  Sound'
<1>1. /\ calls # <<>> /\ job # "none" /\ M!Room /\ M!Local(M!New, M!Storage(M!New))
      /\ UNCHANGED <<demand, M!report, M!export>>
  BY DEF M!Make, M!Able
<1>2. M!New \in M!Allocations /\ M!New \in Nat
  BY <1>1, NewIs DEF Shape
<1>3. M!Storage(M!New) \in RootSlots
  BY <1>2, SlotsAre
<1>4. Memory'
  BY MakeMemory DEF Sound
<1> QED
  BY <1>1, <1>2, <1>3, <1>4, GrowSound

LEMMA MakePlainSound ==
  ASSUME M!Assumption, Shape, Sound, M!MakePlain
  PROVE  Sound'
<1>1. /\ calls # <<>> /\ job # "none" /\ M!Here.demand = M!None /\ M!Local(M!Here.base, M!Clear)
      /\ UNCHANGED <<demand, M!report, M!export>>
  BY DEF M!MakePlain, M!Able
<1>2. M!Here.base \in Nat
  <2>1. M!Here \in GuestCalls
    BY <1>1, RunningIs
  <2> QED
    BY <2>1 DEF GuestCalls
<1>3. M!Clear \in RootSlots
  BY SlotsAre
<1>4. Memory'
  BY MakePlainMemory DEF Sound
<1> QED
  BY <1>1, <1>2, <1>3, <1>4, GrowSound

LEMMA LoadSound ==
  ASSUME M!Assumption, Shape, Sound, NEW v, NEW w \in M!Allocations, M!Load(v, w)
  PROVE  Sound'
<1>1. calls # <<>> /\ job # "none" /\ M!Local(w, M!Clear) /\ UNCHANGED <<demand, M!report, M!export>>
  BY DEF M!Load, M!Able
<1>2. w \in Nat /\ M!Clear \in RootSlots
  BY SlotsAre DEF M!Allocations
<1>3. Memory'
  BY LoadMemory DEF Sound
<1> QED
  BY <1>1, <1>2, <1>3, GrowSound

LEMMA UseReadySound ==
  ASSUME M!Assumption, Shape, Sound, NEW d \in M!Globals, M!UseReady(d)
  PROVE  Sound'
<1> DEFINE v == demand[d].value
<1>1. calls # <<>> /\ job # "none" /\ M!Local(v, M!Value(v)) /\ UNCHANGED <<demand, M!report, M!export>>
  BY DEF M!UseReady, M!Able
<1>2. v \in M!Allocations /\ v \in Nat
  BY DEF M!UseReady, Shape, Demanded, M!Allocations
<1>3. Memory'
  BY UseReadyMemory DEF Sound
<1> HIDE DEF v
<1>4. M!Value(v) \in RootSlots
  BY <1>2, SlotsAre
<1> QED
  BY <1>1, <1>2, <1>3, <1>4, GrowSound

LEMMA ReleaseSound ==
  ASSUME M!Assumption, Shape, Sound, NEW k \in Nat, M!Release(k)
  PROVE  Sound'
<1> DEFINE q == M!Here.locals
           v == q[Len(q)]
           p == SubSeq(q, 1, k)
           l == Append(p, v)
           t == Append(SubSeq(frames[M!Top].slots, 1, k), M!SlotOf(v))
<1>1. calls # <<>> /\ job # "none" /\ UNCHANGED <<demand, M!report, M!export>>
  BY DEF M!Release, M!Able
<1>2. /\ StackSame /\ k < Len(q) /\ Len(q) \in Nat /\ v \in Nat /\ Edits(l, t)
  BY <1>1, ReleaseStep
<1>3. q \in Seq(Nat)
  <2>1. M!Here \in GuestCalls
    BY <1>1, RunningIs
  <2> QED
    BY <2>1 DEF GuestCalls
<1>4. Memory'
  BY ReleaseMemory DEF Sound
<1> HIDE DEF q, v, t
<1>5. p \in Seq(Nat)
  BY <1>2, <1>3, PartOf
<1> HIDE DEF p
<1>6. l \in Seq(Nat)
  BY <1>2, <1>5, PushIs
<1> HIDE DEF l
<1> QED
  BY <1>1, <1>2, <1>4, <1>6, LocalsSound

LEMMA DiscardSound ==
  ASSUME M!Assumption, Shape, Sound, NEW k \in Nat, M!Discard(k)
  PROVE  Sound'
<1> DEFINE q == M!Here.locals
           l == SubSeq(q, 1, k)
           t == SubSeq(frames[M!Top].slots, 1, k)
<1>1. calls # <<>> /\ job # "none" /\ k < Len(q) /\ UNCHANGED <<demand, M!report, M!export>>
  BY DEF M!Discard, M!Able
<1>2. q \in Seq(Nat)
  <2>1. M!Here \in GuestCalls
    BY <1>1, RunningIs
  <2> QED
    BY <2>1 DEF GuestCalls
<1>3. k \in 0 .. Len(q)
  BY <1>1, <1>2
<1>4. StackSame /\ Edits(l, t)
  BY <1>1, <1>3, CutStep DEF M!Discard
<1>5. Memory'
  BY DiscardMemory DEF Sound
<1> HIDE DEF q, t
<1>6. l \in Seq(Nat)
  BY <1>2, <1>3, PartOf
<1> HIDE DEF l
<1> QED
  BY <1>1, <1>4, <1>5, <1>6, LocalsSound

LEMMA TailCallSound ==
  ASSUME M!Assumption, Shape, Sound, NEW c, NEW a \in M!Values(M!Here), M!TailCall(c, a)
  PROVE  Sound'
<1> DEFINE h == M!Here
           g == M!Function(c, M!Moved(a), h.out, scratch, h.saved)
<1>1. calls # <<>> /\ job # "none" /\ UNCHANGED <<demand, M!report, M!export>>
  BY DEF M!TailCall, M!Able
<1>2. /\ StackSame /\ c \in M!Values(M!Here) /\ h.demand = M!None /\ M!Moved(a) \in Nat
      /\ calls' = Append(M!Pop(calls), g)
  BY <1>1, TailStep
<1>3. h \in GuestCalls /\ c \in Nat
  BY <1>1, <1>2, RunningIs, ValuesAre
<1>4. scratch \in Nat
  BY <1>1, RunningIs, LevelIs DEF Shape
<1>5. Memory'
  BY TailCallMemory DEF Sound
<1> HIDE DEF h
<1>6. h.out \in Nat /\ h.saved \in [on : BOOLEAN, rows : Nat, error : Nat]
  BY <1>3 DEF GuestCalls
<1>7. g \in GuestCalls
  BY <1>2, <1>3, <1>4, <1>6, FunctionIs
<1>8. g.demand = h.demand /\ g.saved = h.saved
  BY <1>2 DEF M!Function
<1> HIDE DEF g
<1> QED
  BY <1>1, <1>2, <1>5, <1>7, <1>8, SwapSound DEF h

(* The rows and the failures.                                              *)
LEMMA RaiseSound ==
  ASSUME Shape, Sound, calls # <<>>, job # "none", UNCHANGED <<M!stack, M!export>>, Memory', Errors'
  PROVE  Sound'
<1>1. UNCHANGED calls /\ UNCHANGED stored
  BY DEF M!stack, M!export
<1>2. Results'
  BY <1>1, SameCallsResults DEF Sound
<1>3. Calm' /\ Pictured(stored')
  BY <1>1 DEF Sound, Calm, M!AtRest
<1> QED
  BY <1>2, <1>3 DEF Sound

LEMMA WarnSound ==
  ASSUME M!Assumption, Shape, Sound, NEW v \in M!Values(M!Here), M!Warn(v)
  PROVE  Sound'
<1>1. /\ calls # <<>> /\ job # "none" /\ M!Row(v) /\ UNCHANGED <<M!stack, M!export>>
      /\ UNCHANGED <<demand, calls, error, failing>>
  BY DEF M!Warn, M!Able, M!stack
<1>2. Memory'
  BY WarnMemory DEF Sound
<1>3. Errors'
  BY <1>1, RowErrors DEF Sound, Final
<1> QED
  BY <1>1, <1>2, <1>3, RaiseSound

LEMMA FailSound ==
  ASSUME M!Assumption, Shape, Sound, NEW v \in M!Values(M!Here) \cup {M!None}, M!Fail(v)
  PROVE  Sound'
<1>1. /\ calls # <<>> /\ job # "none" /\ M!Row(v) /\ UNCHANGED <<M!stack, M!export>>
      /\ error' = M!New /\ failing' = TRUE /\ UNCHANGED <<demand, calls>>
  BY DEF M!Fail, M!Able, M!stack
<1>2. Memory'
  BY FailMemory DEF Sound
<1>3. Errors'
  BY <1>1, RowErrors DEF Sound, Final
<1> QED
  BY <1>1, <1>2, <1>3, RaiseSound

LEMMA UseFailedSound ==
  ASSUME Shape, Sound, NEW d \in M!Globals, M!UseFailed(d)
  PROVE  Sound'
<1>1. calls # <<>> /\ job # "none" /\ UNCHANGED <<M!stack, M!export>>
  BY DEF M!UseFailed, M!Able
<1>2. Memory' /\ Errors'
  BY UseFailedMemory, UseFailedErrors DEF Sound
<1> QED
  BY <1>1, <1>2, RaiseSound

LEMMA UseRunningSound ==
  ASSUME M!Assumption, Shape, Sound, NEW d \in M!Globals, M!UseRunning(d)
  PROVE  Sound'
<1> DEFINE n == M!None
<1>1. /\ calls # <<>> /\ job # "none" /\ M!Row(n) /\ UNCHANGED <<M!stack, M!export>>
      /\ error' = M!New /\ failing' = TRUE /\ UNCHANGED calls
      /\ demand[d].state = "running" /\ demand' = [demand EXCEPT ![d] = M!Failed(M!New)]
  BY DEF M!UseRunning, M!Able, M!stack
<1>2. Memory'
  BY UseRunningMemory DEF Sound
<1>3. Final
  <2>1. DOMAIN demand = M!Globals
    BY DEF Shape, Demanded
  <2> QED
    BY <1>1, <2>1 DEF Final
<1> HIDE DEF n
<1>4. Errors'
  BY <1>1, <1>3, RowErrors DEF Sound
<1> QED
  BY <1>1, <1>2, <1>4, RaiseSound

(* The globals and the calls.                                              *)
LEMMA StartSound ==
  ASSUME M!Assumption, Shape, Sound, NEW d \in M!Globals, M!Start(d), job # "none", ~failing,
         calls # <<>> \/ job = "prepare"
  PROVE  Sound'
<1>1. UNCHANGED <<failing, stored>>
  BY DEF M!Start, M!report, M!export
<1>2. Memory' /\ Errors' /\ Results'
  BY StartMemory, StartErrors, StartResults DEF Sound
<1>3. Calm' /\ Pictured(stored')
  BY <1>1 DEF Sound, Calm
<1> QED
  BY <1>2, <1>3 DEF Sound

LEMMA FinishSound ==
  ASSUME M!Assumption, Shape, Sound, NEW v \in M!Values(M!Here), M!Finish(v)
  PROVE  Sound'
<1>1. ~failing /\ UNCHANGED <<failing, stored>>
  BY DEF M!Finish, M!Able, M!report, M!export
<1>2. Memory' /\ Errors' /\ Results'
  BY FinishMemory, FinishErrors, FinishResults DEF Sound
<1>3. Calm' /\ Pictured(stored')
  BY <1>1 DEF Sound, Calm
<1> QED
  BY <1>2, <1>3 DEF Sound

LEMMA ReturnSound ==
  ASSUME M!Assumption, Shape, Sound, NEW v \in M!Values(M!Here), M!Return(v)
  PROVE  Sound'
<1>1. ~failing /\ UNCHANGED <<failing, stored>>
  BY DEF M!Return, M!Able
<1>2. Memory' /\ Errors' /\ Results'
  BY ReturnMemory, ReturnErrors, ReturnResults DEF Sound
<1>3. Calm' /\ Pictured(stored')
  BY <1>1 DEF Sound, Calm
<1> QED
  BY <1>2, <1>3 DEF Sound

LEMMA UnwindSound ==
  ASSUME M!Assumption, Shape, Sound, M!Unwind
  PROVE  Sound'
<1>1. /\ calls # <<>> /\ failing' = (M!Top # 1 /\ ~M!Here.saved.on) /\ calls' = M!Pop(calls)
      /\ UNCHANGED stored
  BY DEF M!Unwind, M!LeaveFrames
<1>2. Memory' /\ Errors' /\ Results'
  BY UnwindMemory, UnwindErrors, UnwindResults DEF Sound
<1>3. Len(M!Pop(calls)) = M!Top - 1 /\ M!Top \in Nat /\ M!Top >= 1
  BY <1>1, RunningIs
<1>4. Calm'
  <2>1. ASSUME M!Top # 1
        PROVE  calls' # <<>>
    <3> DEFINE e == <<>>
    <3>1. Len(e) = 0
      OBVIOUS
    <3> HIDE DEF e
    <3>2. calls' # e
      BY <1>1, <1>3, <2>1, <3>1
    <3> QED
      BY <3>2 DEF e
  <2> QED
    BY <1>1, <2>1 DEF Calm, M!AtRest
<1> QED
  BY <1>1, <1>2, <1>4 DEF Sound

LEMMA CallSound ==
  ASSUME M!Assumption, Shape, Sound, NEW c, NEW a, NEW plain \in BOOLEAN, NEW saved,
         saved = M!NoCapture \/ (saved = M!Capturing /\ ~plain), M!Call(c, a, plain, saved)
  PROVE  Sound'
<1>1. ~failing /\ UNCHANGED <<failing, stored>>
  BY DEF M!Call, M!Able, M!report, M!export
<1>2. Memory' /\ Errors' /\ Results'
  BY CallMemory, CallErrors, CallResults DEF Sound
<1>3. Calm' /\ Pictured(stored')
  BY <1>1 DEF Sound, Calm
<1> QED
  BY <1>2, <1>3 DEF Sound

LEMMA StepSound ==
  ASSUME M!Assumption, Shape, Sound, M!Step
  PROVE  Sound'
<1>1. CASE M!Unwind
  BY <1>1, UnwindSound
<1>2. CASE M!MakePlain
  BY <1>2, MakePlainSound
<1>3. ASSUME NEW d \in M!Globals,
             M!UseReady(d) \/ M!UseFailed(d) \/ M!UseRunning(d) \/ M!Evaluate(d) \/ M!InitializeGlobal(d)
      PROVE  Sound'
  <2>1. CASE M!UseReady(d)
    BY <2>1, UseReadySound
  <2>2. CASE M!UseFailed(d)
    BY <2>2, UseFailedSound
  <2>3. CASE M!UseRunning(d)
    BY <2>3, UseRunningSound
  <2>4. CASE M!Evaluate(d)
    <3>1. M!Start(d) /\ job # "none" /\ ~failing /\ calls # <<>>
      BY <2>4 DEF M!Evaluate, M!Able
    <3> QED
      BY <3>1, StartSound
  <2>5. CASE M!InitializeGlobal(d)
    <3>1. M!Start(d) /\ job = "prepare" /\ ~failing
      BY <2>5 DEF M!InitializeGlobal, Sound, Calm
    <3> QED
      BY <3>1, StartSound
  <2> QED
    BY <1>3, <2>1, <2>2, <2>3, <2>4, <2>5
<1>4. ASSUME calls # <<>>, NEW v \in M!Values(M!Here) \cup {M!None}, M!Make(v) \/ M!Fail(v)
      PROVE  Sound'
  BY <1>4, MakeSound, FailSound
<1>5. ASSUME calls # <<>>, NEW v \in M!Values(M!Here), M!Warn(v) \/ M!Return(v) \/ M!Finish(v)
      PROVE  Sound'
  BY <1>5, WarnSound, ReturnSound, FinishSound
<1>6. ASSUME calls # <<>>, NEW v \in M!Values(M!Here), NEW w \in M!Allocations, M!Load(v, w)
      PROVE  Sound'
  BY <1>6, LoadSound
<1>7. ASSUME calls # <<>>, NEW k \in 0 .. Len(M!Here.locals), M!Release(k) \/ M!Discard(k)
      PROVE  Sound'
  <2>1. k \in Nat
    <3>1. M!Here \in GuestCalls
      BY <1>7, RunningIs
    <3>2. Len(M!Here.locals) \in Nat
      BY <3>1 DEF GuestCalls
    <3> QED
      BY <3>2
  <2> QED
    BY <1>7, <2>1, ReleaseSound, DiscardSound
<1>8. ASSUME calls # <<>>, NEW c \in M!Values(M!Here), NEW a \in M!Values(M!Here),
             \/ \E plain \in BOOLEAN : M!Call(c, a, plain, M!NoCapture)
             \/ M!Call(c, a, FALSE, M!Capturing)
             \/ M!TailCall(c, a)
      PROVE  Sound'
  <2>1. ASSUME NEW plain \in BOOLEAN, M!Call(c, a, plain, M!NoCapture)
        PROVE  Sound'
    <3> DEFINE s == M!NoCapture
    <3>1. s = M!NoCapture /\ M!Call(c, a, plain, s)
      BY <2>1
    <3> HIDE DEF s
    <3> QED
      BY <3>1, CallSound
  <2>2. CASE M!Call(c, a, FALSE, M!Capturing)
    <3> DEFINE s == M!Capturing
               p == FALSE
    <3>1. s = M!Capturing /\ p \in BOOLEAN /\ ~p /\ M!Call(c, a, p, s)
      BY <2>2
    <3> HIDE DEF s, p
    <3> QED
      BY <3>1, CallSound
  <2>3. CASE M!TailCall(c, a)
    BY <2>3, TailCallSound
  <2> QED
    BY <1>8, <2>1, <2>2, <2>3
<1> QED
  BY <1>1, <1>2, <1>3, <1>4, <1>5, <1>6, <1>7, <1>8 DEF M!Step

LEMMA NextSound ==
  ASSUME M!Assumption, Shape, Sound, M!Next
  PROVE  Sound'
BY StepSound, BeginSound, PrepareSound, EndSound, StoreSound, InstanceSound DEF M!Next

LEMMA InitSound ==
  ASSUME M!Assumption, M!Init
  PROVE  Sound
<1> DEFINE i == M!Fresh
           e == <<>>
<1>1. /\ heap = i.heap /\ demand = i.demand /\ calls = e /\ frames = e /\ feedback = i.feedback
      /\ error = M!None /\ failing = FALSE /\ service = M!NoService /\ job = "none" /\ result = M!None
      /\ stored = M!Built
  BY DEF M!Init, M!Fresh
<1>2. Pictured(i) /\ Pictured(stored)
  BY <1>1, FreshPictured, BuiltPictured
<1>3. Secure(heap, calls, frames)
  BY <1>1, NoneSecure
<1>4. service.initializer = M!None /\ service.handler = M!None /\ service.values = {}
  BY <1>1 DEF M!NoService
<1>5. Len(e) = 0
  OBVIOUS
<1> HIDE DEF i
<1>6. Memory
  BY <1>1, <1>2, <1>3, <1>4 DEF Memory, Pictured, Rooted
<1>7. Errors
  BY <1>1, <1>5 DEF Errors, Captures, Backed
<1>8. Results /\ Calm
  BY <1>1 DEF Results, Calm, M!Idle
<1> QED
  BY <1>2, <1>6, <1>7, <1>8 DEF Sound

-----------------------------------------------------------------------------
(* What that says of every reference.                                      *)
LEMMA WordsAre ==
  ASSUME NEW cs \in Seq(GuestCalls), NEW i \in 1 .. Len(cs)
  PROVE  LET p == SubSeq(cs, 1, i - 1) IN
         /\ Words(p, cs[i]) = Cardinality({k \in 1 .. i : cs[k].demand = M!None})
         /\ Level(p) \in Nat /\ Words(p, cs[i]) \in Nat /\ Level(cs) \in Nat
         /\ Level(p) <= Words(p, cs[i]) /\ Words(p, cs[i]) <= Level(cs)
<1> DEFINE p == SubSeq(cs, 1, i - 1)
           S == {k \in 1 .. i - 1 : cs[k].demand = M!None}
           T == {k \in 1 .. i : cs[k].demand = M!None}
           U == {k \in 1 .. Len(cs) : cs[k].demand = M!None}
<1>1. Len(cs) \in Nat /\ i \in Nat /\ i - 1 \in 0 .. Len(cs)
  OBVIOUS
<1>2. p \in Seq(GuestCalls) /\ Len(p) = i - 1 /\ \A k \in 1 .. i - 1 : p[k] = cs[k]
  BY <1>1, PartOf
<1> HIDE DEF p
<1>3. IsFiniteSet(U)
  <2>1. IsFiniteSet(1 .. Len(cs))
    BY <1>1, FS_Interval
  <2> QED
    BY <2>1, FS_Subset
<1>4. S \subseteq U /\ T \subseteq U
  BY <1>1
<1>5. IsFiniteSet(S) /\ IsFiniteSet(T)
  BY <1>3, <1>4, FS_Subset
<1>6. Cardinality(S) \in Nat /\ Cardinality(T) \in Nat /\ Cardinality(U) \in Nat
  BY <1>3, <1>5, FS_CardinalityType
<1>7. Cardinality(T) <= Cardinality(U)
  BY <1>3, <1>4, FS_Subset
<1>8. {k \in 1 .. Len(p) : p[k].demand = M!None} = S
  BY <1>2
<1>9. Level(p) = Cardinality(S)
  BY <1>8 DEF Level
<1>10. Level(cs) = Cardinality(U)
  BY DEF Level
<1>11. T = IF cs[i].demand = M!None THEN S \cup {i} ELSE S
  BY <1>1
<1>12. i \notin S
  BY <1>1
<1> HIDE DEF S, T
<1>13. Cardinality(S \cup {i}) = Cardinality(S) + 1
  BY <1>5, <1>12, FS_AddElement
<1>14. Words(p, cs[i]) = Cardinality(T)
  BY <1>6, <1>9, <1>11, <1>13 DEF Words
<1> HIDE DEF U
<1>15. Cardinality(S) <= Cardinality(T)
  BY <1>6, <1>11, <1>13
<1>16. T = {k \in 1 .. i : cs[k].demand = M!None}
  BY DEF T
<1>17. /\ Level(p) \in Nat /\ Words(p, cs[i]) \in Nat /\ Level(cs) \in Nat
       /\ Level(p) <= Words(p, cs[i]) /\ Words(p, cs[i]) <= Level(cs)
  BY <1>6, <1>7, <1>9, <1>10, <1>14, <1>15
<1> QED
  BY <1>14, <1>16, <1>17 DEF p

(* A reference that is kept is there, or is into words that are not left.  *)
LEMMA NamedAlive ==
  ASSUME NEW r, NEW S, S \subseteq DOMAIN heap, NEW level \in Nat, NEW n \in Nat, level <= n,
         Named(r, S, level), HeapSize \in Nat, r \in Nat
  PROVE  M!Alive(r, n)
BY DEF Named, M!Alive, M!Scratch

LEMMA PlaceAlive ==
  ASSUME M!Assumption, NEW c \in GuestCalls, NEW f, NEW level \in Nat, NEW k \in Nat, NEW n \in Nat,
         k <= n, Kind(c, k), Safe(heap, c, f, level)
  PROVE  M!Alive(c.out, n)
<1>1. c.out \in Nat
  BY DEF GuestCalls
<1>2. c.out \in M!Allocations => c.out \in DOMAIN heap
  BY DEF Safe
<1>3. c.out = M!None \/ c.out <= M!Scratch(k)
  BY DEF Kind
<1>4. c.out # M!None /\ c.out \notin M!Allocations => c.out > HeapSize
  BY <1>1 DEF M!Allocations, M!None, M!Assumption
<1> QED
  BY <1>1, <1>2, <1>3, <1>4 DEF M!Alive, M!Scratch, M!Assumption

LEMMA CallAlive ==
  ASSUME M!Assumption, Shape, Memory, NEW i \in 1 .. M!Top
  PROVE  LET n == Words(SubSeq(calls, 1, i - 1), calls[i]) IN
         /\ \A r \in M!Values(calls[i]) \cup {calls[i].out} : M!Alive(r, n)
         /\ \A s \in frames[i].params \cup M!Elements(frames[i].slots) : M!Alive(s.ref, scratch)
<1> DEFINE p == SubSeq(calls, 1, i - 1)
           q == SubSeq(frames, 1, i - 1)
           c == calls[i]
           f == frames[i]
           n == Words(p, c)
           m == Len(f.slots)
<1>1. /\ Shaped(calls, frames) /\ scratch = Level(calls) /\ Heaps(heap)
      /\ Secure(heap, calls, frames) /\ i \in 1 .. Len(calls) /\ calls \in Seq(GuestCalls)
  BY DEF Shape, Memory, M!Top, Shaped
<1>2. /\ Safe(heap, c, f, n) /\ Apart(p, q, c, f) /\ m \in Nat /\ Len(c.locals) = m
      /\ c \in GuestCalls /\ f \in RootFrames
  BY <1>1, SecureAt
<1>3. Kind(c, Level(p))
  BY <1>1 DEF Shaped, Atop
<1>4. /\ Level(p) \in Nat /\ n \in Nat /\ scratch \in Nat /\ Level(p) <= n /\ n <= scratch
  BY <1>1, WordsAre
<1> HIDE DEF c, f, p, q, n, m
<1>5. \A k \in 0 .. m : Held(heap, f, k) \subseteq DOMAIN heap
  BY <1>1, HeldGrows
<1>6. M!Alive(c.out, n) /\ M!Alive(c.out, scratch)
  <2>1. Level(p) <= scratch
    BY <1>4
  <2> QED
    BY <1>2, <1>3, <1>4, <2>1, PlaceAlive
<1>7. /\ c.env \in Nat /\ c.arg \in Nat /\ c.locals \in Seq(Nat) /\ HeapSize \in Nat
      /\ c.out \in Nat
  BY <1>2 DEF GuestCalls, M!Assumption
<1>8. M!Alive(c.env, n) /\ M!Alive(c.arg, n)
  <2>1. /\ Named(c.env, Held(heap, f, 0), n) /\ Named(c.arg, Held(heap, f, 0), n)
    BY <1>2 DEF Safe
  <2>2. Held(heap, f, 0) \subseteq DOMAIN heap
    BY <1>2, <1>5
  <2> QED
    BY <1>4, <1>7, <2>1, <2>2, NamedAlive
<1>9. ASSUME NEW k \in 1 .. Len(c.locals)
      PROVE  M!Alive(c.locals[k], n)
  <2>1. Named(c.locals[k], Held(heap, f, k), n) /\ c.locals[k] \in Nat
    BY <1>2, <1>7, <1>9 DEF Safe
  <2>2. Held(heap, f, k) \subseteq DOMAIN heap
    BY <1>2, <1>5, <1>9
  <2> QED
    BY <1>4, <1>7, <2>1, <2>2, NamedAlive
<1>10. \A r \in M!Values(c) \cup {c.out} : M!Alive(r, n)
  BY <1>6, <1>8, <1>9 DEF M!Values, M!Elements
<1>11. Published(heap, f)
  BY <1>2 DEF Safe
<1>12. ASSUME NEW s \in f.params
       PROVE  M!Alive(s.ref, scratch)
  <2>1. s.value \/ s.ref \in {M!None, c.out}
    BY <1>2 DEF Apart
  <2>2. s.value => s.ref \in DOMAIN heap
    BY <1>11 DEF Published
  <2>3. CASE s.value
    BY <2>2, <2>3 DEF M!Alive
  <2>4. CASE s.ref = M!None
    BY <2>4 DEF M!Alive
  <2>5. CASE s.ref = c.out
    BY <1>6, <2>5
  <2> QED
    BY <2>1, <2>3, <2>4, <2>5
<1>13. ASSUME NEW s \in M!Elements(f.slots)
       PROVE  M!Alive(s.ref, scratch)
  BY <1>11 DEF Published, M!Elements, M!Alive
<1> QED
  BY <1>10, <1>12, <1>13 DEF c, f, n, p

LEMMA ErrorAlive ==
  ASSUME Memory, Errors
  PROVE  error \in DOMAIN heap \cup {M!None}
<1>1. /\ {demand[d].value : d \in M!Globals} \subseteq DOMAIN heap \cup {M!None}
      /\ M!Elements(feedback) \subseteq DOMAIN heap
  BY DEF Memory, Rooted
<1>2. CASE failing
  BY <1>2, RaisedAlive DEF Errors, Memory
<1>3. CASE ~failing
  <2>1. Backed(feedback, demand, calls, error, Len(feedback))
    BY <1>3 DEF Errors
  <2>2. \A d \in M!Globals : demand[d] = M!Failed(error) => demand[d].value = error
    BY DEF M!Failed
  <2> QED
    BY <1>1, <2>1, <2>2 DEF Backed, M!Elements
<1> QED
  BY <1>2, <1>3

LEMMA SoundAlive ==
  ASSUME M!Assumption, Shape, Sound
  PROVE  M!NoDangling
<1>1. /\ Memory /\ Errors /\ Results /\ Heaps(heap) /\ Rooted(heap, demand, feedback, service)
      /\ Shaped(calls, frames) /\ calls \in Seq(GuestCalls) /\ Len(frames) = M!Top
  BY DEF Sound, Memory, Shape, Shaped, M!Top
<1>2. ASSUME NEW i \in 1 .. M!Top
      PROVE  \A r \in M!Values(calls[i]) \cup {calls[i].out} : M!Alive(r, M!Cardinality(M!Functions(i)))
  <2> DEFINE n == Words(SubSeq(calls, 1, i - 1), calls[i])
  <2>1. n = Cardinality({k \in 1 .. i : calls[k].demand = M!None})
    BY <1>1, WordsAre DEF M!Top
  <2>2. n = M!Cardinality(M!Functions(i))
    BY <2>1, SameCardinality DEF M!Functions
  <2>3. \A r \in M!Values(calls[i]) \cup {calls[i].out} : M!Alive(r, n)
    BY <1>1, CallAlive
  <2> QED
    BY <2>2, <2>3
<1>3. \A o \in DOMAIN heap : heap[o] \subseteq DOMAIN heap
  BY <1>1 DEF Heaps
<1>4. \A s \in M!FrameSlots(frames) : M!Alive(s.ref, scratch)
  <2>1. \A i \in 1 .. Len(frames) : \A s \in frames[i].params \cup M!Elements(frames[i].slots) :
          M!Alive(s.ref, scratch)
    BY <1>1, CallAlive
  <2> QED
    BY <2>1 DEF M!FrameSlots
<1>5. \A r \in DOMAIN heap \cup {M!None} : M!Alive(r, scratch)
  BY DEF M!Alive
<1>6. \A r \in M!Traced(frames) : M!Alive(r, scratch)
  <2>1. \A r \in M!DemandRoots \cup M!Elements(feedback)
                   \cup {service.initializer, service.handler} \cup service.values :
          r \in DOMAIN heap \cup {M!None}
    BY <1>1 DEF Rooted, M!DemandRoots
  <2> QED
    BY <1>4, <1>5, <2>1 DEF M!Traced
<1>7. \A r \in M!Kept(frames) : M!Alive(r, scratch)
  BY <1>4 DEF M!Kept
<1>8. M!Alive(error, scratch)
  BY <1>1, <1>5, ErrorAlive
<1>9. ~M!Idle => M!Alive(result, scratch)
  BY <1>1, <1>5 DEF Results
<1> QED
  BY <1>2, <1>3, <1>6, <1>7, <1>8, <1>9 DEF M!NoDangling

(* Whatever the host and the code do, every reference the references of    *)
(* the calls lead to is kept by what they have published.                  *)
THEOREM ServingSound == ServingSpec => []Sound
<1> USE MachineAssumption
<1>1. ServingInit => Sound
  BY InitSound DEF ServingInit
<1>2. Shape /\ Sound /\ [ServingNext]_<<vars, machine>> => Sound'
  <2>1. ASSUME Sound, UNCHANGED machine
        PROVE  Sound'
    <3>1. UNCHANGED <<heap, demand, calls, frames, scratch, feedback, error, failing,
                      service, job, result, stored>>
      BY <2>1 DEF machine
    <3>2. Memory' /\ Results' /\ Calm' /\ Pictured(stored')
      BY <2>1, <3>1 DEF Sound, Memory, Results, First, M!Idle, M!AtRest, Calm
    <3>3. Errors'
      BY <2>1, <3>1, SameErrors DEF Sound, M!report
    <3> QED
      BY <3>2, <3>3 DEF Sound
  <2>2. ASSUME Shape, Sound, ServingNext
        PROVE  Sound'
    BY <2>1, <2>2, ServingStep, NextSound
  <2> QED
    BY <2>1, <2>2 DEF machine
<1> QED
  BY <1>1, <1>2, ServingShape, PTL DEF ServingSpec

(* No reference of the calls, the heap, the globals, the service, the      *)
(* rows, the error or the result is to a swept allocation or to words of   *)
(* a scratch frame that was left.                                          *)
THEOREM ServingNoDangling == ServingSpec => []NoDangling
<1>1. Shape /\ Sound => NoDangling
  BY MachineAssumption, SoundAlive DEF NoDangling
<1> QED
  BY <1>1, ServingShape, ServingSound, PTL

-----------------------------------------------------------------------------
(* What a service was published with stays.                                *)

(* The places the results of the calls in progress are written to.         *)
Places(cs) == {cs[i].out : i \in 1 .. Len(cs)}

LEMMA PlacesPush ==
  ASSUME NEW cs \in Seq(GuestCalls), NEW c \in GuestCalls
  PROVE  Places(Append(cs, c)) = Places(cs) \cup {c.out}
<1> DEFINE t == Append(cs, c)
<1>1. /\ Len(cs) \in Nat /\ Len(t) = Len(cs) + 1
      /\ \A i \in 1 .. Len(cs) : t[i] = cs[i]
      /\ t[Len(cs) + 1] = c
  BY PushIs
<1> HIDE DEF t
<1>2. 1 .. Len(t) = 1 .. Len(cs) \cup {Len(cs) + 1}
  BY <1>1
<1>3. Places(t) = Places(cs) \cup {c.out}
  BY <1>1, <1>2 DEF Places
<1> QED
  BY <1>3 DEF t

LEMMA PlacesRunning ==
  ASSUME Shape, calls # <<>>
  PROVE  /\ Places(calls) = Places(M!Pop(calls)) \cup {M!Here.out}
         /\ \A g \in GuestCalls : Places(Append(M!Pop(calls), g)) = Places(M!Pop(calls)) \cup {g.out}
<1>1. calls = Append(M!Pop(calls), M!Here) /\ M!Here \in GuestCalls /\ M!Pop(calls) \in Seq(GuestCalls)
  BY RunningIs
<1> DEFINE p == M!Pop(calls)
           g == M!Here
<1> HIDE DEF p, g
<1>2. calls = Append(p, g) /\ g \in GuestCalls /\ p \in Seq(GuestCalls)
  BY <1>1 DEF p, g
<1>3. Places(calls) = Places(p) \cup {g.out} /\ \A x \in GuestCalls : Places(Append(p, x)) = Places(p) \cup {x.out}
  BY <1>2, PlacesPush
<1> QED
  BY <1>3 DEF p, g

(* The globals of a service are evaluated, and none is again.              *)
AllReady(dm) == \A d \in M!Globals : dm[d].state = "ready"

LEMMA NoneEvaluated ==
  ASSUME Shape, AllReady(demand), calls # <<>>
  PROVE  M!Here.demand = M!None
<1>1. M!Here \in GuestCalls /\ M!Top \in Nat /\ M!Top >= 1
  BY RunningIs
<1>2. Evaluating(calls, M!Here.demand)
  BY <1>1 DEF Evaluating, M!Here, M!Top
<1>3. M!Here.demand \in 0 .. Demands
  BY <1>1 DEF GuestCalls
<1>4. M!Here.demand \in M!Globals => FALSE
  BY <1>2 DEF Shape, Evaluated, AllReady
<1> QED
  BY <1>3, <1>4 DEF M!Globals, M!None

LEMMA StepReady ==
  ASSUME Shape, AllReady(demand), M!Step
  PROVE  /\ UNCHANGED <<demand, service, job, stored>>
         /\ calls # <<>> /\ M!Here.demand = M!None
         /\ \/ M!Unwind \/ M!MakePlain
            \/ \E d \in M!Globals : M!UseReady(d)
            \/ \E v \in M!Values(M!Here) \cup {M!None} : M!Make(v) \/ M!Fail(v)
            \/ \E v \in M!Values(M!Here) : M!Warn(v) \/ M!Return(v)
            \/ \E v \in M!Values(M!Here), w \in M!Allocations : M!Load(v, w)
            \/ \E k \in 0 .. Len(M!Here.locals) : M!Release(k) \/ M!Discard(k)
            \/ \E c \in M!Values(M!Here), a \in M!Values(M!Here) :
                 \/ \E plain \in BOOLEAN : M!Call(c, a, plain, M!NoCapture)
                 \/ M!Call(c, a, FALSE, M!Capturing)
                 \/ M!TailCall(c, a)
<1>1. ASSUME NEW d \in M!Globals
      PROVE  ~M!UseFailed(d) /\ ~M!UseRunning(d) /\ ~M!Start(d)
  BY DEF AllReady, M!UseFailed, M!UseRunning, M!Start, M!Evaluable
<1>2. ~M!AtRest => M!Here.demand = M!None
  BY NoneEvaluated DEF M!AtRest
<1>3. ASSUME NEW v
      PROVE  ~M!Finish(v)
  BY <1>2 DEF M!Finish, M!Able, M!AtRest
<1>4. \A d \in M!Globals : ~M!Evaluate(d) /\ ~M!InitializeGlobal(d)
  BY <1>1 DEF M!Evaluate, M!InitializeGlobal
<1>5. \/ M!Unwind \/ M!MakePlain
      \/ \E d \in M!Globals : M!UseReady(d)
      \/ calls # <<>> /\ \E v \in M!Values(M!Here) \cup {M!None} : M!Make(v) \/ M!Fail(v)
      \/ calls # <<>> /\ \E v \in M!Values(M!Here) : M!Warn(v) \/ M!Return(v)
      \/ calls # <<>> /\ \E v \in M!Values(M!Here), w \in M!Allocations : M!Load(v, w)
      \/ calls # <<>> /\ \E k \in 0 .. Len(M!Here.locals) : M!Release(k) \/ M!Discard(k)
      \/ calls # <<>> /\ \E c \in M!Values(M!Here), a \in M!Values(M!Here) :
           \/ \E plain \in BOOLEAN : M!Call(c, a, plain, M!NoCapture)
           \/ M!Call(c, a, FALSE, M!Capturing)
           \/ M!TailCall(c, a)
  BY <1>1, <1>3, <1>4 DEF M!Step
<1>6. calls # <<>>
  BY <1>5 DEF M!Unwind, M!MakePlain, M!UseReady, M!Able
<1>7. M!Here.demand = M!None
  BY <1>2, <1>6 DEF M!AtRest
<1>8. UNCHANGED <<demand, service, job, stored>>
  <2>1. CASE M!Unwind
    BY <2>1, <1>7 DEF M!Unwind
  <2>2. CASE M!MakePlain \/ \E d \in M!Globals : M!UseReady(d)
    BY <2>2 DEF M!MakePlain, M!UseReady, M!export
  <2>3. CASE \E v \in M!Values(M!Here) \cup {M!None} : M!Make(v) \/ M!Fail(v)
    BY <2>3 DEF M!Make, M!Fail, M!export
  <2>4. CASE \E v \in M!Values(M!Here) : M!Warn(v) \/ M!Return(v)
    BY <2>4 DEF M!Warn, M!Return, M!export
  <2>5. CASE \E v \in M!Values(M!Here), w \in M!Allocations : M!Load(v, w)
    BY <2>5 DEF M!Load, M!export
  <2>6. CASE \E k \in 0 .. Len(M!Here.locals) : M!Release(k) \/ M!Discard(k)
    BY <2>6 DEF M!Release, M!Discard, M!export
  <2>7. CASE \E c \in M!Values(M!Here), a \in M!Values(M!Here) :
               \/ \E plain \in BOOLEAN : M!Call(c, a, plain, M!NoCapture)
               \/ M!Call(c, a, FALSE, M!Capturing)
               \/ M!TailCall(c, a)
    BY <2>7 DEF M!Call, M!TailCall, M!export
  <2> QED
    BY <1>5, <2>1, <2>2, <2>3, <2>4, <2>5, <2>6, <2>7
<1> QED
  BY <1>5, <1>6, <1>7, <1>8

-----------------------------------------------------------------------------
(* What is spared: the allocations of a set, with their contents.          *)
Spared(B, g, h) == \A o \in B : o \in DOMAIN h /\ h[o] = g[o]

(* A safepoint spares what the handler and the globals lead to.            *)
LEMMA SweptSpares ==
  ASSUME M!Assumption, NEW g, Heaps(g), NEW h, Heaps(h), NEW R, NEW fs,
         R \subseteq M!Traced(fs), Spared(M!Reached(g, R), g, h), NEW x \in M!Afterwards(h, fs)
  PROVE  Spared(M!Reached(g, R), g, x)
<1> DEFINE B == M!Reached(g, R)
           L == M!Reached(h, M!Traced(fs))
           T == M!Traced(fs)
           K == L \cup (M!Kept(fs) \cap DOMAIN h)
<1>1. R \cap DOMAIN g \subseteq B /\ \A o \in B : g[o] \subseteq B
  BY ReachedHas
<1>2. T \cap DOMAIN h \subseteq L /\ \A o \in L : h[o] \subseteq L
  BY ReachedHas
<1>3. B \subseteq DOMAIN h /\ \A o \in B : h[o] = g[o]
  BY DEF Spared
<1>4. B \subseteq L
  <2> DEFINE S == B \cap L
  <2>1. R \cap DOMAIN g \subseteq S
    BY <1>1, <1>2, <1>3
  <2>2. \A o \in S : g[o] \subseteq S
    BY <1>1, <1>2, <1>3
  <2> HIDE DEF S, L
  <2>3. B \subseteq S
    BY <2>1, <2>2, ReachedIn
  <2> QED
    BY <2>3 DEF S
<1>5. x = [o \in K |-> h[o]] \/ x = h
  BY DEF M!Afterwards, M!Collected
<1>6. B \subseteq K
  BY <1>4
<1> HIDE DEF B, K
<1>7. Spared(B, g, x)
  BY <1>3, <1>5, <1>6 DEF Spared
<1> QED
  BY <1>7 DEF B

LEMMA WithSpares ==
  ASSUME NEW B, NEW g, NEW h, Spared(B, g, h), NEW o, o \notin DOMAIN h, NEW c
  PROVE  Spared(B, g, M!With(h, o, c)) /\ o \notin B
BY DEF Spared, M!With

LEMMA WriteSpares ==
  ASSUME NEW B, NEW g, NEW h, Spared(B, g, h), NEW o, o \notin B, NEW c
  PROVE  Spared(B, g, [h EXCEPT ![o] = c])
BY DEF Spared

(* The machine of the published service.                                   *)
AsBuilt ==
  /\ demand = stored.demand /\ service.handler = stored.handler
  /\ Spared(Baseline, stored.heap, heap) /\ Places(calls) \cap Baseline = {}

Lasts == Spared(Baseline, stored.heap, heap') /\ Places(calls') \cap Baseline = {}

LEMMA BaselineSwept ==
  ASSUME M!Assumption, Sound, AsBuilt, NEW h, Heaps(h), Spared(Baseline, stored.heap, h),
         NEW fs, NEW x \in M!Afterwards(h, fs)
  PROVE  Spared(Baseline, stored.heap, x)
<1> DEFINE R == {stored.handler} \cup {stored.demand[d].value : d \in M!Globals}
           g == stored.heap
<1>1. Baseline = M!Reached(g, R)
  BY DEF Baseline
<1>2. R \subseteq M!Traced(fs)
  BY DEF AsBuilt, M!Traced, M!DemandRoots
<1>3. Heaps(g)
  BY DEF Sound, Pictured
<1>4. Spared(M!Reached(g, R), g, h)
  BY <1>1
<1> HIDE DEF R, g
<1>5. Spared(M!Reached(g, R), g, x)
  BY <1>2, <1>3, <1>4, SweptSpares
<1> QED
  BY <1>1, <1>5 DEF g

LEMMA PlacesEdit ==
  ASSUME Shape, calls # <<>>, NEW l, NEW s, StackSame, Edits(l, s)
  PROVE  Places(calls') = Places(calls)
<1> DEFINE p == M!Pop(calls)
           g == WithLocals(M!Here, l)
<1>1. calls' = Append(p, g) /\ calls' \in Seq(GuestCalls) /\ p \in Seq(GuestCalls) /\ M!Here \in GuestCalls
  BY RunningIs DEF Edits, StackSame, Shaped
<1>2. g.out = M!Here.out
  BY <1>1 DEF WithLocals, GuestCalls
<1>3. g \in GuestCalls
  <2> HIDE DEF p, g
  <2>1. calls'[Len(p) + 1] = g /\ Len(calls') = Len(p) + 1 /\ Len(p) \in Nat
    BY <1>1
  <2>2. Len(p) + 1 \in 1 .. Len(calls')
    BY <2>1
  <2> QED
    BY <1>1, <2>1, <2>2
<1> HIDE DEF g
<1> QED
  BY <1>1, <1>2, <1>3, PlacesRunning

LEMMA LocalLasts ==
  ASSUME Shape, AsBuilt, calls # <<>>, M!Here.demand = M!None, NEW r \in Nat, NEW s \in RootSlots,
         M!Local(r, s), Spared(Baseline, stored.heap, heap')
  PROVE  Lasts
<1>1. Places(calls') = Places(calls)
  BY LocalStep, PlacesEdit
<1> QED
  BY <1>1 DEF AsBuilt, Lasts

(* The steps that call and return.                                         *)
LEMMA LeaveLasts ==
  ASSUME M!Assumption, Shape, AsBuilt, calls # <<>>, calls' = M!Pop(calls), NEW x,
         heap' = heap \/ heap' = [heap EXCEPT ![M!Here.out] = x]
  PROVE  Lasts
<1>1. Places(calls) = Places(calls') \cup {M!Here.out}
  BY PlacesRunning
<1>2. M!Here.out \notin Baseline
  BY <1>1 DEF AsBuilt
<1>3. Spared(Baseline, stored.heap, heap')
  <2> DEFINE o == M!Here.out
             g == stored.heap
             B == Baseline
  <2>1. Spared(B, g, heap) /\ o \notin B /\ (heap' = heap \/ heap' = [heap EXCEPT ![o] = x])
    BY <1>2 DEF AsBuilt
  <2> HIDE DEF o, g, B
  <2>2. Spared(B, g, [heap EXCEPT ![o] = x])
    BY <2>1, WriteSpares
  <2>3. Spared(B, g, heap')
    BY <2>1, <2>2
  <2> QED
    BY <2>3 DEF g, B
<1> QED
  BY <1>1, <1>3 DEF AsBuilt, Lasts

LEMMA CallLasts ==
  ASSUME M!Assumption, Shape, Sound, AsBuilt, NEW c, NEW a, NEW plain \in BOOLEAN, NEW saved,
         saved = M!NoCapture \/ (saved = M!Capturing /\ ~plain), M!Call(c, a, plain, saved)
  PROVE  Lasts
<1> DEFINE o == IF plain THEN M!Here.base ELSE M!New
           s == IF plain THEN M!Clear ELSE M!Storage(M!New)
           h == IF plain THEN heap ELSE M!With(heap, M!New, {})
           g == WithLocals(M!Here, Append(M!Here.locals, o))
           f == M!Function(c, a, o, scratch + 1, saved)
           p == M!Pop(calls)
<1>1. /\ calls # <<>> /\ (plain => M!Here.demand = M!None) /\ (~plain => M!Room)
      /\ Provides(o, s, c, a, saved) /\ heap' \in M!Afterwards(h, frames')
      /\ Shaped(calls', frames')
  BY CallStep
<1>2. /\ calls' = Append(Append(p, g), f) /\ calls' \in Seq(GuestCalls)
      /\ p \in Seq(GuestCalls) /\ M!Here \in GuestCalls
      /\ Atop(p, M!Pop(frames), M!Here, frames[M!Top]) /\ Level(p) \in Nat
  BY <1>1, RunningIs DEF Provides, Shaped
<1>3. g.out = M!Here.out /\ f.out = o
  BY <1>2 DEF WithLocals, GuestCalls, M!Function
<1>4. /\ Heaps(heap) /\ DOMAIN heap \subseteq M!Allocations /\ job \in M!Jobs
      /\ Spared(Baseline, stored.heap, heap) /\ Baseline \subseteq DOMAIN heap
  BY DEF Sound, Memory, Heaps, Shape, AsBuilt, Spared
<1>5. /\ Heaps(h) /\ Spared(Baseline, stored.heap, h) /\ o \notin Baseline
  <2>1. CASE plain
    <3>1. M!Here.base = M!Scratch(Level(p) + 1)
      BY <1>1, <1>2, <2>1 DEF Atop, Kind
    <3>2. M!Here.base \notin M!Allocations
      BY <1>2, <3>1 DEF M!Scratch, M!Allocations, M!Assumption
    <3> QED
      BY <1>4, <2>1, <3>2
  <2>2. CASE ~plain
    <3> DEFINE n == M!New
               e == {}
    <3>1. n \in M!Allocations /\ n \notin DOMAIN heap
      BY <1>1, <1>4, <2>2, NewIs
    <3>2. h = M!With(heap, n, e) /\ o = n
      BY <2>2
    <3> HIDE DEF n, h, o
    <3>3. e \subseteq DOMAIN heap \cup {n}
      OBVIOUS
    <3> HIDE DEF e
    <3>4. Heaps(M!With(heap, n, e))
      BY <1>4, <3>1, <3>3, WithIs
    <3>5. Spared(Baseline, stored.heap, M!With(heap, n, e)) /\ n \notin Baseline
      BY <1>4, <3>1, WithSpares
    <3> QED
      BY <3>2, <3>4, <3>5
  <2> QED
    BY <2>1, <2>2
<1>6. Spared(Baseline, stored.heap, heap')
  <2> HIDE DEF h
  <2> QED
    BY <1>1, <1>5, BaselineSwept
<1>7. Places(calls') = Places(calls) \cup {o}
  <2> HIDE DEF p, g, f, o
  <2> DEFINE q == Append(p, g)
  <2>1. Len(p) \in Nat /\ Len(q) = Len(p) + 1 /\ q[Len(p) + 1] = g /\ \A i \in 1 .. Len(p) : q[i] = p[i]
    BY <1>2
  <2>2. Len(calls') = Len(q) + 1 /\ calls'[Len(q) + 1] = f /\ \A i \in 1 .. Len(q) : calls'[i] = q[i]
    BY <1>2, <2>1
  <2>3. 1 .. Len(calls') = (1 .. Len(p)) \cup {Len(p) + 1} \cup {Len(q) + 1}
    BY <2>1, <2>2
  <2>4. /\ calls'[Len(p) + 1] = g /\ calls'[Len(q) + 1] = f
        /\ \A i \in 1 .. Len(p) : calls'[i] = p[i]
    BY <2>1, <2>2
  <2>5. Places(calls') = Places(p) \cup {g.out} \cup {f.out}
    <3> HIDE DEF q
    <3> QED
      BY <2>3, <2>4 DEF Places
  <2> QED
    BY <1>1, <1>3, <2>5, PlacesRunning DEF p
<1> QED
  BY <1>5, <1>6, <1>7 DEF AsBuilt, Lasts

LEMMA TailLasts ==
  ASSUME M!Assumption, Shape, Sound, AsBuilt, calls # <<>>, NEW c, NEW a \in M!Values(M!Here), M!TailCall(c, a)
  PROVE  Lasts
<1> DEFINE f == M!Function(c, M!Moved(a), M!Here.out, scratch, M!Here.saved)
<1>1. calls' = Append(M!Pop(calls), f) /\ StackSame
  BY TailStep
<1>2. Heaps(heap) /\ Spared(Baseline, stored.heap, heap) /\ heap' \in M!Afterwards(heap, frames')
  BY DEF Sound, Memory, AsBuilt, M!TailCall, M!Safepoint
<1>3. Spared(Baseline, stored.heap, heap')
  BY <1>2, BaselineSwept
<1>4. f.out = M!Here.out
  BY DEF M!Function
<1>5. f \in GuestCalls
  <2> HIDE DEF f
  <2>1. M!Pop(calls) \in Seq(GuestCalls) /\ calls' \in Seq(GuestCalls)
    BY <1>1, RunningIs DEF StackSame, Shaped
  <2> DEFINE p == M!Pop(calls)
  <2> HIDE DEF p
  <2>2. calls' = Append(p, f) /\ p \in Seq(GuestCalls) /\ calls' \in Seq(GuestCalls)
    BY <1>1, <2>1 DEF p
  <2>3. calls'[Len(p) + 1] = f /\ Len(calls') = Len(p) + 1 /\ Len(p) \in Nat
    BY <2>2
  <2>4. Len(p) + 1 \in 1 .. Len(calls')
    BY <2>3
  <2> QED
    BY <2>2, <2>3, <2>4
<1> HIDE DEF f
<1>6. Places(calls') = Places(calls)
  BY <1>1, <1>4, <1>5, PlacesRunning
<1> QED
  BY <1>3, <1>6 DEF AsBuilt, Lasts

LEMMA AllocateLasts ==
  ASSUME M!Assumption, Shape, Sound, AsBuilt, M!Room, NEW x, heap' = M!With(heap, M!New, x)
  PROVE  Spared(Baseline, stored.heap, heap')
<1> DEFINE n == M!New
<1>1. n \notin DOMAIN heap
  BY NewIs DEF Shape
<1>2. heap' = M!With(heap, n, x) /\ Spared(Baseline, stored.heap, heap)
  BY DEF AsBuilt
<1> HIDE DEF n
<1> QED
  BY <1>1, <1>2, WithSpares

LEMMA StepLasts ==
  ASSUME M!Assumption, Shape, Sound, AsBuilt, AllReady(demand), M!Step
  PROVE  Lasts
<1>1. calls # <<>> /\ M!Here.demand = M!None
  BY StepReady
<1>2. /\ Spared(Baseline, stored.heap, heap) /\ Places(calls) \cap Baseline = {}
      /\ M!Here \in GuestCalls
  BY <1>1, RunningIs DEF AsBuilt
<1>3. CASE M!Unwind
  <2>1. /\ calls' = M!Pop(calls)
        /\ heap' = heap \/ heap' = [heap EXCEPT ![M!Here.out] = M!Reports(M!Here.saved)]
    BY <1>1, <1>3 DEF M!Unwind, M!LeaveFrames
  <2> QED
    BY <1>1, <2>1, LeaveLasts
<1>4. CASE M!MakePlain
  <2>1. M!Here.base \in Nat /\ M!Clear \in RootSlots /\ M!Local(M!Here.base, M!Clear) /\ heap' = heap
    BY <1>2, <1>4, SlotsAre DEF GuestCalls, M!MakePlain
  <2> QED
    BY <1>1, <1>2, <2>1, LocalLasts
<1>5. ASSUME NEW d \in M!Globals, M!UseReady(d)
      PROVE  Lasts
  <2> DEFINE v == demand[d].value
  <2>1. v \in Nat /\ M!Local(v, M!Value(v)) /\ heap' = heap
    <3>1. v \in M!Allocations
      BY <1>5 DEF M!UseReady, Shape, Demanded
    <3> QED
      BY <1>5, <3>1 DEF M!UseReady, M!Allocations
  <2> HIDE DEF v
  <2>2. M!Value(v) \in RootSlots
    BY <2>1, SlotsAre
  <2> QED
    BY <1>1, <1>2, <2>1, <2>2, LocalLasts
<1>6. ASSUME NEW v \in M!Values(M!Here) \cup {M!None}, M!Make(v) \/ M!Fail(v)
      PROVE  Lasts
  <2>1. M!Room /\ heap' = M!With(heap, M!New, M!Contents(v))
    BY <1>6 DEF M!Make, M!Fail, M!Row
  <2>2. Spared(Baseline, stored.heap, heap')
    BY <2>1, AllocateLasts
  <2>3. CASE M!Make(v)
    <3> DEFINE n == M!New
    <3>1. n \in Nat /\ M!Local(n, M!Storage(n))
      BY <2>1, <2>3, NewIs DEF M!Make, Shape
    <3> HIDE DEF n
    <3>2. M!Storage(n) \in RootSlots
      BY <3>1, SlotsAre
    <3> QED
      BY <1>1, <2>2, <3>1, <3>2, LocalLasts
  <2>4. CASE M!Fail(v)
    BY <1>2, <2>2, <2>4 DEF M!Fail, M!stack, Lasts
  <2> QED
    BY <1>6, <2>3, <2>4
<1>7. ASSUME NEW v \in M!Values(M!Here), M!Warn(v) \/ M!Return(v)
      PROVE  Lasts
  <2>1. CASE M!Warn(v)
    <3>1. M!Room /\ heap' = M!With(heap, M!New, M!Contents(v)) /\ calls' = calls
      BY <2>1 DEF M!Warn, M!Row, M!stack
    <3>2. Spared(Baseline, stored.heap, heap')
      BY <3>1, AllocateLasts
    <3> QED
      BY <1>2, <3>1, <3>2 DEF Lasts
  <2>2. CASE M!Return(v)
    <3> DEFINE x == (IF M!IsScratch(v) THEN {} ELSE heap[v]) \cup M!Reports(M!Here.saved)
    <3>1. calls' = M!Pop(calls) /\ (heap' = heap \/ heap' = [heap EXCEPT ![M!Here.out] = x])
      BY <2>2 DEF M!Return, M!LeaveFrames
    <3> HIDE DEF x
    <3> QED
      BY <1>1, <3>1, LeaveLasts
  <2> QED
    BY <1>7, <2>1, <2>2
<1>8. ASSUME NEW v \in M!Values(M!Here), NEW w \in M!Allocations, M!Load(v, w)
      PROVE  Lasts
  <2>1. w \in Nat /\ M!Clear \in RootSlots /\ M!Local(w, M!Clear) /\ heap' = heap
    BY <1>8, SlotsAre DEF M!Allocations, M!Load
  <2> QED
    BY <1>1, <1>2, <2>1, LocalLasts
<1>9. ASSUME NEW k \in 0 .. Len(M!Here.locals), M!Release(k) \/ M!Discard(k)
      PROVE  Lasts
  <2>1. heap' = heap /\ UNCHANGED scratch /\ k \in Nat
    <3>1. Len(M!Here.locals) \in Nat
      BY <1>2 DEF GuestCalls
    <3> QED
      BY <1>9, <3>1 DEF M!Release, M!Discard
  <2>2. Places(calls') = Places(calls)
    <3>1. CASE M!Release(k)
      BY <1>1, <2>1, <3>1, ReleaseStep, PlacesEdit
    <3>2. CASE M!Discard(k)
      <4>1. /\ calls' = [calls EXCEPT ![M!Top].locals = SubSeq(@, 1, k)]
            /\ frames' = [frames EXCEPT ![M!Top].slots = SubSeq(@, 1, k)]
        BY <3>2 DEF M!Discard
      <4> QED
        BY <1>1, <2>1, <4>1, CutStep, PlacesEdit
    <3> QED
      BY <1>9, <3>1, <3>2
  <2> QED
    BY <1>2, <2>1, <2>2 DEF Lasts
<1>10. ASSUME NEW c \in M!Values(M!Here), NEW a \in M!Values(M!Here),
              \/ \E plain \in BOOLEAN : M!Call(c, a, plain, M!NoCapture)
              \/ M!Call(c, a, FALSE, M!Capturing)
              \/ M!TailCall(c, a)
       PROVE  Lasts
  <2>1. ASSUME NEW plain \in BOOLEAN, M!Call(c, a, plain, M!NoCapture)
        PROVE  Lasts
    <3> DEFINE s == M!NoCapture
    <3>1. s = M!NoCapture /\ M!Call(c, a, plain, s)
      BY <2>1
    <3> HIDE DEF s
    <3> QED
      BY <3>1, CallLasts
  <2>2. CASE M!Call(c, a, FALSE, M!Capturing)
    <3> DEFINE s == M!Capturing
               p == FALSE
    <3>1. s = M!Capturing /\ p \in BOOLEAN /\ ~p /\ M!Call(c, a, p, s)
      BY <2>2
    <3> HIDE DEF s, p
    <3> QED
      BY <3>1, CallLasts
  <2>3. CASE M!TailCall(c, a)
    BY <1>1, <2>3, TailLasts
  <2> QED
    BY <1>10, <2>1, <2>2, <2>3
<1> QED
  BY <1>3, <1>4, <1>5, <1>6, <1>7, <1>8, <1>9, <1>10, StepReady

(* The handler is called.                                                  *)
LEMMA RunLasts ==
  ASSUME M!Assumption, Shape, Sound, AsBuilt, M!BeginRun
  PROVE  Lasts
<1> DEFINE n == M!New
           x == {}
           h == M!With(heap, n, x)
           o == M!Free(h)
           g == M!With(h, o, x)
           e == <<>>
           f == M!Function(service.handler, n, o, scratch + 1, M!NoCapture)
<1>1. /\ M!Room /\ M!Fits(h) /\ calls' = Append(e, f) /\ heap' \in M!Afterwards(g, frames')
  BY DEF M!BeginRun, M!Invoke, M!Enter, M!Safepoint
<1>2. /\ Heaps(heap) /\ DOMAIN heap \subseteq M!Allocations /\ job \in M!Jobs
      /\ Spared(Baseline, stored.heap, heap)
  BY DEF Sound, Memory, Heaps, Shape, AsBuilt
<1>3. n \in M!Allocations /\ n \notin DOMAIN heap
  BY <1>1, <1>2, NewIs
<1>4. /\ Heaps(h) /\ DOMAIN h = DOMAIN heap \cup {n} /\ Spared(Baseline, stored.heap, h)
  <2>1. x \subseteq DOMAIN heap \cup {n}
    OBVIOUS
  <2> HIDE DEF n, x
  <2> QED
    BY <1>2, <1>3, <2>1, WithIs, WithSpares
<1> HIDE DEF n
<1>5. o \in M!Allocations /\ o \notin DOMAIN h
  <2> HIDE DEF h
  <2> QED
    BY <1>1, <1>2, <1>3, <1>4, FreeIs
<1>6. Heaps(g) /\ Spared(Baseline, stored.heap, g) /\ o \notin Baseline
  <2>1. x \subseteq DOMAIN h \cup {o}
    OBVIOUS
  <2> HIDE DEF h, x, o
  <2> QED
    BY <1>4, <1>5, <2>1, WithIs, WithSpares
<1>7. Spared(Baseline, stored.heap, heap')
  <2> HIDE DEF g
  <2> QED
    BY <1>1, <1>6, BaselineSwept
<1>8. Places(calls') = {o}
  <2>1. Len(calls') = 1 /\ calls'[1] = f
    BY <1>1
  <2>2. 1 .. Len(calls') = {1}
    BY <2>1
  <2>3. Places(calls') = {f.out}
    <3> HIDE DEF f
    <3> QED
      BY <2>1, <2>2 DEF Places
  <2> QED
    BY <2>3 DEF M!Function
<1> QED
  BY <1>6, <1>7, <1>8 DEF Lasts

-----------------------------------------------------------------------------
(* The runner's steps, with what the machine does.                         *)
LEMMA RunnerStep == ServingNext => [Next]_vars
<1>1. BeginPrepare \/ BeginCreate \/ BeginRun \/ MachineStep => UNCHANGED vars
  BY DEF BeginPrepare, BeginCreate, BeginRun, MachineStep
<1>2. EndPrepare \/ EndInject \/ EndCreate \/ EndRun => Next
  BY DEF EndPrepare, EndInject, EndCreate, EndRun, Next
<1>3. CompactInstance \/ ImportInstance \/ ReplaceInstance \/ ResetInstance => Next
  BY DEF CompactInstance, ImportInstance, ReplaceInstance, ResetInstance, Next
<1>4. LoseInstance => Next
  BY DEF LoseInstance, Next
<1>5. HostOnly => Next
  BY DEF HostOnly, Next
<1> QED
  BY <1>1, <1>2, <1>3, <1>4, <1>5 DEF ServingNext

(* What the runner does in the composition it does by itself.              *)
THEOREM ServingRunner == ServingSpec => Spec
<1>1. ServingInit => Init
  BY DEF ServingInit
<1>2. [ServingNext]_<<vars, machine>> => [Next]_vars
  BY RunnerStep
<1> QED
  BY <1>1, <1>2, PTL DEF ServingSpec, Spec

-----------------------------------------------------------------------------
(* The published service between the steps of the runner: while the        *)
(* instance may serve, its globals and its handler are those of the image, *)
(* and a request begins on an instance at rest.                            *)
Rested ==
  /\ calls = <<>> /\ frames = <<>> /\ scratch = 0
  /\ error = M!None /\ ~failing
  /\ feedback \in {<<>>, stored.feedback}

Served ==
  /\ AllReady(stored.demand)
  /\ pc = "inject" /\ guest.phase = "Prepared" => AllReady(demand)
  /\ pc = "compact" => AllReady(demand)
  /\ ready /\ ~poisoned => AsBuilt
  /\ job = "prepare" => pc = "sources"
  /\ job = "create" => pc = "inject" /\ ~MoreSources /\ guest.phase = "Prepared"
  /\ job = "run" => pc = "call"
  /\ pc = "run" \/ (pc = "call" /\ job = "none") => Rested

LEMMA ServedClean ==
  ASSUME IInv, Served
  PROVE  StartsClean
<1>1. ASSUME pc = "call", job = "none"
      PROVE  AsBuilt /\ Rested
  BY <1>1 DEF Served, IInv, InRequest
<1> QED
  BY <1>1 DEF StartsClean, AsBuilt, Rested, Spared

LEMMA InitServed ==
  ASSUME M!Assumption, ServingInit
  PROVE  Served
<1>1. AllReady(stored.demand)
  BY DEF ServingInit, M!Init, M!Built, AllReady, M!Ready
<1>2. pc = "idle" /\ ~ready /\ job = "none"
  BY DEF ServingInit, M!Init, Init
<1> QED
  BY <1>1, <1>2 DEF Served

LEMMA BuiltKept ==
  ASSUME AsBuilt, UNCHANGED <<demand, stored>>, service'.handler = service.handler, Lasts
  PROVE  AsBuilt'
<1>1. Baseline' = Baseline
  BY DEF Baseline
<1> QED
  BY <1>1 DEF AsBuilt, Lasts

LEMMA StepJob ==
  ASSUME M!Step
  PROVE  job # "none" /\ UNCHANGED <<job, stored>>
<1>1. \/ M!Unwind \/ M!MakePlain
      \/ \E d \in M!Globals :
           M!UseReady(d) \/ M!UseFailed(d) \/ M!UseRunning(d) \/ M!Evaluate(d) \/ M!InitializeGlobal(d)
      \/ \E v \in M!Values(M!Here) \cup {M!None} : M!Make(v) \/ M!Fail(v)
      \/ \E v \in M!Values(M!Here) : M!Warn(v) \/ M!Return(v) \/ M!Finish(v)
      \/ \E v \in M!Values(M!Here), w \in M!Allocations : M!Load(v, w)
      \/ \E k \in 0 .. Len(M!Here.locals) : M!Release(k) \/ M!Discard(k)
      \/ \E c, a \in M!Values(M!Here) :
           \/ \E plain \in BOOLEAN : M!Call(c, a, plain, M!NoCapture)
           \/ M!Call(c, a, FALSE, M!Capturing)
           \/ M!TailCall(c, a)
  BY DEF M!Step
<1>2. CASE M!Unwind \/ M!MakePlain
  BY <1>2 DEF M!Unwind, M!MakePlain, M!Able, M!export
<1>3. CASE \E d \in M!Globals :
             M!UseReady(d) \/ M!UseFailed(d) \/ M!UseRunning(d) \/ M!Evaluate(d) \/ M!InitializeGlobal(d)
  BY <1>3 DEF M!UseReady, M!UseFailed, M!UseRunning, M!Evaluate, M!InitializeGlobal, M!Start, M!Able, M!export
<1>4. CASE \E v \in M!Values(M!Here) \cup {M!None} : M!Make(v) \/ M!Fail(v)
  BY <1>4 DEF M!Make, M!Fail, M!Able, M!export
<1>5. CASE \E v \in M!Values(M!Here) : M!Warn(v) \/ M!Return(v) \/ M!Finish(v)
  BY <1>5 DEF M!Warn, M!Return, M!Finish, M!Able, M!export
<1>6. CASE \E v \in M!Values(M!Here), w \in M!Allocations : M!Load(v, w)
  BY <1>6 DEF M!Load, M!Able, M!export
<1>7. CASE \E k \in 0 .. Len(M!Here.locals) : M!Release(k) \/ M!Discard(k)
  BY <1>7 DEF M!Release, M!Discard, M!Able, M!export
<1>8. CASE \E c, a \in M!Values(M!Here) :
             \/ \E plain \in BOOLEAN : M!Call(c, a, plain, M!NoCapture)
             \/ M!Call(c, a, FALSE, M!Capturing)
             \/ M!TailCall(c, a)
  BY <1>8 DEF M!Call, M!TailCall, M!Able, M!export
<1> QED
  BY <1>1, <1>2, <1>3, <1>4, <1>5, <1>6, <1>7, <1>8

LEMMA MachineServed ==
  ASSUME M!Assumption, IInv, Shape, Sound, Served, MachineStep
  PROVE  Served'
<1>1. M!Step /\ UNCHANGED <<guest, ready, poisoned, pc, given, next>>
  BY DEF MachineStep, vars, flags, call
<1>2. job # "none" /\ UNCHANGED <<job, stored>> /\ job \in {"prepare", "create", "run"}
  BY <1>1, StepJob DEF Shape, M!Jobs
<1>3. MoreSources' <=> MoreSources
  BY <1>1 DEF MoreSources
<1>4. CASE job = "prepare"
  <2>1. pc = "sources" /\ poisoned
    BY <1>4 DEF Served, IInv, Initializing
  <2> QED
    BY <1>1, <1>2, <1>4, <2>1 DEF Served, AllReady
<1>5. CASE job = "create"
  <2>1. pc = "inject" /\ poisoned /\ AllReady(demand) /\ demand' = demand
    BY <1>1, <1>5, StepReady DEF Served, IInv, Initializing
  <2> QED
    BY <1>1, <1>2, <1>3, <1>5, <2>1 DEF Served, AllReady
<1>6. CASE job = "run"
  <2>1. pc = "call" /\ AsBuilt /\ AllReady(demand)
    BY <1>6 DEF Served, IInv, InRequest, AsBuilt
  <2>2. UNCHANGED <<demand, service>> /\ Lasts
    BY <1>1, <2>1, StepReady, StepLasts
  <2>3. AsBuilt'
    BY <1>2, <2>1, <2>2, BuiltKept
  <2> QED
    BY <1>1, <1>2, <1>6, <2>1, <2>2, <2>3 DEF Served, AllReady
<1> QED
  BY <1>2, <1>4, <1>5, <1>6

(* The guest is called.                                                    *)
LEMMA CalledServed ==
  ASSUME M!Assumption, IInv, Shape, Sound, Served, BeginPrepare \/ BeginCreate \/ BeginRun
  PROVE  Served'
<1>1. UNCHANGED <<guest, ready, poisoned, pc, given, next>>
  BY DEF BeginPrepare, BeginCreate, BeginRun, vars, flags, call
<1>2. MoreSources' <=> MoreSources
  BY <1>1 DEF MoreSources
<1>3. CASE BeginPrepare
  <2>1. pc = "sources" /\ poisoned /\ job' = "prepare" /\ UNCHANGED stored
    BY <1>3 DEF BeginPrepare, M!BeginPrepare, IInv, Initializing
  <2> QED
    BY <1>1, <2>1 DEF Served, AllReady
<1>4. CASE BeginCreate
  <2>1. /\ pc = "inject" /\ ~MoreSources /\ guest.phase = "Prepared"
        /\ poisoned /\ job' = "create" /\ UNCHANGED <<demand, stored>>
    BY <1>4 DEF BeginCreate, M!BeginCreate, M!Invoke, IInv, Initializing
  <2> QED
    BY <1>1, <1>2, <2>1 DEF Served, AllReady
<1>5. CASE BeginRun
  <2>1. pc = "call" /\ M!BeginRun /\ job' = "run" /\ UNCHANGED <<demand, service, stored>>
    BY <1>5 DEF BeginRun, M!BeginRun, M!Invoke
  <2>2. AsBuilt
    BY <2>1 DEF Served, IInv, InRequest
  <2>3. AsBuilt'
    BY <2>1, <2>2, RunLasts, BuiltKept
  <2> QED
    BY <1>1, <2>1, <2>3 DEF Served, AllReady
<1> QED
  BY <1>3, <1>4, <1>5

(* The guest returns while the service is initialized.                     *)
LEMMA PreparedServed ==
  ASSUME IInv, Served, EndPrepare
  PROVE  Served'
<1>1. /\ pc = "sources" /\ poisoned' /\ pc' \in {"inject", "idle"} /\ job' = "none"
      /\ UNCHANGED <<demand, stored>>
  BY DEF EndPrepare, FetchNames, M!EndPrepare, M!FailPrepare, M!Execution, flags, IInv, Initializing
<1>2. guest'.phase = "Prepared" => AllReady(demand)
  BY DEF EndPrepare, M!EndPrepare, AllReady
<1> QED
  BY <1>1, <1>2 DEF Served, AllReady

LEMMA InjectedServed ==
  ASSUME IInv, Served, EndInject
  PROVE  Served'
<1>1. /\ pc = "inject" /\ MoreSources /\ poisoned /\ UNCHANGED <<pc, poisoned>>
      /\ guest' \in SetSource(guest, names[next], given[next])
  BY DEF EndInject, InjectSource, flags, IInv, Initializing
<1>2. UNCHANGED <<demand, stored, job>>
  BY DEF EndInject, M!StoreSource, machine
<1>3. guest'.phase = "Prepared" => guest.phase = "Prepared"
  <2> DEFINE n == names[next]
             d == given[next]
  <2>1. guest \in Instance /\ guest' \in SetSource(guest, n, d)
    BY <1>1 DEF IInv, TypeOK
  <2> HIDE DEF n, d
  <2> QED
    BY <2>1 DEF SetSource, Instance
<1> QED
  BY <1>1, <1>2, <1>3 DEF Served, AllReady

LEMMA CreatedServed ==
  ASSUME IInv, Served, EndCreate
  PROVE  Served'
<1>1. /\ pc = "inject" /\ poisoned /\ UNCHANGED poisoned /\ guest' \in Create(guest)
      /\ pc' = (IF guest'.phase = "Ready" THEN "compact" ELSE "idle")
  BY DEF EndCreate, CreateService, flags, IInv, Initializing
<1>2. UNCHANGED <<demand, stored>> /\ job' = "none"
  BY DEF EndCreate, M!EndCreate, M!FailCreate, M!Execution, machine, M!Idle
<1>3. guest'.phase = "Ready" => AllReady(demand)
  <2>1. guest.phase \in {"Prepared", "Failed"}
    BY <1>1 DEF IInv, Injected
  <2>2. guest'.phase = "Ready" => guest.phase = "Prepared"
    BY <1>1, <2>1 DEF Create, IsPrepared
  <2> QED
    BY <1>1, <2>2 DEF Served
<1> QED
  BY <1>1, <1>2, <1>3 DEF Served, AllReady

(* The answer is read, and the instance is what it was.                    *)
LEMMA AnsweredServed ==
  ASSUME IInv, Served, EndRun
  PROVE  Served'
<1>1. pc = "call" /\ pc' = "respond" /\ UNCHANGED <<ready, poisoned>>
  BY DEF EndRun, RunService, flags
<1>2. UNCHANGED <<heap, demand, calls, service, stored>> /\ job' = "none"
  BY DEF EndRun, M!EndRun, M!Execution, M!stack, machine, M!Idle
<1>3. AsBuilt => AsBuilt'
  BY <1>2 DEF AsBuilt, Baseline
<1> QED
  BY <1>1, <1>2, <1>3 DEF Served, AllReady

(* What the host does alone.                                               *)
LEMMA HostServed ==
  ASSUME IInv, Served, HostOnly
  PROVE  Served'
<1>1. UNCHANGED <<heap, demand, calls, frames, scratch, feedback, error, failing, service, job, stored>>
  BY DEF HostOnly, machine
<1>2. (AsBuilt <=> AsBuilt') /\ (Rested <=> Rested') /\ (AllReady(stored.demand) <=> AllReady(stored'.demand))
  BY <1>1 DEF AsBuilt, Baseline, Rested
<1>3. ASSUME NEW s \in Given, Initialize(s)
      PROVE  Served'
  <2>1. pc = "idle" /\ pc' \in {"import", "sources"} /\ poisoned'
    BY <1>3 DEF Initialize
  <2> QED
    BY <1>1, <1>2, <2>1 DEF Served
<1>4. CASE NameMismatch
  <2>1. pc = "inject" /\ pc' = "idle" /\ poisoned' /\ MoreSources
    BY <1>4 DEF NameMismatch, FailInitialize, flags, IInv, Initializing
  <2> QED
    BY <1>1, <1>2, <2>1 DEF Served
<1>5. ASSUME NEW x \in Requests, Request(x)
      PROVE  Served'
  <2>1. pc = "idle" /\ pc' = "reset" /\ UNCHANGED <<ready, poisoned>>
    BY <1>5 DEF Request, flags
  <2> QED
    BY <1>1, <1>2, <2>1 DEF Served
<1>6. CASE Transfer
  <2>1. pc = "run" /\ pc' = "call" /\ UNCHANGED <<ready, poisoned>>
    BY <1>6 DEF Transfer, flags
  <2> QED
    BY <1>1, <1>2, <2>1 DEF Served
<1>7. CASE Respond
  <2>1. pc = "respond" /\ pc' = "idle" /\ UNCHANGED <<ready, poisoned>>
    BY <1>7 DEF Respond, flags
  <2> QED
    BY <1>1, <1>2, <2>1 DEF Served
<1> QED
  BY <1>3, <1>4, <1>5, <1>6, <1>7 DEF HostOnly

-----------------------------------------------------------------------------
(* Instances.                                                              *)

LEMMA RestoredBuilt ==
  ASSUME M!Assumption, NEW i, Heaps(i.heap), M!Restore(i), stored' = i
  PROVE  AsBuilt' /\ Rested' /\ job' = "none" /\ demand' = i.demand
<1>1. /\ heap' = i.heap /\ demand' = i.demand /\ calls' = <<>> /\ frames' = <<>> /\ scratch' = 0
      /\ feedback' = i.feedback /\ error' = M!None /\ failing' = FALSE /\ job' = "none"
      /\ service'.handler = i.handler
  BY DEF M!Restore, M!NoService
<1>2. Baseline' \subseteq DOMAIN heap'
  <2> DEFINE R == {i.handler} \cup {i.demand[d].value : d \in M!Globals}
             h == i.heap
  <2>1. Baseline' = M!Reached(h, R)
    BY DEF Baseline
  <2> HIDE DEF R, h
  <2>2. Heaps(h) /\ heap' = h
    BY <1>1 DEF h
  <2> QED
    BY <2>1, <2>2, ReachedHas
<1>3. Places(calls') = {}
  BY <1>1 DEF Places
<1>4. Spared(Baseline', stored'.heap, heap')
  BY <1>1, <1>2 DEF Spared
<1>5. AsBuilt'
  BY <1>1, <1>3, <1>4 DEF AsBuilt
<1> QED
  BY <1>1, <1>5 DEF Rested

LEMMA CompactedServed ==
  ASSUME M!Assumption, IInv, Shape, Sound, Served, CompactInstance
  PROVE  Served'
<1> DEFINE i == M!Image
<1>1. pc = "compact" /\ pc' = "settle" /\ stored' = i /\ M!Restore(i) /\ i.demand = demand
  BY DEF CompactInstance, Compact, Publish, M!Export, M!Image
<1>2. Pictured(i)
  BY ImagePictured DEF CompactInstance, M!Export, Sound
<1> HIDE DEF i
<1>3. AsBuilt' /\ job' = "none"
  BY <1>1, <1>2, RestoredBuilt DEF Pictured
<1>4. AllReady(stored'.demand)
  BY <1>1 DEF Served
<1> QED
  BY <1>1, <1>3, <1>4 DEF Served

LEMMA ReplacedServed ==
  ASSUME M!Assumption, IInv, Sound, Served, ImportInstance \/ ReplaceInstance
  PROVE  Served'
<1> DEFINE i == stored
<1>1. /\ pc' \in {"settle", "idle", "run"} /\ stored' = i /\ M!Restore(i) /\ Heaps(i.heap)
  BY DEF ImportInstance, ImportImage, Publish, ReplaceInstance, Reinstantiate, Settled, M!Import,
         Sound, Pictured
<1> HIDE DEF i
<1>2. AsBuilt' /\ Rested' /\ job' = "none"
  BY <1>1, RestoredBuilt
<1>3. AllReady(stored'.demand)
  BY <1>1 DEF Served, i
<1> QED
  BY <1>1, <1>2, <1>3 DEF Served

LEMMA ResetServed ==
  ASSUME IInv, Served, ResetInstance
  PROVE  Served'
<1>1. /\ pc \in Resets /\ ~poisoned /\ ready /\ pc' \in {"idle", "run"} /\ UNCHANGED ready
  BY DEF ResetInstance, ResetInPlace, Settled, Resets, IInv, InRequest
<1>2. ResetAsserts(guest)
  BY <1>1 DEF IInv, Whole, ResetAsserts, Resets
<1>3. /\ calls' = <<>> /\ frames' = <<>> /\ scratch' = 0 /\ feedback' = <<>> /\ error' = M!None
      /\ failing' = FALSE /\ UNCHANGED <<heap, demand, service, stored, job>> /\ job = "none"
  BY <1>2 DEF ResetInstance, M!Reset, M!ResetFeedback, M!export, M!Idle
<1>4. Rested'
  BY <1>3 DEF Rested
<1>5. Places(calls') = {}
  BY <1>3 DEF Places
<1>6. AsBuilt'
  BY <1>1, <1>3, <1>5 DEF Served, AsBuilt, Baseline
<1> QED
  BY <1>1, <1>3, <1>4, <1>6 DEF Served, AllReady

LEMMA LostServed ==
  ASSUME IInv, Served, LoseInstance
  PROVE  Served'
<1>1. pc' = "idle" /\ (poisoned' \/ ~ready')
  BY DEF LoseInstance, InitializeTraps, FailInitialize, RequestFails, Poison, ResetFails, flags,
         IInv, Initializing
<1>2. job' = "none" /\ UNCHANGED stored
  BY DEF LoseInstance, M!Trap, M!Restore
<1> QED
  BY <1>1, <1>2 DEF Served, AllReady

-----------------------------------------------------------------------------
LEMMA NextServed ==
  ASSUME M!Assumption, IInv, Shape, Sound, Served, [ServingNext]_<<vars, machine>>
  PROVE  Served'
<1>1. CASE UNCHANGED <<vars, machine>>
  <2>1. /\ UNCHANGED <<heap, demand, calls, frames, scratch, feedback, error, failing, service, job, stored>>
        /\ UNCHANGED <<guest, ready, poisoned, pc, given, next>>
    BY <1>1 DEF machine, vars, flags, call
  <2>2. (AsBuilt <=> AsBuilt') /\ (Rested <=> Rested') /\ (MoreSources <=> MoreSources')
    BY <2>1 DEF AsBuilt, Baseline, Rested, MoreSources
  <2> QED
    BY <2>1, <2>2 DEF Served, AllReady
<1>2. CASE ServingNext
  BY <1>2, MachineServed, CalledServed, PreparedServed, InjectedServed, CreatedServed, AnsweredServed,
     HostServed, CompactedServed, ReplacedServed, ResetServed, LostServed
     DEF ServingNext
<1> QED
  BY <1>1, <1>2

(* An instance that may serve a request has the globals and the handler of *)
(* the image, and all they refer to as it was.                             *)
THEOREM ServingServed == ServingSpec => []Served
<1> USE MachineAssumption
<1>1. ServingInit => Served
  BY InitServed
<1>2. IInv /\ Shape /\ Sound /\ Served /\ [ServingNext]_<<vars, machine>> => Served'
  BY NextServed
<1>3. ServingSpec => []IInv
  BY ServingRunner, RunnerInvariant, PTL
<1> QED
  BY <1>1, <1>2, <1>3, ServingShape, ServingSound, PTL DEF ServingSpec

(* Every request starts on the machine the service was published with,     *)
(* whether the instance was reset in place or replaced after a trap.       *)
THEOREM ServingStartsClean == ServingSpec => []StartsClean
<1>1. IInv /\ Served => StartsClean
  BY ServedClean
<1>2. ServingSpec => []IInv
  BY ServingRunner, RunnerInvariant, PTL
<1> QED
  BY <1>1, <1>2, ServingServed, PTL

=============================================================================
