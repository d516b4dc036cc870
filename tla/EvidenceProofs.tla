--------------------------- MODULE EvidenceProofs ---------------------------
(* What the evidence queue promises for every set of goals and every       *)
(* program: no proof rests on itself, a closed verdict stays, and          *)
(* propagation forgets nobody.                                             *)
EXTENDS EvidenceQueue, SequenceTheorems, FiniteSetTheorems, Iteration, TLAPS

USE EvidenceAssumption

-----------------------------------------------------------------------------
(* Sequences and counts.                                                   *)

LEMMA FunctionIsSeq ==
  ASSUME NEW S, NEW n \in Nat, NEW f \in [1 .. n -> S]
  PROVE  f \in Seq(S) /\ Len(f) = n
BY SeqDef

LEMMA AppendState ==
  ASSUME NEW n \in Nat, NEW s \in [1 .. n -> State]
  PROVE  /\ Append(s, "Pending") \in [1 .. n + 1 -> State]
         /\ \A i \in 1 .. n : Append(s, "Pending")[i] = s[i]
         /\ Append(s, "Pending")[n + 1] = "Pending"
<1>1. "Pending" \in State
  BY DEF State
<1>2. s \in Seq(State) /\ Len(s) = n
  BY FunctionIsSeq
<1>3. /\ Append(s, "Pending") \in Seq(State) /\ Len(Append(s, "Pending")) = n + 1
      /\ \A i \in 1 .. n : Append(s, "Pending")[i] = s[i]
      /\ Append(s, "Pending")[n + 1] = "Pending"
  BY <1>1, <1>2, AppendProperties
<1>4. Append(s, "Pending") \in [1 .. n + 1 -> State]
  BY <1>3, LenProperties
<1> QED
  BY <1>3, <1>4

LEMMA AppendDeps ==
  ASSUME NEW n \in Nat, NEW d \in [1 .. n -> Seq(1 .. n + 1)]
  PROVE  /\ Append(d, <<>>) \in [1 .. n + 1 -> Seq(1 .. n + 1)]
         /\ \A i \in 1 .. n : Append(d, <<>>)[i] = d[i]
         /\ Append(d, <<>>)[n + 1] = <<>>
<1>1. <<>> \in Seq(1 .. n + 1)
  BY EmptySeq
<1>2. d \in Seq(Seq(1 .. n + 1)) /\ Len(d) = n
  BY FunctionIsSeq
<1>3. /\ Append(d, <<>>) \in Seq(Seq(1 .. n + 1)) /\ Len(Append(d, <<>>)) = n + 1
      /\ \A i \in 1 .. n : Append(d, <<>>)[i] = d[i]
      /\ Append(d, <<>>)[n + 1] = <<>>
  BY <1>1, <1>2, AppendProperties
<1>4. Append(d, <<>>) \in [1 .. n + 1 -> Seq(1 .. n + 1)]
  BY <1>3, LenProperties
<1> QED
  BY <1>3, <1>4

LEMMA AppendNode ==
  ASSUME NEW S, NEW s \in Seq(S), NEW x \in S
  PROVE  /\ Append(s, x) \in Seq(S)
         /\ Len(Append(s, x)) = Len(s) + 1
         /\ \A i \in 1 .. Len(s) : Append(s, x)[i] = s[i]
         /\ Append(s, x)[Len(s) + 1] = x
BY AppendProperties

LEMMA WiderSeq ==
  ASSUME NEW m \in Nat, NEW n \in Nat, m <= n, NEW s \in Seq(1 .. m)
  PROVE  s \in Seq(1 .. n)
<1>1. 1 .. m \subseteq 1 .. n
  OBVIOUS
<1> QED
  BY <1>1, SeqMonotonic

LEMMA PositionsFinite ==
  ASSUME NEW S, NEW s \in Seq(S), NEW T \in SUBSET (DOMAIN s)
  PROVE  IsFiniteSet(T) /\ Cardinality(T) \in Nat
<1>1. DOMAIN s = 1 .. Len(s) /\ Len(s) \in Nat
  BY LenProperties
<1>2. IsFiniteSet(DOMAIN s)
  BY <1>1, FS_Interval
<1>3. IsFiniteSet(T)
  BY <1>2, FS_Subset
<1> QED
  BY <1>3, FS_CardinalityType

LEMMA DisjointCount ==
  ASSUME NEW A, IsFiniteSet(A), NEW B \in SUBSET A
  PROVE  Cardinality(A \ B) = Cardinality(A) - Cardinality(B)
<1>1. IsFiniteSet(B) /\ A \cap B = B
  BY FS_Subset
<1>2. Cardinality(A \ B) = Cardinality(A) - Cardinality(A \cap B)
  BY FS_Difference
<1> QED
  BY <1>1, <1>2

-----------------------------------------------------------------------------
(* The steps that ask for goals add nodes and, at most, dependencies of    *)
(* the node that is being scanned.                                         *)

Grows(c) ==
    /\ Len(nodes') \in Nat /\ Len(nodes) <= Len(nodes')
    /\ nodes' \in Seq(Goal)
    /\ state' \in [1 .. Len(nodes') -> State]
    /\ deps' \in [1 .. Len(nodes') -> Seq(1 .. Len(nodes'))]
    /\ \A i \in 1 .. Len(nodes) :
         /\ nodes'[i] = nodes[i]
         /\ state'[i] = state[i]
         /\ i # c => deps'[i] = deps[i]
    /\ \A i \in Len(nodes) + 1 .. Len(nodes') : state'[i] = "Pending" /\ deps'[i] = <<>>

LEMMA AskGrows ==
  ASSUME TypeOK, NEW g \in Goal, ~Asked(g), Ask(g), deps' = Append(deps, <<>>)
  PROVE  Grows(0) /\ Len(nodes') = Len(nodes) + 1
<1> DEFINE n == Len(nodes)
<1>1. n \in Nat
  BY LenProperties DEF TypeOK
<1>2. nodes' = Append(nodes, g) /\ state' = Append(state, "Pending")
  BY DEF Ask
<1>3. /\ nodes' \in Seq(Goal) /\ Len(nodes') = n + 1
      /\ \A i \in 1 .. n : nodes'[i] = nodes[i]
  BY <1>2, AppendNode DEF TypeOK
<1>4. /\ state' \in [1 .. n + 1 -> State]
      /\ \A i \in 1 .. n : state'[i] = state[i]
      /\ state'[n + 1] = "Pending"
  BY <1>1, <1>2, AppendState DEF TypeOK
<1>5. deps \in [1 .. n -> Seq(1 .. n + 1)]
  BY <1>1, WiderSeq DEF TypeOK
<1>6. /\ deps' \in [1 .. n + 1 -> Seq(1 .. n + 1)]
      /\ \A i \in 1 .. n : deps'[i] = deps[i]
      /\ deps'[n + 1] = <<>>
  BY <1>1, <1>5, AppendDeps
<1> QED
  BY <1>1, <1>3, <1>4, <1>6 DEF Grows

LEMMA RequireGrows ==
  ASSUME TypeOK, Require, cursor # 0
  PROVE  Grows(cursor) /\ todo' \in Seq(Goal \cup {Free})
<1> DEFINE n == Len(nodes)
           g == Head(todo)
<1>1. n \in Nat /\ cursor \in 1 .. n
  BY LenProperties DEF TypeOK
<1>2. g \in Goal /\ todo' \in Seq(Goal \cup {Free})
  BY HeadTailProperties DEF TypeOK, Require
<1>3. PICK i \in DOMAIN nodes' :
        /\ nodes'[i] = g
        /\ deps' = IF Asked(g) THEN [deps EXCEPT ![cursor] = Append(@, i)]
                   ELSE Append([deps EXCEPT ![cursor] = Append(@, i)], <<>>)
  BY DEF Require
<1> DEFINE known == [deps EXCEPT ![cursor] = Append(@, i)]
<1>4. CASE Asked(g)
  <2>1. UNCHANGED <<nodes, state>> /\ deps' = known
    BY <1>3, <1>4 DEF Require, Ask
  <2>2. i \in 1 .. n
    BY <1>3, <2>1, LenProperties DEF TypeOK
  <2>3. deps[cursor] \in Seq(1 .. n)
    BY <1>1 DEF TypeOK
  <2>4. Append(deps[cursor], i) \in Seq(1 .. n)
    BY <2>2, <2>3, AppendNode
  <2>5. deps' \in [1 .. n -> Seq(1 .. n)] /\ \A j \in 1 .. n : j # cursor => deps'[j] = deps[j]
    BY <1>1, <2>1, <2>4 DEF TypeOK
  <2> QED
    BY <1>1, <1>2, <2>1, <2>5 DEF Grows, TypeOK
<1>5. CASE ~Asked(g)
  <2>1. nodes' = Append(nodes, g) /\ state' = Append(state, "Pending") /\ deps' = Append(known, <<>>)
    BY <1>3, <1>5 DEF Require, Ask
  <2>2. /\ nodes' \in Seq(Goal) /\ Len(nodes') = n + 1
        /\ \A j \in 1 .. n : nodes'[j] = nodes[j]
    BY <1>2, <2>1, AppendNode DEF TypeOK
  <2>3. /\ state' \in [1 .. n + 1 -> State]
        /\ \A j \in 1 .. n : state'[j] = state[j]
        /\ state'[n + 1] = "Pending"
    <3>1. state \in [1 .. n -> State]
      BY DEF TypeOK
    <3>2. state' = Append(state, "Pending")
      BY <2>1
    <3> QED
      BY <1>1, <3>1, <3>2, AppendState
  <2>4. i \in 1 .. n + 1
    BY <1>3, <2>2, LenProperties
  <2>5. deps \in [1 .. n -> Seq(1 .. n + 1)]
    BY <1>1, WiderSeq DEF TypeOK
  <2>6. deps[cursor] \in Seq(1 .. n + 1)
    BY <1>1, <2>5
  <2>7. Append(deps[cursor], i) \in Seq(1 .. n + 1)
    BY <2>4, <2>6, AppendNode
  <2>8. known \in [1 .. n -> Seq(1 .. n + 1)] /\ \A j \in 1 .. n : j # cursor => known[j] = deps[j]
    BY <1>1, <2>5, <2>7
  <2>9. /\ deps' \in [1 .. n + 1 -> Seq(1 .. n + 1)]
        /\ \A j \in 1 .. n : deps'[j] = known[j]
        /\ deps'[n + 1] = <<>>
    <3> HIDE DEF known
    <3> QED
      BY <1>1, <2>1, <2>8, AppendDeps
  <2> QED
    BY <1>1, <1>2, <2>2, <2>3, <2>8, <2>9 DEF Grows
<1> QED
  BY <1>4, <1>5

-----------------------------------------------------------------------------
(* Where the solver is, and what its counters count.                       *)

Order ==
    /\ pc = "bounds" => cursor = 0 /\ start = 0
    /\ pc = "require" => start < cursor /\ state[cursor] \in {"Pending", "Unresolved"}
    /\ pc \in {"propagate", "idle"} => cursor = Len(nodes)
    /\ pc # "propagate" => ready = {}
    /\ pc # "stopped" => \A i \in cursor + 1 .. Len(nodes) : state[i] = "Pending"

Waiting(j) == j \in InBatch /\ state[j] = "Pending"

Counted ==
    pc = "propagate" =>
      /\ \A j \in InBatch : Waiting(j) => waiting[j] = Waits(j)
      /\ ready = {j \in InBatch : Waiting(j) /\ waiting[j] = 0}

LEMMA Positions ==
  ASSUME TypeOK
  PROVE  /\ Len(nodes) \in Nat /\ cursor \in Nat /\ start \in Nat
         /\ start <= cursor /\ cursor <= Len(nodes)
         /\ DOMAIN nodes = 1 .. Len(nodes) /\ DOMAIN state = 1 .. Len(nodes)
         /\ InBatch \subseteq 1 .. Len(nodes)
         /\ \A i \in 1 .. Len(nodes) : nodes[i] \in Goal
<1>1. nodes \in Seq(Goal) /\ Len(nodes) \in Nat /\ DOMAIN nodes = 1 .. Len(nodes)
  BY LenProperties DEF TypeOK
<1>2. \A i \in 1 .. Len(nodes) : nodes[i] \in Goal
  BY <1>1, ElementOfSeq
<1> QED
  BY <1>1, <1>2 DEF TypeOK, InBatch

LEMMA WaitsCount ==
  ASSUME TypeOK, NEW i \in 1 .. Len(nodes)
  PROVE  /\ IsFiniteSet(Unproven(i))
         /\ Waits(i) \in Nat
         /\ Waits(i) = 0 <=> Unproven(i) = {}
<1>1. deps[i] \in Seq(1 .. Len(nodes)) /\ Unproven(i) \subseteq DOMAIN deps[i]
  BY DEF TypeOK, Unproven
<1>2. IsFiniteSet(Unproven(i)) /\ Cardinality(Unproven(i)) \in Nat
  BY <1>1, PositionsFinite
<1> QED
  BY <1>2, FS_EmptySet DEF Waits

LEMMA ChosenNeeds ==
  ASSUME TypeOK, NEW g \in Goal, NEW m \in Chosen(g)
  PROVE  m.needs \in Seq(Goal \cup {Free})
<1>1. m \in program[g].impls
  BY DEF Chosen, Candidates
<1>2. m \in Impl
  BY <1>1 DEF TypeOK
<1> QED
  BY <1>2 DEF Impl

LEMMA InitInvariant == Init => TypeOK /\ Order /\ Counted
<1> SUFFICES ASSUME Init PROVE TypeOK /\ Order /\ Counted
  OBVIOUS
<1>1. <<>> \in Seq(Goal) /\ <<>> \in Seq(Goal \cup {Free}) /\ Len(nodes) = 0
  BY EmptySeq DEF Init
<1>2. <<>> \in [1 .. 0 -> State] /\ <<>> \in [1 .. 0 -> Seq(1 .. 0)]
  OBVIOUS
<1> QED
  BY <1>1, <1>2 DEF Init, TypeOK, Order, Counted, Stages

-----------------------------------------------------------------------------
(* Each step keeps the types, the order of the batch and the counts.       *)

LEMMA RequestKeeps ==
  ASSUME TypeOK, Order, NEW g \in Goal, RequestBound(g) \/ RequestInstance(g)
  PROVE  TypeOK' /\ Order' /\ Counted'
<1>1. Grows(0) /\ Len(nodes') = Len(nodes) + 1
  BY AskGrows DEF RequestBound, RequestInstance
<1>2. ready' = {} /\ cursor' = cursor /\ start' \in 0 .. cursor /\ todo' = todo /\ program' = program
  BY Positions DEF RequestBound, RequestInstance, Order, batch, TypeOK
<1>3. pc' \in {"bounds", "scan"}
  BY DEF RequestBound, RequestInstance
<1>4. TypeOK'
  BY <1>1, <1>2, <1>3, Positions DEF TypeOK, Grows, Stages
<1>5. \A i \in cursor' + 1 .. Len(nodes') : state'[i] = "Pending"
  BY <1>1, <1>2, Positions DEF Grows, Order, RequestBound, RequestInstance
<1>6. Order'
  BY <1>2, <1>3, <1>5 DEF Order, RequestBound, RequestInstance
<1> QED
  BY <1>3, <1>4, <1>6 DEF Counted

LEMMA RequireKeeps ==
  ASSUME TypeOK, Order, Require
  PROVE  TypeOK' /\ Order' /\ Counted'
<1>1. cursor # 0 /\ pc = "require" /\ cursor \in 1 .. Len(nodes)
  BY Positions DEF Require, Order
<1>2. Grows(cursor) /\ todo' \in Seq(Goal \cup {Free})
  BY <1>1, RequireGrows
<1>3. UNCHANGED <<program, cursor, start, pc, ready>>
  BY DEF Require, batch
<1>4. TypeOK'
  BY <1>1, <1>2, <1>3, Positions DEF TypeOK, Grows, Order
<1>5. state'[cursor] = state[cursor]
  BY <1>1, <1>2 DEF Grows
<1>6. \A i \in cursor' + 1 .. Len(nodes') : state'[i] = "Pending"
  BY <1>1, <1>2, <1>3, Positions DEF Grows, Order
<1> QED
  BY <1>1, <1>3, <1>4, <1>5, <1>6 DEF Order, Counted

LEMMA ScanKeeps ==
  ASSUME TypeOK, Order,
         ProveBounds \/ ScanDecided \/ ScanImplementation \/ RequireOpen \/ Required \/ Exhaust
  PROVE  TypeOK' /\ Order' /\ Counted'
<1>1. CASE ProveBounds
  BY <1>1, Positions DEF ProveBounds, TypeOK, Order, Counted, Stages, graph, batch, InBatch
<1>2. CASE ScanDecided
  <2>1. state' \in [1 .. Len(nodes) -> State]
    BY <1>2 DEF ScanDecided, TypeOK, State, Refused
  <2> QED
    BY <1>2, <2>1, Positions DEF ScanDecided, Scanning, TypeOK, Order, Counted, InBatch, batch
<1>3. CASE ScanImplementation
  <2>1. cursor + 1 \in 1 .. Len(nodes) /\ nodes[cursor + 1] \in Goal
    BY <1>3, Positions DEF ScanImplementation, Scanning
  <2>2. todo' \in Seq(Goal \cup {Free})
    BY <1>3, <2>1, ChosenNeeds DEF ScanImplementation
  <2> QED
    BY <1>3, <2>1, <2>2, Positions
    DEF ScanImplementation, Scanning, TypeOK, Order, Counted, Stages, InBatch, batch, graph
<1>4. CASE RequireOpen
  <2>1. state' \in [1 .. Len(nodes) -> State]
    BY <1>4 DEF RequireOpen, TypeOK, State
  <2>2. todo' \in Seq(Goal \cup {Free})
    BY <1>4, HeadTailProperties DEF RequireOpen, TypeOK
  <2> QED
    BY <1>4, <2>1, <2>2, Positions DEF RequireOpen, TypeOK, Order, Counted, InBatch, batch
<1>5. CASE Required
  BY <1>5, Positions DEF Required, TypeOK, Order, Counted, Stages, InBatch, graph, batch
<1>6. CASE Exhaust
  <2>1. state' \in [1 .. Len(nodes) -> State]
    BY <1>6, Positions DEF Exhaust, TypeOK, State
  <2> QED
    BY <1>6, <2>1, Positions DEF Exhaust, Scanning, TypeOK, Order, Counted, Stages, InBatch, batch
<1> QED
  BY <1>1, <1>2, <1>3, <1>4, <1>5, <1>6

LEMMA CountKeeps ==
  ASSUME TypeOK, Order, Count
  PROVE  TypeOK' /\ Order' /\ Counted'
<1>1. \A j \in InBatch : Waits(j) \in Nat
  BY WaitsCount, Positions
<1>2. waiting' = [j \in InBatch |-> IF state[j] = "Pending" THEN Waits(j) ELSE 0]
  BY DEF Count
<1>3. waiting' \in [InBatch -> Nat] /\ InBatch' = InBatch
  BY <1>1, <1>2 DEF Count, InBatch, graph
<1>4. \A j \in InBatch : Waits(j)' = Waits(j) /\ (Waiting(j)' <=> Waiting(j))
  BY <1>3 DEF Count, graph, Waits, Unproven, Waiting
<1>5. TypeOK'
  BY <1>3, Positions DEF Count, TypeOK, Stages, graph
<1>6. Order'
  BY Positions DEF Count, Order, graph
<1>7. ready' = {j \in InBatch : Waiting(j) /\ waiting'[j] = 0}
  BY <1>2 DEF Count, Waiting
<1>8. \A j \in InBatch : Waiting(j) => waiting'[j] = Waits(j)
  BY <1>2 DEF Waiting
<1> QED
  BY <1>3, <1>4, <1>5, <1>6, <1>7, <1>8 DEF Counted

(* The node that is propagated waits for nobody, itself included.          *)
LEMMA Propagated ==
  ASSUME TypeOK, Counted, NEW i, Propagate(i)
  PROVE  /\ i \in InBatch /\ i \in 1 .. Len(nodes)
         /\ state[i] = "Pending"
         /\ Unproven(i) = {}
         /\ Occurrences(i, i) = {}
         /\ \A j \in 1 .. Len(nodes) : j # i => state'[j] = state[j]
         /\ state' \in [1 .. Len(nodes) -> State]
<1>1. i \in ready /\ pc = "propagate"
  BY DEF Propagate
<1>2. i \in InBatch /\ Waiting(i) /\ waiting[i] = 0
  BY <1>1 DEF Counted
<1>3. i \in 1 .. Len(nodes) /\ state[i] = "Pending"
  BY <1>2, Positions DEF Waiting
<1>4. Waits(i) = 0
  BY <1>1, <1>2 DEF Counted
<1>5. Unproven(i) = {}
  BY <1>3, <1>4, WaitsCount
<1>6. Occurrences(i, i) = {}
  BY <1>3, <1>5 DEF Occurrences, Unproven, Proven
<1>7. state' = [state EXCEPT ![i] = "Implementation"]
  BY DEF Propagate
<1> QED
  BY <1>2, <1>3, <1>5, <1>6, <1>7 DEF TypeOK, State

LEMMA PropagateCounts ==
  ASSUME TypeOK, Order, Counted, NEW i, Propagate(i),
         NEW j \in InBatch, j # i, state[j] = "Pending"
  PROVE  /\ waiting'[j] \in Nat
         /\ waiting'[j] = Waits(j)'
         /\ j \notin Dependents(i) => waiting'[j] = waiting[j]
<1>1. j \in 1 .. Len(nodes) /\ waiting[j] = Waits(j) /\ Waiting(j)
  BY Positions DEF Propagate, Counted, Waiting
<1>2. \A h \in 1 .. Len(nodes) : Proven(state'[h]) <=> Proven(state[h]) \/ h = i
  BY Propagated DEF Propagate, Proven, TypeOK
<1>3. deps[j] \in Seq(1 .. Len(nodes)) /\ \A k \in DOMAIN deps[j] : deps[j][k] \in 1 .. Len(nodes)
  BY <1>1, LenProperties DEF TypeOK
<1>4. deps' = deps
  BY DEF Propagate
<1>5. Unproven(j)' = Unproven(j) \ Occurrences(i, j)
  BY <1>2, <1>3, <1>4 DEF Unproven, Occurrences
<1>6. Occurrences(i, j) \subseteq Unproven(j)
  BY Propagated DEF Unproven, Occurrences, Proven
<1>7. Waits(j)' = Waits(j) - Cardinality(Occurrences(i, j))
  BY <1>1, <1>5, <1>6, WaitsCount, DisjointCount DEF Waits
<1>8. IsFiniteSet(Unproven(j) \ Occurrences(i, j)) /\ Cardinality(Unproven(j) \ Occurrences(i, j)) \in Nat
  BY <1>3, PositionsFinite DEF Unproven
<1>9. Waits(j)' \in Nat
  BY <1>5, <1>8 DEF Waits
<1>10. waiting'[j] = IF j \in Dependents(i)
                       THEN waiting[j] - Cardinality(Occurrences(i, j)) ELSE waiting[j]
  BY DEF Propagate
<1>11. CASE j \in Dependents(i)
  BY <1>1, <1>7, <1>9, <1>10, <1>11
<1>12. CASE j \notin Dependents(i)
  <2>1. Occurrences(i, j) = {}
    BY <1>12 DEF Dependents
  <2> QED
    BY <1>1, <1>7, <1>9, <1>10, <1>12, <2>1, FS_EmptySet, WaitsCount
<1> QED
  BY <1>11, <1>12

LEMMA PropagateKeeps ==
  ASSUME TypeOK, Order, Counted, NEW i, Propagate(i)
  PROVE  TypeOK' /\ Order' /\ Counted'
<1>1. InBatch' = InBatch /\ pc = "propagate" /\ pc' = pc /\ i \in ready
  BY DEF Propagate, InBatch
<1>2. waiting \in [InBatch -> Nat]
  BY <1>1 DEF TypeOK
<1>3. \A j \in Dependents(i) : j \in InBatch /\ j # i /\ state[j] = "Pending"
  BY Propagated DEF Dependents
<1>4. waiting' \in [InBatch -> Nat]
  <2>1. \A j \in InBatch : j \in Dependents(i) => waiting'[j] \in Nat
    BY <1>3, PropagateCounts
  <2>2. \A j \in InBatch : j \notin Dependents(i) => waiting'[j] = waiting[j]
    BY DEF Propagate
  <2> QED
    BY <1>2, <2>1, <2>2 DEF Propagate
<1>5. \A j \in InBatch : Waiting(j)' <=> Waiting(j) /\ j # i
  BY <1>1, Propagated, Positions DEF Waiting, Propagate, TypeOK
<1>6. \A j \in InBatch : Waiting(j)' => waiting'[j] = Waits(j)'
  BY <1>5, PropagateCounts DEF Waiting
<1>7. ready' = (ready \ {i}) \cup {j \in Dependents(i) : waiting'[j] = 0}
  BY DEF Propagate
<1>8. ready = {j \in InBatch : Waiting(j) /\ waiting[j] = 0}
  BY <1>1 DEF Counted
<1>9. ready' = {j \in InBatch : Waiting(j)' /\ waiting'[j] = 0}
  <2>1. ASSUME NEW j \in InBatch, Waiting(j), j # i
        PROVE  j \in ready' <=> waiting'[j] = 0
    <3>1. CASE j \in Dependents(i)
      <4>1. waiting[j] # 0
        <5>1. Occurrences(i, j) # {} /\ waiting[j] = Waits(j) /\ j \in 1 .. Len(nodes)
          BY <1>1, <2>1, <3>1, Positions DEF Dependents, Counted
        <5>2. Unproven(j) # {}
          BY <5>1, Propagated DEF Unproven, Occurrences, Proven
        <5> QED
          BY <5>1, <5>2, WaitsCount
      <4> QED
        BY <1>7, <1>8, <3>1, <4>1
    <3>2. CASE j \notin Dependents(i)
      BY <1>7, <1>8, <2>1, <3>2 DEF Propagate
    <3> QED
      BY <3>1, <3>2
  <2>2. \A j \in ready' : j \in InBatch /\ Waiting(j) /\ j # i
    BY <1>3, <1>7, <1>8 DEF Waiting
  <2> QED
    BY <1>5, <2>1, <2>2
<1>10. TypeOK'
  BY <1>1, <1>4, <1>9, Propagated DEF Propagate, TypeOK
<1>11. Order'
  BY <1>1, Positions, Propagated DEF Propagate, Order
<1> QED
  BY <1>1, <1>6, <1>9, <1>10, <1>11 DEF Counted

LEMMA CloseKeeps ==
  ASSUME TypeOK, Order, Close
  PROVE  TypeOK' /\ Order' /\ Counted'
<1>1. state' \in [1 .. Len(nodes) -> State]
  BY Positions DEF Close, TypeOK, State
<1>2. pc' \in {"idle", "stopped"} /\ ready' = {} /\ cursor = Len(nodes)
  BY DEF Close, Order
<1> QED
  BY <1>1, <1>2, Positions DEF Close, TypeOK, Order, Counted, Stages, InBatch

LEMMA NextKeeps ==
  ASSUME TypeOK, Order, Counted, [Next]_vars
  PROVE  TypeOK' /\ Order' /\ Counted'
<1>1. CASE Next
  <2>1. ASSUME NEW g \in Goal, RequestBound(g) \/ RequestInstance(g)
        PROVE  TypeOK' /\ Order' /\ Counted'
    BY <2>1, RequestKeeps
  <2>2. ASSUME NEW i \in DOMAIN nodes, Propagate(i)
        PROVE  TypeOK' /\ Order' /\ Counted'
    BY <2>2, PropagateKeeps
  <2> QED
    BY <1>1, <2>1, <2>2, RequireKeeps, ScanKeeps, CountKeeps, CloseKeeps DEF Next, Solve
<1>2. CASE UNCHANGED vars
  <2>1. UNCHANGED <<program, nodes, state, deps, cursor, start, pc, todo, waiting, ready>>
    BY <1>2 DEF vars, graph, batch
  <2>2. InBatch' = InBatch
    BY <2>1 DEF InBatch
  <2>3. TypeOK' /\ Order'
    BY <2>1, <2>2 DEF TypeOK, Order
  <2>4. Counted'
    BY <2>1, <2>2 DEF Counted, Waits, Waiting, Unproven
  <2> QED
    BY <2>3, <2>4
<1> QED
  BY <1>1, <1>2

(* Every reachable state is well typed, and in a batch that is propagated  *)
(* the counters count: pending nodes wait for exactly their unproven       *)
(* dependencies and the queue holds exactly those that wait for none.      *)
THEOREM EvidenceCounts == Spec => [](TypeOK /\ Order /\ Counted)
<1>1. TypeOK /\ Order /\ Counted /\ [Next]_vars => TypeOK' /\ Order' /\ Counted'
  BY NextKeeps
<1> QED
  BY <1>1, InitInvariant, PTL DEF Spec

(* Every variable has its type.                                            *)
THEOREM EvidenceTypeCorrect == Spec => []TypeOK
BY EvidenceCounts, PTL

-----------------------------------------------------------------------------
(* What a step does to the nodes: closed nodes and proofs stay, and a      *)
(* verdict comes from the scan, the propagation or the close.              *)

ClosedUpTo == IF pc \in {"idle", "stopped"} THEN Len(nodes) ELSE start

Open(s) == s \in {"Pending", "Unresolved"}

Moves ==
    /\ Len(nodes) <= Len(nodes') /\ Len(nodes') \in Nat
    /\ DOMAIN nodes' = 1 .. Len(nodes')
    /\ \A i \in 1 .. Len(nodes) :
         /\ nodes'[i] = nodes[i]
         /\ i <= ClosedUpTo \/ ~Open(state[i]) => state'[i] = state[i] /\ deps'[i] = deps[i]
         /\ state'[i] = "Implementation" => state[i] = "Implementation" \/ Propagate(i)
         /\ state'[i] = "Rejected" =>
              state[i] = "Rejected" \/ Chosen(nodes[i]) = {} \/ Close
         /\ deps'[i] \in Seq(1 .. Len(nodes'))
    /\ \A i \in Len(nodes) + 1 .. Len(nodes') : state'[i] = "Pending"

LEMMA GrowingMoves ==
  ASSUME TypeOK, NEW c, Grows(c), c = 0 \/ (c > ClosedUpTo /\ Open(state[c]))
  PROVE  Moves
<1>1. DOMAIN nodes' = 1 .. Len(nodes')
  BY LenProperties DEF Grows
<1>2. ClosedUpTo \in Nat
  BY Positions DEF ClosedUpTo
<1> QED
  BY <1>1, <1>2, Positions DEF Grows, Moves

LEMMA NextMoves ==
  ASSUME TypeOK, Order, Counted, Next
  PROVE  Moves
<1> USE Positions
<1>1. ASSUME NEW g \in Goal, RequestBound(g) \/ RequestInstance(g)
      PROVE  Moves
  <2>1. Grows(0)
    BY <1>1, AskGrows DEF RequestBound, RequestInstance
  <2> QED
    BY <2>1, GrowingMoves
<1>2. CASE Require
  <2>1. cursor # 0 /\ pc = "require" /\ cursor > start /\ Open(state[cursor])
    BY <1>2 DEF Require, Order, Open
  <2>2. Grows(cursor)
    BY <1>2, <2>1, RequireGrows
  <2> QED
    BY <2>1, <2>2, GrowingMoves DEF ClosedUpTo
<1>3. DOMAIN nodes = 1 .. Len(nodes) /\ \A i \in 1 .. Len(nodes) : deps[i] \in Seq(1 .. Len(nodes))
  BY DEF TypeOK
<1>4. CASE UNCHANGED graph
  BY <1>3, <1>4 DEF Moves, graph
<1>5. CASE ScanDecided
  <2>1. cursor + 1 \in 1 .. Len(nodes) /\ start < cursor + 1
    BY <1>5 DEF ScanDecided, Scanning
  <2>2. state[cursor + 1] = "Pending"
    BY <1>5, <2>1 DEF ScanDecided, Scanning, Order
  <2>3. Chosen(nodes[cursor + 1]) = {} /\ UNCHANGED <<nodes, deps>> /\ pc = "scan"
    BY <1>5 DEF ScanDecided, Scanning
  <2>4. /\ \A i \in 1 .. Len(nodes) : i # cursor + 1 => state'[i] = state[i]
        /\ state'[cursor + 1] # "Implementation"
    BY <1>5, <2>1 DEF ScanDecided, TypeOK, Refused
  <2> QED
    BY <1>3, <2>1, <2>2, <2>3, <2>4 DEF Moves, Open, ClosedUpTo
<1>6. CASE RequireOpen
  <2>1. pc = "require" /\ cursor > start /\ Open(state[cursor]) /\ UNCHANGED <<nodes, deps>>
    BY <1>6 DEF RequireOpen, Order, Open
  <2>2. /\ \A i \in 1 .. Len(nodes) : i # cursor => state'[i] = state[i]
        /\ state'[cursor] = "Unresolved"
    BY <1>6, <2>1 DEF RequireOpen, TypeOK
  <2> QED
    BY <1>3, <2>1, <2>2 DEF Moves, ClosedUpTo
<1>7. CASE Exhaust
  <2>1. pc = "scan" /\ UNCHANGED <<nodes, deps>>
    BY <1>7 DEF Exhaust, Scanning
  <2>2. \A i \in 1 .. Len(nodes) :
          state'[i] = IF i > start /\ state[i] = "Pending" THEN "Unresolved" ELSE state[i]
    BY <1>7 DEF Exhaust
  <2> QED
    BY <1>3, <2>1, <2>2 DEF Moves, Open, ClosedUpTo
<1>8. CASE Close
  <2>1. pc = "propagate" /\ UNCHANGED <<nodes, deps>>
    BY <1>8 DEF Close
  <2>2. \A i \in 1 .. Len(nodes) :
          state'[i] = IF i > start /\ state[i] = "Pending" THEN "Rejected" ELSE state[i]
    BY <1>8 DEF Close
  <2> QED
    BY <1>3, <1>8, <2>1, <2>2 DEF Moves, Open, ClosedUpTo
<1>9. ASSUME NEW i \in DOMAIN nodes, Propagate(i)
      PROVE  Moves
  <2>1. pc = "propagate" /\ UNCHANGED <<nodes, deps>>
    BY <1>9 DEF Propagate
  <2>2. i > start /\ state[i] = "Pending" /\ \A j \in 1 .. Len(nodes) : j # i => state'[j] = state[j]
    BY <1>9, Propagated DEF InBatch
  <2>3. state'[i] = "Implementation"
    BY <1>9 DEF Propagate, TypeOK
  <2> QED
    BY <1>3, <1>9, <2>1, <2>2, <2>3 DEF Moves, Open, ClosedUpTo
<1>10. ProveBounds \/ ScanImplementation \/ Required \/ Count => UNCHANGED graph
  BY DEF ProveBounds, ScanImplementation, Required, Count
<1> QED
  BY <1>1, <1>2, <1>4, <1>5, <1>6, <1>7, <1>8, <1>9, <1>10 DEF Next, Solve

(* A proof that stood stands, and what is neither proven nor propagated    *)
(* stays unproven.                                                         *)
LEMMA ProvenStays ==
  ASSUME TypeOK, Moves, NEW i \in 1 .. Len(nodes), Proven(state[i])
  PROVE  Proven(state'[i]) /\ deps'[i] = deps[i]
BY DEF Moves, Proven, Open

-----------------------------------------------------------------------------
(* No proof rests on itself.                                               *)

LEMMA GroundedKeeps ==
  ASSUME TypeOK, Order, Counted, Grounded, Next
  PROVE  Grounded'
<1> DEFINE P == {i \in DOMAIN nodes : state[i] = "Implementation"}
           Free0(i, S) == \A k \in DOMAIN deps[i] : deps[i][k] \notin S
<1>1. Moves
  BY NextMoves
<1>2. /\ DOMAIN nodes = 1 .. Len(nodes) /\ Len(nodes) \in Nat
      /\ \A i \in 1 .. Len(nodes) : \A k \in DOMAIN deps[i] : deps[i][k] \in 1 .. Len(nodes)
  BY Positions, LenProperties, SMTT(30) DEF TypeOK
<1>3. \A i \in DOMAIN nodes' : state'[i] = "Implementation" =>
        i \in DOMAIN nodes /\ (i \in P \/ Propagate(i))
  BY <1>1, <1>2 DEF Moves
<1>4. ASSUME NEW i \in P
      PROVE  /\ deps'[i] = deps[i] /\ Unproven(i) = {}
             /\ \A k \in DOMAIN deps[i] : Proven(state[deps[i][k]])
  BY <1>1, <1>2, ProvenStays DEF Grounded, Unproven, Proven
<1>5. ASSUME NEW i \in DOMAIN nodes, Propagate(i)
      PROVE  /\ deps'[i] = deps[i] /\ Unproven(i) = {} /\ state[i] = "Pending"
             /\ Occurrences(i, i) = {}
             /\ \A k \in DOMAIN deps[i] : Proven(state[deps[i][k]])
  BY <1>5, Propagated DEF Propagate, Unproven
<1>6. ASSUME NEW i \in DOMAIN nodes', state'[i] = "Implementation"
      PROVE  Unproven(i)' = {}
  <2>1. /\ i \in 1 .. Len(nodes) /\ deps'[i] = deps[i]
        /\ \A k \in DOMAIN deps[i] : Proven(state[deps[i][k]])
    BY <1>2, <1>3, <1>4, <1>5, <1>6
  <2>2. \A k \in DOMAIN deps[i] : Proven(state'[deps[i][k]])
    BY <1>1, <1>2, <2>1, ProvenStays
  <2> QED
    BY <2>1, <2>2 DEF Unproven
<1>7. ASSUME NEW S \in SUBSET {i \in DOMAIN nodes' : state'[i] = "Implementation"}, S # {}
      PROVE  \E i \in S : \A k \in DOMAIN deps'[i] : deps'[i][k] \notin S
  <2> DEFINE T == S \cap P
  <2>1. CASE T = {}
    <3>1. PICK i \in S : TRUE
      BY <1>7
    <3>2. i \in DOMAIN nodes /\ Propagate(i)
      BY <1>3, <2>1, <3>1
    <3>3. \A j \in S : Propagate(j) /\ j \in DOMAIN nodes
      BY <1>3, <2>1
    <3>4. \A k \in DOMAIN deps[i] : Proven(state[deps[i][k]])
      BY <1>5, <3>2
    <3>5. \A j \in S : state[j] = "Pending"
      BY <1>5, <3>3
    <3> QED
      BY <1>5, <3>1, <3>2, <3>4, <3>5 DEF Proven
  <2>2. CASE T # {}
    <3>1. PICK i \in T : \A k \in DOMAIN deps[i] : deps[i][k] \notin T
      BY <2>2 DEF Grounded
    <3>2. deps'[i] = deps[i] /\ \A k \in DOMAIN deps[i] : Proven(state[deps[i][k]])
      BY <1>4, <3>1
    <3>3. \A j \in S \ T : state[j] = "Pending"
      BY <1>3, <1>5
    <3> QED
      BY <3>1, <3>2, <3>3 DEF Proven
  <2> QED
    BY <2>1, <2>2
<1> QED
  BY <1>6, <1>7 DEF Grounded

(* Among any goals proved by implementations one depends on none of the    *)
(* others: a cycle of requirements never establishes its own proof.        *)
THEOREM EvidenceGrounded == Spec => []Grounded
<1>1. Init => Grounded
  BY DEF Init, Grounded
<1>2. Grounded /\ UNCHANGED vars => Grounded'
  BY DEF Grounded, vars, graph, Unproven
<1>3. TypeOK /\ Order /\ Counted /\ Grounded /\ [Next]_vars => Grounded'
  BY <1>2, GroundedKeeps
<1> QED
  BY <1>1, <1>3, EvidenceCounts, PTL DEF Spec

-----------------------------------------------------------------------------
(* Closed nodes.                                                           *)

Closed ==
    \A i \in 1 .. ClosedUpTo :
      /\ state[i] # "Pending"
      /\ \A k \in DOMAIN deps[i] : deps[i][k] \in 1 .. ClosedUpTo

(* A goal with a chosen implementation is refused for a closed reason.     *)
RefusedFor ==
    \A i \in 1 .. Len(nodes) :
      state[i] = "Rejected" /\ Chosen(nodes[i]) # {} => i <= ClosedUpTo /\ Unproven(i) # {}

LEMMA ClosedGrows ==
  ASSUME TypeOK, Order, Counted, Next
  PROVE  /\ ClosedUpTo \in 0 .. Len(nodes)
         /\ Exhaust \/ Close => ClosedUpTo' = Len(nodes) /\ nodes' = nodes
         /\ ~(Exhaust \/ Close) => ClosedUpTo' = ClosedUpTo
         /\ pc # "bounds" => start' <= ClosedUpTo
<1> USE Positions
<1>1. ASSUME NEW g \in Goal, RequestBound(g) \/ RequestInstance(g)
      PROVE  ClosedUpTo' = ClosedUpTo /\ (pc # "bounds" => start' <= ClosedUpTo)
  BY <1>1 DEF RequestBound, RequestInstance, ClosedUpTo, Order
<1>2. ASSUME Exhaust \/ Close
      PROVE  ClosedUpTo' = Len(nodes) /\ nodes' = nodes /\ start' <= ClosedUpTo
  BY <1>2 DEF Exhaust, Close, Scanning, ClosedUpTo
<1>3. ASSUME ProveBounds
      PROVE  ClosedUpTo' = ClosedUpTo /\ pc = "bounds"
  BY <1>3 DEF ProveBounds, ClosedUpTo, Order
<1>4. ASSUME ScanDecided \/ ScanImplementation \/ Require \/ RequireOpen \/ Required \/ Count
      PROVE  ClosedUpTo' = ClosedUpTo /\ start' <= ClosedUpTo
  BY <1>4 DEF ScanDecided, ScanImplementation, Require, RequireOpen, Required, Count, Scanning, ClosedUpTo
<1>5. ASSUME NEW i \in DOMAIN nodes, Propagate(i)
      PROVE  ClosedUpTo' = ClosedUpTo /\ start' <= ClosedUpTo
  BY <1>5 DEF Propagate, ClosedUpTo
<1>6. ClosedUpTo \in 0 .. Len(nodes)
  BY DEF ClosedUpTo
<1> QED
  BY <1>1, <1>2, <1>3, <1>4, <1>5, <1>6 DEF Next, Solve

LEMMA ClosedKeeps ==
  ASSUME TypeOK, Order, Counted, Closed, Next
  PROVE  Closed'
<1>1. Moves
  BY NextMoves
<1>2. /\ DOMAIN nodes = 1 .. Len(nodes) /\ Len(nodes) \in Nat
      /\ \A i \in 1 .. Len(nodes) : \A k \in DOMAIN deps[i] : deps[i][k] \in 1 .. Len(nodes)
  BY Positions, LenProperties DEF TypeOK
<1>3. CASE Exhaust \/ Close
  <2>1. UNCHANGED <<nodes, deps>> /\ ClosedUpTo' = Len(nodes)
    BY <1>3, ClosedGrows DEF Exhaust, Close
  <2>2. \A i \in 1 .. Len(nodes) : i <= start => state[i] # "Pending"
    BY <1>2, <1>3, Positions DEF Closed, ClosedUpTo, Exhaust, Close, Scanning
  <2>3. \A i \in 1 .. Len(nodes) : state'[i] # "Pending"
    BY <1>3, <2>2, Positions DEF Exhaust, Close
  <2> QED
    BY <1>2, <2>1, <2>3 DEF Closed
<1>4. CASE ~(Exhaust \/ Close)
  <2>1. ClosedUpTo' = ClosedUpTo /\ ClosedUpTo \in 0 .. Len(nodes)
    BY <1>4, ClosedGrows
  <2>2. SUFFICES ASSUME NEW i \in 1 .. ClosedUpTo
                 PROVE  /\ state'[i] # "Pending"
                        /\ \A k \in DOMAIN deps'[i] : deps'[i][k] \in 1 .. ClosedUpTo
    BY <2>1 DEF Closed
  <2>3. i \in 1 .. Len(nodes) /\ i <= ClosedUpTo
    BY <1>2, <2>1
  <2>4. state'[i] = state[i] /\ deps'[i] = deps[i]
    BY <1>1, <2>3 DEF Moves
  <2> QED
    BY <2>4 DEF Closed
<1> QED
  BY <1>3, <1>4

LEMMA RefusedKeeps ==
  ASSUME TypeOK, Order, Counted, Closed, RefusedFor, Next
  PROVE  RefusedFor'
<1>1. Moves
  BY NextMoves
<1>2. /\ DOMAIN nodes = 1 .. Len(nodes) /\ Len(nodes) \in Nat
      /\ ClosedUpTo \in 0 .. Len(nodes) /\ ClosedUpTo <= ClosedUpTo'
      /\ ClosedUpTo' \in Nat
  BY Positions, ClosedGrows
<1>3. SUFFICES ASSUME NEW i \in 1 .. Len(nodes'), state'[i] = "Rejected", Chosen(nodes[i])' # {}
               PROVE  i <= ClosedUpTo' /\ Unproven(i)' # {}
  BY DEF RefusedFor
<1>4. i \in 1 .. Len(nodes) /\ nodes'[i] = nodes[i]
  BY <1>1, <1>2, <1>3 DEF Moves
<1>5. program' = program
  BY DEF Next, Solve, RequestBound, RequestInstance, ProveBounds, Exhaust, ScanDecided,
         ScanImplementation, Require, RequireOpen, Required, Count, Propagate, Close
<1>6. Chosen(nodes[i]) # {}
  <2>1. nodes[i]' = nodes[i]
    BY <1>4
  <2>2. Candidates(nodes[i])' = Candidates(nodes[i])
    BY <1>5, <2>1, Zenon DEF Candidates, Applicable
  <2>3. Chosen(nodes[i])' = Chosen(nodes[i])
    BY <1>5, <2>1, <2>2, Zenon DEF Chosen
  <2> QED
    BY <1>3, <2>3
<1>7. CASE state[i] = "Rejected"
  <2>1. i <= ClosedUpTo /\ Unproven(i) # {}
    BY <1>4, <1>6, <1>7 DEF RefusedFor
  <2>2. PICK k \in DOMAIN deps[i] : ~Proven(state[deps[i][k]])
    BY <2>1 DEF Unproven
  <2>3. deps[i][k] \in 1 .. ClosedUpTo
    BY <1>4, <2>1, <2>2, <1>2 DEF Closed
  <2>4. deps'[i] = deps[i] /\ state'[deps[i][k]] = state[deps[i][k]]
    <3>1. \A j \in 1 .. Len(nodes) : j <= ClosedUpTo => state'[j] = state[j] /\ deps'[j] = deps[j]
      BY <1>1 DEF Moves
    <3>2. deps[i][k] \in 1 .. Len(nodes) /\ deps[i][k] <= ClosedUpTo
      BY <1>2, <2>3
    <3> QED
      BY <1>4, <2>1, <3>1, <3>2
  <2>5. k \in Unproven(i)'
    BY <2>2, <2>4 DEF Unproven
  <2> QED
    BY <1>2, <1>4, <2>1, <2>5
<1>8. CASE state[i] # "Rejected"
  <2>1. Close
    BY <1>1, <1>3, <1>4, <1>6, <1>8 DEF Moves
  <2>2. ClosedUpTo' = Len(nodes) /\ pc = "propagate" /\ ready = {} /\ deps' = deps
    BY <2>1, ClosedGrows DEF Close
  <2>3. i > start /\ state[i] = "Pending"
    BY <1>3, <1>4, <1>8, <2>1, Positions DEF Close
  <2>4. i \in InBatch /\ Waiting(i)
    BY <1>2, <1>4, <2>3, Positions DEF InBatch, Waiting
  <2>5. Unproven(i) # {}
    BY <1>4, <2>2, <2>4, WaitsCount DEF Counted
  <2>6. PICK k \in DOMAIN deps[i] : ~Proven(state[deps[i][k]])
    BY <2>5 DEF Unproven
  <2>7. deps[i][k] \in DOMAIN state
    <3>1. deps[i] \in Seq(1 .. Len(nodes))
      BY <1>4 DEF TypeOK
    <3>2. deps[i][k] \in 1 .. Len(nodes)
      BY <2>6, <3>1, LenProperties
    <3> QED
      BY <3>2, Positions
  <2>8. ~Proven(state'[deps[i][k]])
    BY <2>1, <2>6, <2>7 DEF Close, Proven
  <2> QED
    BY <1>4, <2>2, <2>6, <2>8 DEF Unproven
<1> QED
  BY <1>7, <1>8

LEMMA EvidenceClosed == Spec => [](Closed /\ RefusedFor)
<1>1. Init => Closed /\ RefusedFor
  BY InitInvariant, EmptySeq DEF Init, Closed, RefusedFor, ClosedUpTo
<1>2. Closed /\ RefusedFor /\ UNCHANGED vars => Closed' /\ RefusedFor'
  <2> SUFFICES ASSUME Closed, RefusedFor, UNCHANGED vars PROVE Closed' /\ RefusedFor'
    OBVIOUS
  <2>1. UNCHANGED <<program, nodes, state, deps, start, pc>>
    BY DEF vars, graph
  <2>2. ClosedUpTo' = ClosedUpTo
    BY <2>1 DEF ClosedUpTo
  <2>3. Closed'
    BY <2>1, <2>2 DEF Closed
  <2>4. \A i \in 1 .. Len(nodes) : Chosen(nodes[i])' = Chosen(nodes[i]) /\ Unproven(i)' = Unproven(i)
    BY <2>1 DEF Chosen, Candidates, Applicable, Unproven
  <2>5. RefusedFor'
    BY <2>1, <2>2, <2>4 DEF RefusedFor
  <2> QED
    BY <2>3, <2>5
<1>3. TypeOK /\ Order /\ Counted /\ Closed /\ RefusedFor /\ [Next]_vars => Closed' /\ RefusedFor'
  BY <1>2, ClosedKeeps, RefusedKeeps
<1> QED
  BY <1>1, <1>3, EvidenceCounts, PTL DEF Spec

(* A goal whose implementation was chosen is refused only while one of its *)
(* requirements is unproven: propagation forgets nobody.                   *)
THEOREM EvidenceComplete == Spec => []Complete
<1>1. TypeOK /\ Closed /\ RefusedFor => Complete
  BY Positions DEF Complete, RefusedFor
<1> QED
  BY <1>1, EvidenceTypeCorrect, EvidenceClosed, PTL

(* A closed node is never reopened, and takes no new dependency.           *)
THEOREM EvidenceClosedStays == Spec => ClosedStays
<1> DEFINE Stays == \A i \in 1 .. Len(nodes) : i <= start' /\ pc # "bounds" =>
                      state'[i] = state[i] /\ deps'[i] = deps[i] /\ state[i] # "Pending"
<1>1. TypeOK /\ Order /\ Counted /\ Closed /\ [Next]_vars => [Stays]_vars
  <2> SUFFICES ASSUME TypeOK, Order, Counted, Closed, Next PROVE Stays
    OBVIOUS
  <2>1. Moves
    BY NextMoves
  <2>2. pc # "bounds" => start' <= ClosedUpTo
    BY ClosedGrows
  <2>3. ClosedUpTo \in 0 .. Len(nodes) /\ Len(nodes) \in Nat /\ start' \in Nat
    <3>1. TypeOK'
      BY NextKeeps
    <3>2. start' \in Nat
      BY <3>1 DEF TypeOK
    <3> QED
      BY <3>2, ClosedGrows, Positions
  <2> QED
    BY <2>1, <2>2, <2>3 DEF Moves, Closed
<1> QED
  BY <1>1, EvidenceCounts, EvidenceClosed, PTL DEF Spec, ClosedStays

-----------------------------------------------------------------------------
(* What a verdict rests on: the declarations, and for a chosen             *)
(* implementation the nodes of its requirements.                           *)

Members(s) == {s[k] : k \in DOMAIN s}

Goals(i) == {nodes[deps[i][k]] : k \in DOMAIN deps[i]}

Rule(i) == \E m \in Chosen(nodes[i]) : Members(m.needs) = Goals(i)

Never(i) == program[nodes[i]].direct # "holds" /\ Chosen(nodes[i]) = {}

Leaves(i) == \E m \in Chosen(nodes[i]) : Free \in Members(m.needs)

Reason(i) ==
    /\ state[i] = "Held" => program[nodes[i]].direct = "holds"
    /\ state[i] = "Ambiguous" => Never(i)
    /\ state[i] = "Unresolved" => Leaves(i)
    /\ state[i] = "Implementation" => Rule(i)
    /\ state[i] = "Rejected" => Rule(i) \/ Never(i)
    /\ state[i] = "Pending" /\ i <= cursor /\ (i = cursor => pc # "require") => Rule(i)
    /\ i > cursor => deps[i] = <<>>

(* The node at the cursor, while its requirements are asked for.           *)
Reading ==
    pc = "require" =>
      \E m \in Chosen(nodes[cursor]) :
        /\ Members(todo) \subseteq Members(m.needs)
        /\ state[cursor] = "Unresolved" => Free \in Members(m.needs)
        /\ state[cursor] = "Pending" => Members(m.needs) = Goals(cursor) \cup Members(todo)

Founded == pc # "stopped" => Reading /\ \A i \in 1 .. Len(nodes) : Reason(i)

(* A node that is there keeps its goal, and the goal its implementation.   *)
LEMMA SameChoice ==
  ASSUME Moves, Next, NEW i \in 1 .. Len(nodes)
  PROVE  /\ nodes'[i] = nodes[i]
         /\ Chosen(nodes[i])' = Chosen(nodes[i])
         /\ program'[nodes'[i]] = program[nodes[i]]
         /\ Never(i)' <=> Never(i)
         /\ Leaves(i)' <=> Leaves(i)
<1>1. nodes'[i] = nodes[i]
  BY DEF Moves
<1>2. program' = program
  BY DEF Next, Solve, RequestBound, RequestInstance, ProveBounds, Exhaust, ScanDecided,
         ScanImplementation, Require, RequireOpen, Required, Count, Propagate, Close
<1>3. nodes[i]' = nodes[i]
  BY <1>1
<1>4. Candidates(nodes[i])' = Candidates(nodes[i])
  BY <1>2, <1>3, Zenon DEF Candidates, Applicable
<1>5. Chosen(nodes[i])' = Chosen(nodes[i])
  BY <1>2, <1>3, <1>4, Zenon DEF Chosen
<1> QED
  BY <1>1, <1>2, <1>5 DEF Never, Leaves

LEMMA SameRule ==
  ASSUME TypeOK, Moves, Next, NEW i \in 1 .. Len(nodes), deps'[i] = deps[i]
  PROVE  Goals(i)' = Goals(i) /\ (Rule(i)' <=> Rule(i))
<1>1. \A k \in DOMAIN deps[i] : deps[i][k] \in 1 .. Len(nodes)
  <2>1. deps[i] \in Seq(1 .. Len(nodes))
    BY DEF TypeOK
  <2> QED
    BY <2>1, LenProperties
<1>2. \A j \in 1 .. Len(nodes) : nodes'[j] = nodes[j]
  BY DEF Moves
<1>3. Goals(i)' = Goals(i)
  BY <1>1, <1>2 DEF Goals
<1>4. Chosen(nodes[i])' = Chosen(nodes[i])
  BY SameChoice
<1> QED
  BY <1>3, <1>4 DEF Rule

(* A node whose verdict and dependencies a step leaves keeps its reason.   *)
LEMMA SameReason ==
  ASSUME TypeOK, Moves, Next, NEW i \in 1 .. Len(nodes), Reason(i),
         state'[i] = state[i], deps'[i] = deps[i], cursor' = cursor, pc' = pc
  PROVE  Reason(i)'
<1>1. /\ program'[nodes'[i]] = program[nodes[i]]
      /\ Never(i)' <=> Never(i)
      /\ Leaves(i)' <=> Leaves(i)
      /\ Rule(i)' <=> Rule(i)
  BY SameChoice, SameRule
<1> QED
  BY <1>1 DEF Reason

LEMMA MembersHead ==
  ASSUME NEW S, NEW s \in Seq(S), s # <<>>
  PROVE  Members(s) = {Head(s)} \cup Members(Tail(s))
<1>1. /\ Head(s) = s[1] /\ Len(s) \in Nat \ {0} /\ DOMAIN s = 1 .. Len(s)
      /\ Tail(s) \in Seq(S) /\ Len(Tail(s)) = Len(s) - 1
      /\ \A k \in 1 .. Len(Tail(s)) : Tail(s)[k] = s[k + 1]
  BY HeadTailProperties, LenProperties, EmptySeq
<1>2. DOMAIN Tail(s) = 1 .. Len(s) - 1
  BY <1>1, LenProperties
<1>3. ASSUME NEW k \in 1 .. Len(s), k # 1 PROVE s[k] \in Members(Tail(s))
  <2>1. k - 1 \in 1 .. Len(s) - 1 /\ (k - 1) + 1 = k
    BY <1>1, <1>3
  <2> QED
    BY <1>1, <1>2, <2>1 DEF Members
<1>4. Members(Tail(s)) \subseteq Members(s)
  BY <1>1, <1>2 DEF Members
<1> QED
  BY <1>1, <1>3, <1>4 DEF Members

LEMMA AppendedPositions ==
  ASSUME NEW S, NEW s \in Seq(S), NEW x \in S
  PROVE  /\ DOMAIN Append(s, x) = (DOMAIN s) \cup {Len(s) + 1}
         /\ \A k \in DOMAIN s : Append(s, x)[k] = s[k]
         /\ Append(s, x)[Len(s) + 1] = x
<1>1. /\ DOMAIN s = 1 .. Len(s) /\ Len(s) \in Nat
      /\ Append(s, x) \in Seq(S) /\ Len(Append(s, x)) = Len(s) + 1
      /\ \A k \in 1 .. Len(s) : Append(s, x)[k] = s[k]
      /\ Append(s, x)[Len(s) + 1] = x
  BY AppendNode, LenProperties
<1>2. DOMAIN Append(s, x) = 1 .. Len(s) + 1
  BY <1>1, LenProperties
<1> QED
  BY <1>1, <1>2

(* Require makes the goal's node, new or old, a dependency of the node at  *)
(* the cursor.                                                             *)
LEMMA RequireLinks ==
  ASSUME TypeOK, Require, cursor # 0
  PROVE  Goals(cursor)' = Goals(cursor) \cup {Head(todo)}
<1> DEFINE n == Len(nodes)
           g == Head(todo)
<1>1. n \in Nat /\ cursor \in 1 .. n
  BY LenProperties DEF TypeOK
<1>2. Grows(cursor)
  BY RequireGrows
<1>3. PICK i \in DOMAIN nodes' :
        /\ nodes'[i] = g
        /\ deps' = IF Asked(g) THEN [deps EXCEPT ![cursor] = Append(@, i)]
                   ELSE Append([deps EXCEPT ![cursor] = Append(@, i)], <<>>)
  BY DEF Require
<1> DEFINE known == [deps EXCEPT ![cursor] = Append(@, i)]
<1>4. i \in 1 .. Len(nodes')
  BY <1>2, <1>3, LenProperties DEF Grows
<1>5. deps \in [1 .. n -> Seq(1 .. n)]
  BY DEF TypeOK
<1>6. known[cursor] = Append(deps[cursor], i)
  BY <1>1, <1>5
<1>7. deps'[cursor] = Append(deps[cursor], i)
  <2>1. CASE Asked(g)
    BY <1>3, <1>6, <2>1
  <2>2. CASE ~Asked(g)
    <3>1. deps' = Append(known, <<>>)
      BY <1>3, <2>2
    <3>2. Len(nodes') = n + 1
      <4>1. nodes' = Append(nodes, g) /\ g \in Goal
        BY <2>2, HeadTailProperties DEF Require, Ask, TypeOK
      <4> QED
        BY <4>1, AppendNode DEF TypeOK
    <3>3. known \in [1 .. n -> Seq(1 .. n + 1)]
      <4>1. deps \in [1 .. n -> Seq(1 .. n + 1)]
        BY <1>1, <1>5, WiderSeq
      <4>2. Append(deps[cursor], i) \in Seq(1 .. n + 1)
        BY <1>1, <1>4, <3>2, <4>1, AppendNode
      <4> QED
        BY <1>1, <4>1, <4>2
    <3>4. Append(known, <<>>)[cursor] = known[cursor]
      <4> HIDE DEF known
      <4> QED
        BY <1>1, <3>3, AppendDeps
    <3> QED
      BY <1>6, <3>1, <3>4
  <2> QED
    BY <2>1, <2>2
<1>8. deps[cursor] \in Seq(1 .. n)
  BY <1>1, <1>5
<1>9. deps[cursor] \in Seq(1 .. Len(nodes'))
  BY <1>1, <1>2, <1>8, WiderSeq DEF Grows
<1>10. /\ DOMAIN deps'[cursor] = (DOMAIN deps[cursor]) \cup {Len(deps[cursor]) + 1}
       /\ \A k \in DOMAIN deps[cursor] : deps'[cursor][k] = deps[cursor][k]
       /\ deps'[cursor][Len(deps[cursor]) + 1] = i
  BY <1>4, <1>7, <1>9, AppendedPositions
<1>11. \A k \in DOMAIN deps[cursor] : nodes'[deps'[cursor][k]] = nodes[deps[cursor][k]]
  <2>1. \A k \in DOMAIN deps[cursor] : deps[cursor][k] \in 1 .. n
    BY <1>8, LenProperties
  <2> QED
    BY <1>2, <1>10, <2>1 DEF Grows
<1>12. Goals(cursor)' = {nodes'[deps'[cursor][k]] : k \in DOMAIN deps'[cursor]}
  <2>1. cursor' = cursor
    BY DEF Require
  <2> QED
    BY <2>1 DEF Goals
<1> HIDE DEF known
<1>13. {nodes'[deps'[cursor][k]] : k \in DOMAIN deps'[cursor]}
         = {nodes[deps[cursor][k]] : k \in DOMAIN deps[cursor]} \cup {g}
  <2> DEFINE l == Len(deps[cursor]) + 1
             new == deps'[cursor]
             old == deps[cursor]
  <2>1. nodes'[new[l]] = g /\ l \in DOMAIN new
    BY <1>3, <1>10
  <2>2. \A k \in DOMAIN old : k \in DOMAIN new /\ nodes'[new[k]] = nodes[old[k]]
    BY <1>10, <1>11
  <2>3. \A k \in DOMAIN new : k \in DOMAIN old \/ k = l
    BY <1>10
  <2> HIDE DEF l, new, old
  <2>4. {nodes'[new[k]] : k \in DOMAIN new} = {nodes[old[k]] : k \in DOMAIN old} \cup {g}
    BY <2>1, <2>2, <2>3
  <2> QED
    BY <2>4 DEF new, old
<1> QED
  BY <1>12, <1>13 DEF Goals

LEMMA RequestFounded ==
  ASSUME TypeOK, Order, Moves, Founded, Next, NEW g \in Goal, RequestBound(g) \/ RequestInstance(g)
  PROVE  Founded'
<1>1. Grows(0) /\ Len(nodes') = Len(nodes) + 1
  BY AskGrows DEF RequestBound, RequestInstance
<1>2. cursor' = cursor /\ pc' \in {"bounds", "scan"} /\ pc \in {"bounds", "idle"}
  BY DEF RequestBound, RequestInstance
<1>3. Reading'
  BY <1>2 DEF Reading
<1>4. ASSUME NEW i \in 1 .. Len(nodes) PROVE Reason(i)'
  <2>1. state'[i] = state[i] /\ deps'[i] = deps[i] /\ Reason(i)
    BY <1>1, <1>2, Positions DEF Grows, Founded
  <2>2. /\ program'[nodes'[i]] = program[nodes[i]]
        /\ Never(i)' <=> Never(i)
        /\ Leaves(i)' <=> Leaves(i)
        /\ Rule(i)' <=> Rule(i)
    BY <2>1, SameChoice, SameRule
  <2> QED
    BY <1>2, <2>1, <2>2 DEF Reason
<1>5. ASSUME NEW i \in Len(nodes) + 1 .. Len(nodes') PROVE Reason(i)'
  <2>1. state'[i] = "Pending" /\ deps'[i] = <<>> /\ i > cursor'
    BY <1>1, <1>2, <1>5, Positions DEF Grows
  <2> QED
    BY <2>1, Positions, <1>2 DEF Reason
<1> QED
  BY <1>1, <1>3, <1>4, <1>5, Positions DEF Founded

LEMMA RequireFounded ==
  ASSUME TypeOK, Order, Moves, Founded, Next, Require
  PROVE  Founded'
<1>1. /\ cursor # 0 /\ pc = "require" /\ cursor \in 1 .. Len(nodes)
      /\ cursor' = cursor /\ pc' = pc
  BY Positions DEF Require, Order
<1>2. Grows(cursor)
  BY <1>1, RequireGrows
<1>3. state'[cursor] = state[cursor] /\ state[cursor] \in {"Pending", "Unresolved"}
  BY <1>1, <1>2 DEF Grows, Order
<1>4. Chosen(nodes[cursor])' = Chosen(nodes[cursor])
  <2>1. PICK i \in 1 .. Len(nodes) : i = cursor
    BY <1>1
  <2>2. Chosen(nodes[i])' = Chosen(nodes[i])
    BY SameChoice
  <2>3. nodes[i]' = nodes[cursor]'
    BY <1>1, <2>1
  <2>4. program' = program
    BY DEF Require
  <2>5. nodes[cursor]' = nodes[cursor]
    BY <1>1, <2>1, SameChoice
  <2>6. Candidates(nodes[cursor])' = Candidates(nodes[cursor])
    BY <2>4, <2>5, Zenon DEF Candidates, Applicable
  <2> QED
    BY <2>4, <2>5, <2>6, Zenon DEF Chosen
<1>5. PICK m \in Chosen(nodes[cursor]) :
        /\ Members(todo) \subseteq Members(m.needs)
        /\ state[cursor] = "Unresolved" => Free \in Members(m.needs)
        /\ state[cursor] = "Pending" => Members(m.needs) = Goals(cursor) \cup Members(todo)
  BY <1>1 DEF Founded, Reading
<1>6. todo' = Tail(todo) /\ Members(todo) = {Head(todo)} \cup Members(Tail(todo))
  BY MembersHead DEF Require, TypeOK
<1>7. Goals(cursor)' = Goals(cursor) \cup {Head(todo)}
  BY <1>1, RequireLinks
<1>8. Members(todo)' = Members(Tail(todo))
  BY <1>6 DEF Members
<1>9. Reading'
  BY <1>1, <1>3, <1>4, <1>5, <1>6, <1>7, <1>8 DEF Reading
<1>10. ASSUME NEW i \in 1 .. Len(nodes), i # cursor PROVE Reason(i)'
  <2>1. state'[i] = state[i] /\ deps'[i] = deps[i] /\ Reason(i)
    BY <1>1, <1>2, <1>10 DEF Grows, Founded
  <2> QED
    BY <1>1, <2>1, SameReason
<1>12. ASSUME NEW i \in Len(nodes) + 1 .. Len(nodes') PROVE Reason(i)'
  <2>1. state'[i] = "Pending" /\ deps'[i] = <<>> /\ i > cursor'
    BY <1>1, <1>2, <1>12, Positions DEF Grows
  <2> QED
    BY <2>1, Positions, <1>1 DEF Reason
<1>13. \A i \in 1 .. Len(nodes) : Reason(i)'
  <2> SUFFICES ASSUME NEW i \in 1 .. Len(nodes) PROVE Reason(i)'
    OBVIOUS
  <2>1. CASE i = cursor
    <3>1. state'[i] = state[i] /\ i = cursor'
      BY <1>1, <1>3, <2>1
    <3>2. Leaves(i)' <=> Leaves(i)
      BY SameChoice
    <3>3. state[i] = "Unresolved" => Leaves(i)
      BY <1>3, <1>5, <2>1 DEF Leaves
    <3> QED
      BY <1>1, <1>3, <2>1, <3>1, <3>2, <3>3, Positions DEF Reason
  <2>2. CASE i # cursor
    BY <1>10, <2>2
  <2> QED
    BY <2>1, <2>2
<1>14. \A i \in 1 .. Len(nodes') : Reason(i)'
  BY <1>2, <1>12, <1>13, Positions DEF Grows
<1> QED
  BY <1>9, <1>14 DEF Founded

(* The scan of one node.                                                   *)
LEMMA DecidedFounded ==
  ASSUME TypeOK, Order, Moves, Founded, Next, ScanDecided
  PROVE  Founded'
<1> DEFINE c == cursor + 1
           g == nodes[c]
<1>1. /\ c \in 1 .. Len(nodes) /\ cursor' = c /\ pc = "scan" /\ pc' = pc
      /\ nodes' = nodes /\ deps' = deps /\ state[c] = "Pending"
  BY Positions DEF ScanDecided, Scanning, Order
<1>2. /\ Chosen(g) = {}
      /\ state' = [state EXCEPT ![c] =
                     IF program[g].direct = "holds" THEN "Held" ELSE Refused(g)]
  BY DEF ScanDecided
<1>3. ASSUME NEW i \in 1 .. Len(nodes), i # c PROVE Reason(i)'
  <2>1. state'[i] = state[i] /\ deps'[i] = deps[i] /\ Reason(i)
    BY <1>1, <1>2, <1>3 DEF Founded, TypeOK
  <2>2. /\ program'[nodes'[i]] = program[nodes[i]]
        /\ Never(i)' <=> Never(i)
        /\ Leaves(i)' <=> Leaves(i)
        /\ Rule(i)' <=> Rule(i)
    BY <2>1, SameChoice, SameRule
  <2>3. i <= c => i <= cursor
    BY <1>3, Positions
  <2> QED
    BY <1>1, <2>1, <2>2, <2>3, Positions DEF Reason
<1>4. ASSUME NEW i \in 1 .. Len(nodes), i = c PROVE Reason(i)'
  <2>1. state'[i] = IF program[g].direct = "holds" THEN "Held" ELSE Refused(g)
    BY <1>1, <1>2, <1>4 DEF TypeOK
  <2>2. Refused(g) \in {"Rejected", "Ambiguous"}
    BY DEF Refused
  <2>3. program'[nodes'[i]] = program[g] /\ (Never(i)' <=> program[g].direct # "holds")
    BY <1>2, <1>4, SameChoice DEF Never
  <2>4. CASE program[g].direct = "holds"
    BY <1>1, <1>4, <2>1, <2>3, <2>4 DEF Reason
  <2>5. CASE program[g].direct # "holds"
    <3>1. state'[i] \in {"Rejected", "Ambiguous"} /\ Never(i)'
      BY <2>1, <2>2, <2>3, <2>5
    <3> QED
      BY <1>1, <1>4, <3>1, Positions DEF Reason
  <2> QED
    BY <2>4, <2>5
<1>5. \A i \in 1 .. Len(nodes') : Reason(i)'
  BY <1>1, <1>3, <1>4
<1> QED
  BY <1>1, <1>5 DEF Founded, Reading

LEMMA ImplementationFounded ==
  ASSUME TypeOK, Order, Moves, Founded, Next, ScanImplementation
  PROVE  Founded'
<1> DEFINE c == cursor + 1
<1>1. /\ c \in 1 .. Len(nodes) /\ cursor' = c /\ pc = "scan" /\ pc' = "require"
      /\ nodes' = nodes /\ deps' = deps /\ state' = state /\ state[c] = "Pending"
  BY Positions DEF ScanImplementation, Scanning, Order, graph
<1>2. PICK m \in Chosen(nodes[c]) : todo' = m.needs
  BY DEF ScanImplementation
<1>3. \A i \in 1 .. Len(nodes) : Reason(i)
  BY <1>1 DEF Founded
<1>4. ASSUME NEW i \in 1 .. Len(nodes) PROVE Reason(i)'
  <2>1. /\ program'[nodes'[i]] = program[nodes[i]]
        /\ Never(i)' <=> Never(i)
        /\ Leaves(i)' <=> Leaves(i)
        /\ Rule(i)' <=> Rule(i)
    BY <1>1, SameChoice, SameRule
  <2>2. i <= c /\ i # c => i <= cursor
    BY Positions
  <2> QED
    BY <1>1, <1>3, <2>1, <2>2, Positions DEF Reason
<1>5. Reading'
  <2>1. PICK i \in 1 .. Len(nodes) : i = c
    BY <1>1
  <2>2. deps[c] = <<>>
    BY <1>1, <1>3, <2>1, Positions DEF Reason
  <2>3. Goals(cursor)' = {}
    BY <1>1, <2>2 DEF Goals
  <2>4. Chosen(nodes[cursor])' = Chosen(nodes[c])
    <3>1. program' = program /\ nodes[cursor]' = nodes[c]
      BY <1>1 DEF ScanImplementation
    <3>2. Candidates(nodes[cursor])' = Candidates(nodes[c])
      BY <3>1, Zenon DEF Candidates, Applicable
    <3> QED
      BY <3>1, <3>2, Zenon DEF Chosen
  <2>5. Members(todo)' = Members(m.needs)
    BY <1>2 DEF Members
  <2> QED
    BY <1>1, <1>2, <2>3, <2>4, <2>5 DEF Reading
<1> QED
  BY <1>1, <1>4, <1>5 DEF Founded

LEMMA OpenFounded ==
  ASSUME TypeOK, Order, Moves, Founded, Next, RequireOpen
  PROVE  Founded'
<1>1. /\ cursor \in 1 .. Len(nodes) /\ cursor' = cursor /\ pc = "require" /\ pc' = pc
      /\ nodes' = nodes /\ deps' = deps /\ program' = program
  BY Positions DEF RequireOpen, Order
<1>2. state' = [state EXCEPT ![cursor] = "Unresolved"] /\ todo' = Tail(todo) /\ Free = Head(todo)
  BY DEF RequireOpen
<1>3. PICK m \in Chosen(nodes[cursor]) : Members(todo) \subseteq Members(m.needs)
  BY <1>1 DEF Founded, Reading
<1>4. Members(todo) = {Free} \cup Members(Tail(todo))
  BY <1>2, MembersHead DEF RequireOpen, TypeOK
<1>5. ASSUME NEW i \in 1 .. Len(nodes), i # cursor PROVE Reason(i)'
  <2>1. state'[i] = state[i] /\ deps'[i] = deps[i] /\ Reason(i)
    BY <1>1, <1>2, <1>5 DEF Founded, TypeOK
  <2> QED
    BY <1>1, <2>1, SameReason
<1>6. ASSUME NEW i \in 1 .. Len(nodes), i = cursor PROVE Reason(i)'
  <2>1. state'[i] = "Unresolved"
    BY <1>1, <1>2, <1>6 DEF TypeOK
  <2>2. Leaves(i)'
    <3>1. Leaves(i)
      BY <1>3, <1>4, <1>6 DEF Leaves
    <3> QED
      BY <3>1, SameChoice
  <2> QED
    BY <1>1, <1>6, <2>1, <2>2, Positions DEF Reason
<1>7. Reading'
  <2>1. Chosen(nodes[cursor])' = Chosen(nodes[cursor])
    <3>1. nodes[cursor]' = nodes[cursor]
      BY <1>1
    <3>2. Candidates(nodes[cursor])' = Candidates(nodes[cursor])
      BY <1>1, <3>1, Zenon DEF Candidates, Applicable
    <3> QED
      BY <1>1, <3>1, <3>2, Zenon DEF Chosen
  <2>2. Members(todo)' = Members(Tail(todo))
    BY <1>2 DEF Members
  <2>3. state'[cursor'] = "Unresolved"
    BY <1>1, <1>2 DEF TypeOK
  <2> QED
    BY <1>3, <1>4, <2>1, <2>2, <2>3 DEF Reading
<1> QED
  BY <1>1, <1>5, <1>6, <1>7 DEF Founded

LEMMA RequiredFounded ==
  ASSUME TypeOK, Order, Moves, Founded, Next, Required
  PROVE  Founded'
<1>1. /\ cursor \in 1 .. Len(nodes) /\ cursor' = cursor /\ pc = "require" /\ pc' = "scan"
      /\ nodes' = nodes /\ deps' = deps /\ state' = state /\ todo = <<>>
  BY Positions DEF Required, Order, graph
<1>2. Members(todo) = {}
  BY <1>1 DEF Members
<1>3. state[cursor] = "Pending" => Rule(cursor)
  BY <1>1, <1>2 DEF Founded, Reading, Rule
<1>4. ASSUME NEW i \in 1 .. Len(nodes) PROVE Reason(i)'
  <2>1. /\ program'[nodes'[i]] = program[nodes[i]]
        /\ Never(i)' <=> Never(i)
        /\ Leaves(i)' <=> Leaves(i)
        /\ Rule(i)' <=> Rule(i)
    BY <1>1, SameChoice, SameRule
  <2>2. Reason(i)
    BY <1>1 DEF Founded
  <2> QED
    BY <1>1, <1>3, <2>1, <2>2 DEF Reason
<1> QED
  BY <1>1, <1>4 DEF Founded, Reading

(* Counting, propagating and closing: a node that is still pending has its *)
(* rule.                                                                   *)
LEMMA SettleFounded ==
  ASSUME TypeOK, Order, Counted, Moves, Founded, Next,
         ProveBounds \/ Count \/ (\E i \in DOMAIN nodes : Propagate(i)) \/ Close
  PROVE  Founded'
<1>1. /\ nodes' = nodes /\ deps' = deps /\ cursor' = cursor
      /\ pc # "require" /\ pc # "stopped" /\ pc' # "require"
  BY DEF ProveBounds, Count, Propagate, Close, graph
<1>2. ASSUME NEW i \in 1 .. Len(nodes) PROVE Reason(i)'
  <2>1. /\ program'[nodes'[i]] = program[nodes[i]]
        /\ Never(i)' <=> Never(i)
        /\ Leaves(i)' <=> Leaves(i)
        /\ Rule(i)' <=> Rule(i)
    BY <1>1, SameChoice, SameRule
  <2>2. Reason(i)
    BY <1>1 DEF Founded
  <2>3. \/ state'[i] = state[i]
        \/ /\ state[i] = "Pending" /\ cursor = Len(nodes)
           /\ state'[i] \in {"Implementation", "Rejected"}
    <3>1. CASE ProveBounds \/ Count
      BY <3>1 DEF ProveBounds, Count, graph
    <3>2. CASE Close
      BY <3>2, Positions DEF Close, Order
    <3>3. ASSUME NEW j \in DOMAIN nodes, Propagate(j)
          PROVE  \/ state'[i] = state[i]
                 \/ /\ state[i] = "Pending" /\ cursor = Len(nodes)
                    /\ state'[i] \in {"Implementation", "Rejected"}
      <4>1. pc = "propagate" /\ state' = [state EXCEPT ![j] = "Implementation"]
        BY <3>3 DEF Propagate
      <4>2. cursor = Len(nodes)
        BY <4>1 DEF Order
      <4>3. state'[i] = state[i] \/ (i = j /\ state'[i] = "Implementation")
        BY <4>1 DEF TypeOK
      <4>4. state[j] = "Pending"
        BY <3>3, Propagated
      <4> QED
        BY <4>2, <4>3, <4>4
    <3> QED
      BY <3>1, <3>2, <3>3
  <2>4. i <= Len(nodes) /\ cursor \in Nat
    BY Positions
  <2> QED
    BY <1>1, <2>1, <2>2, <2>3, <2>4, Positions DEF Reason
<1> QED
  BY <1>1, <1>2 DEF Founded, Reading

LEMMA FoundedKeeps ==
  ASSUME TypeOK, Order, Counted, Founded, Next
  PROVE  Founded'
<1>1. Moves
  BY NextMoves
<1>2. ASSUME NEW g \in Goal, RequestBound(g) \/ RequestInstance(g) PROVE Founded'
  BY <1>1, <1>2, RequestFounded
<1>3. CASE Exhaust
  BY <1>3 DEF Exhaust, Founded
<1> QED
  BY <1>1, <1>2, <1>3, RequireFounded, DecidedFounded, ImplementationFounded, OpenFounded,
     RequiredFounded, SettleFounded
  DEF Next, Solve

(* Every verdict has its reason in the declarations.                       *)
LEMMA EvidenceFounded == Spec => []Founded
<1>1. Init => Founded
  BY DEF Init, Founded, Reading
<1>2. Founded /\ UNCHANGED vars => Founded'
  <2> SUFFICES ASSUME Founded, UNCHANGED vars PROVE Founded'
    OBVIOUS
  <2>1. UNCHANGED <<program, nodes, state, deps, cursor, pc, todo>>
    BY DEF vars, graph
  <2>2. \A g : Chosen(g)' = Chosen(g)
    BY <2>1 DEF Chosen, Candidates, Applicable
  <2>3. Members(todo)' = Members(todo) /\ \A i : Goals(i)' = Goals(i)
    BY <2>1 DEF Members, Goals
  <2>4. \A i : Chosen(nodes[i])' = Chosen(nodes[i])
    BY <2>1 DEF Chosen, Candidates, Applicable
  <2>5. Chosen(nodes[cursor])' = Chosen(nodes[cursor]) /\ Goals(cursor)' = Goals(cursor)
    BY <2>1 DEF Chosen, Candidates, Applicable, Goals
  <2>6. Reading' <=> Reading
    BY <2>1, <2>3, <2>5 DEF Reading
  <2>7. \A i : Reason(i)' <=> Reason(i)
    BY <2>1, <2>3, <2>4 DEF Reason, Rule, Never, Leaves
  <2> QED
    BY <2>1, <2>6, <2>7 DEF Founded
<1>3. TypeOK /\ Order /\ Counted /\ Founded /\ [Next]_vars => Founded'
  BY <1>2, FoundedKeeps
<1> QED
  BY <1>1, <1>3, EvidenceCounts, PTL DEF Spec

-----------------------------------------------------------------------------
(* The goals that follow from the declarations.                            *)

(* What the chosen implementations give, once a set of goals is had.       *)
Follows(D) == {g \in Goal : \E m \in Chosen(g) : Members(m.needs) \subseteq D}

LEMMA DerivedSteps ==
  /\ Derived[0] = {g \in Goal : program[g].direct = "holds"}
  /\ \A n \in Nat : Derived[n + 1] = Derived[n] \cup Follows(Derived[n])
  /\ \A n \in Nat : Derived[n] \subseteq Goal
<1> DEFINE S == SUBSET Goal
           First == {g \in Goal : program[g].direct = "holds"}
           More(D) == {g \in Goal : \E m \in Chosen(g) : \A k \in DOMAIN m.needs : m.needs[k] \in D}
           F == [D \in S |-> D \cup More(D)]
           G(f) == [n \in Nat |-> IF n = 0 THEN First ELSE f[n - 1] \cup More(f[n - 1])]
<1>1. First \in S /\ F \in [S -> S]
  OBVIOUS
<1>2. PICK f \in [Nat -> S] : f[0] = First /\ \A n \in Nat : f[n + 1] = F[f[n]]
  <2> HIDE DEF S, F, First, More, G
  <2> QED
    BY <1>1, Iterated
<1>3. \A n \in Nat : f[n + 1] = f[n] \cup More(f[n])
  <2> HIDE DEF More
  <2> QED
    BY <1>2
<1>4. Derived = CHOOSE g : g = G(g)
  BY DEF Derived
<1> HIDE DEF First, More
<1>5. f = G(f)
  <2>1. ASSUME NEW n \in Nat PROVE f[n] = G(f)[n]
    <3>1. CASE n = 0
      BY <1>2, <3>1
    <3>2. CASE n # 0
      <4>1. n - 1 \in Nat /\ (n - 1) + 1 = n
        BY <3>2
      <4>2. f[n] = f[n - 1] \cup More(f[n - 1])
        BY <1>3, <4>1
      <4> QED
        BY <3>2, <4>2
    <3> QED
      BY <3>1, <3>2
  <2> QED
    BY <1>2, <2>1
<1>6. Derived = G(Derived)
  <2> HIDE DEF G
  <2> QED
    BY <1>4, <1>5
<1>7. Derived[0] = First /\ \A n \in Nat : Derived[n + 1] = Derived[n] \cup More(Derived[n])
  <2>1. \A n \in Nat : n + 1 \in Nat /\ n + 1 # 0 /\ (n + 1) - 1 = n
    OBVIOUS
  <2> QED
    BY <1>6, <2>1
<1>8. \A D : More(D) = Follows(D)
  BY DEF More, Follows, Members
<1>9. \A n \in Nat : Derived[n] \subseteq Goal
  <2> DEFINE N == {n \in Nat : Derived[n] \subseteq Goal}
  <2>1. 0 \in N
    BY <1>7 DEF First
  <2>2. ASSUME NEW n \in Nat, n \in N PROVE n + 1 \in N
    BY <1>7, <1>8, <2>2 DEF Follows
  <2> HIDE DEF N
  <2>3. \A n \in Nat : n \in N
    BY <2>1, <2>2, EveryNatural
  <2> QED
    BY <2>3 DEF N
<1> QED
  BY <1>7, <1>8, <1>9 DEF First

LEMMA DerivedGrows ==
  \A n, k \in Nat : Derived[n] \subseteq Derived[n + k]
<1> SUFFICES ASSUME NEW n \in Nat PROVE \A k \in Nat : Derived[n] \subseteq Derived[n + k]
  OBVIOUS
<1> DEFINE N == {k \in Nat : Derived[n] \subseteq Derived[n + k]}
<1>1. 0 \in N
  OBVIOUS
<1>2. ASSUME NEW k \in Nat, k \in N PROVE k + 1 \in N
  <2>1. n + k \in Nat /\ n + (k + 1) = (n + k) + 1
    OBVIOUS
  <2>2. Derived[n + k] \subseteq Derived[(n + k) + 1]
    BY <2>1, DerivedSteps
  <2> QED
    BY <1>2, <2>1, <2>2
<1> HIDE DEF N
<1>3. \A k \in Nat : k \in N
  BY <1>1, <1>2, EveryNatural
<1> QED
  BY <1>3 DEF N

LEMMA DerivedMonotone ==
  ASSUME NEW n \in Nat, NEW m \in Nat, n <= m
  PROVE  Derived[n] \subseteq Derived[m]
<1>1. m - n \in Nat /\ n + (m - n) = m
  OBVIOUS
<1> QED
  BY <1>1, DerivedGrows

Derivable == {g \in Goal : \E n \in Nat : g \in Derived[n]}

(* A rule has finitely many requirements: if each is derivable, all are    *)
(* at one depth, and the goal is one step further.                         *)
LEMMA RuleDerives ==
  ASSUME TypeOK, NEW g \in Goal, NEW m \in Chosen(g), Members(m.needs) \subseteq Derivable
  PROVE  g \in Derivable
<1> DEFINE s == m.needs
<1>1. s \in Seq(Goal \cup {Free})
  BY ChosenNeeds
<1>2. DOMAIN s = 1 .. Len(s) /\ Len(s) \in Nat
  BY <1>1, LenProperties
<1>3. \A k \in DOMAIN s : \E n \in Nat : s[k] \in Derived[n]
  BY DEF Members, Derivable
<1> HIDE DEF s
<1> DEFINE N == {k \in Nat : \E n \in Nat : \A j \in DOMAIN s : j <= k => s[j] \in Derived[n]}
<1>4. 0 \in N
  <2>1. \A j \in DOMAIN s : ~(j <= 0)
    BY <1>2
  <2> QED
    BY <2>1
<1>5. ASSUME NEW k \in Nat, k \in N PROVE k + 1 \in N
  <2>1. PICK n \in Nat : \A j \in DOMAIN s : j <= k => s[j] \in Derived[n]
    BY <1>5
  <2>2. PICK l \in Nat : k + 1 \in DOMAIN s => s[k + 1] \in Derived[l]
    BY <1>3
  <2>3. n + l \in Nat /\ l + n = n + l
    OBVIOUS
  <2>4. Derived[n] \subseteq Derived[n + l] /\ Derived[l] \subseteq Derived[n + l]
    BY <2>3, DerivedGrows
  <2>5. \A j \in DOMAIN s : j <= k + 1 => j <= k \/ j = k + 1
    BY <1>2
  <2>6. \A j \in DOMAIN s : j <= k + 1 => s[j] \in Derived[n + l]
    BY <2>1, <2>2, <2>4, <2>5
  <2> QED
    BY <2>3, <2>6
<1> HIDE DEF N
<1>6. \A k \in Nat : k \in N
  BY <1>4, <1>5, EveryNatural
<1>7. PICK n \in Nat : \A j \in DOMAIN s : j <= Len(s) => s[j] \in Derived[n]
  BY <1>2, <1>6 DEF N
<1>8. Members(m.needs) \subseteq Derived[n]
  BY <1>2, <1>7 DEF Members, s
<1>9. g \in Derived[n + 1]
  BY <1>8, DerivedSteps DEF Follows
<1> QED
  BY <1>9 DEF Derivable

(* What is proven is derivable: among the proven nodes that were not, one  *)
(* would depend on none of the others, so its requirements would be        *)
(* derivable, and so would it.                                             *)
LEMMA ProvenDerivable ==
  ASSUME TypeOK, Grounded, Founded, pc = "idle"
  PROVE  \A i \in 1 .. Len(nodes) : Proven(state[i]) => nodes[i] \in Derivable
<1> DEFINE S == {i \in DOMAIN nodes : state[i] = "Implementation" /\ nodes[i] \notin Derivable}
<1>1. /\ DOMAIN nodes = 1 .. Len(nodes) /\ \A i \in 1 .. Len(nodes) : nodes[i] \in Goal
      /\ \A i \in 1 .. Len(nodes) : Reason(i)
  BY Positions DEF Founded
<1>2. ASSUME NEW i \in 1 .. Len(nodes), state[i] = "Held" PROVE nodes[i] \in Derivable
  BY <1>1, <1>2, DerivedSteps DEF Reason, Derivable
<1>3. S = {}
  <2> SUFFICES ASSUME S # {} PROVE FALSE
    OBVIOUS
  <2>1. S \in SUBSET {i \in DOMAIN nodes : state[i] = "Implementation"}
    OBVIOUS
  <2>2. PICK i \in S : \A k \in DOMAIN deps[i] : deps[i][k] \notin S
    BY <2>1, Zenon DEF Grounded
  <2>3. i \in 1 .. Len(nodes) /\ state[i] = "Implementation" /\ nodes[i] \notin Derivable
    BY <1>1, <2>2
  <2>4. Unproven(i) = {}
    BY <1>1, <2>3 DEF Grounded
  <2>5. PICK m \in Chosen(nodes[i]) : Members(m.needs) = Goals(i)
    BY <1>1, <2>3 DEF Reason, Rule
  <2>6. ASSUME NEW k \in DOMAIN deps[i] PROVE nodes[deps[i][k]] \in Derivable
    <3>1. deps[i][k] \in 1 .. Len(nodes)
      <4>1. deps[i] \in Seq(1 .. Len(nodes))
        BY <2>3 DEF TypeOK
      <4> QED
        BY <4>1, LenProperties
    <3>2. state[deps[i][k]] \in {"Held", "Implementation"}
      BY <2>4 DEF Unproven, Proven
    <3> QED
      BY <1>1, <1>2, <2>2, <3>1, <3>2
  <2>7. Members(m.needs) \subseteq Derivable
    BY <2>5, <2>6 DEF Goals
  <2> QED
    BY <1>1, <2>3, <2>5, <2>7, RuleDerives
<1> QED
  BY <1>1, <1>2, <1>3 DEF Proven

(* What is derivable and was asked for is proven, by induction on the      *)
(* depth: a chosen implementation whose requirements are proven is neither *)
(* passed over nor refused.                                                *)
LEMMA DerivableProven ==
  ASSUME TypeOK, Order, Closed, RefusedFor, Founded, pc = "idle"
  PROVE  \A n \in Nat : \A i \in 1 .. Len(nodes) : nodes[i] \in Derived[n] => Proven(state[i])
<1> DEFINE N == {n \in Nat : \A i \in 1 .. Len(nodes) : nodes[i] \in Derived[n] => Proven(state[i])}
<1>1. ASSUME NEW i \in 1 .. Len(nodes)
      PROVE  /\ Reason(i) /\ nodes[i] \in Goal
             /\ state[i] \in State \ {"Pending"}
             /\ state[i] = "Rejected" /\ Chosen(nodes[i]) # {} => Unproven(i) # {}
  BY Positions DEF Founded, Closed, ClosedUpTo, RefusedFor, TypeOK
<1>2. \A g : \A l, m \in Chosen(g) : l = m
  BY DEF Chosen
<1>3. \A g : Chosen(g) # {} => program[g].direct = "search"
  BY DEF Chosen
<1>4. 0 \in N
  <2> SUFFICES ASSUME NEW i \in 1 .. Len(nodes), nodes[i] \in Derived[0] PROVE Proven(state[i])
    OBVIOUS
  <2>1. program[nodes[i]].direct = "holds"
    BY DerivedSteps
  <2>2. ~Never(i) /\ Chosen(nodes[i]) = {}
    BY <1>3, <2>1 DEF Never
  <2>3. ~Rule(i) /\ ~Leaves(i)
    BY <2>2 DEF Rule, Leaves
  <2> QED
    BY <1>1, <2>2, <2>3 DEF Reason, State, Proven
<1>5. ASSUME NEW n \in Nat, n \in N PROVE n + 1 \in N
  <2> SUFFICES ASSUME NEW i \in 1 .. Len(nodes), nodes[i] \in Derived[n + 1], nodes[i] \notin Derived[n]
               PROVE  Proven(state[i])
    BY <1>5
  <2>1. PICK m \in Chosen(nodes[i]) : Members(m.needs) \subseteq Derived[n]
    BY DerivedSteps DEF Follows
  <2>2. ~Never(i)
    BY <2>1 DEF Never
  <2>3. ~Leaves(i)
    BY <1>2, <2>1, DerivedSteps DEF Leaves
  <2>4. Rule(i) => Unproven(i) = {}
    <3> SUFFICES ASSUME Rule(i), NEW k \in DOMAIN deps[i] PROVE Proven(state[deps[i][k]])
      BY DEF Unproven
    <3>1. Members(m.needs) = Goals(i)
      BY <1>2, <2>1 DEF Rule
    <3>2. nodes[deps[i][k]] \in Derived[n]
      BY <2>1, <3>1 DEF Goals
    <3>3. deps[i][k] \in 1 .. Len(nodes)
      <4>1. deps[i] \in Seq(1 .. Len(nodes))
        BY DEF TypeOK
      <4> QED
        BY <4>1, LenProperties
    <3> QED
      BY <1>5, <3>2, <3>3
  <2>5. state[i] = "Rejected" => FALSE
    BY <1>1, <2>1, <2>2, <2>4 DEF Reason
  <2> QED
    BY <1>1, <2>2, <2>3, <2>5 DEF Reason, State, Proven
<1> HIDE DEF N
<1>6. \A n \in Nat : n \in N
  BY <1>4, <1>5, EveryNatural
<1> QED
  BY <1>6 DEF N

(* Whatever was asked and in which batches, and however deep the proofs    *)
(* are: between batches a goal is proven exactly when it follows from the  *)
(* declarations.  There may be infinitely many goals.                      *)
THEOREM EvidenceDerives ==
  Spec => [](pc = "idle" =>
               \A i \in DOMAIN nodes :
                 Proven(state[i]) <=> \E n \in Nat : nodes[i] \in Derived[n])
<1>1. TypeOK /\ Order /\ Counted /\ Closed /\ RefusedFor /\ Grounded /\ Founded =>
        (pc = "idle" => \A i \in DOMAIN nodes :
                          Proven(state[i]) <=> \E n \in Nat : nodes[i] \in Derived[n])
  <2> SUFFICES ASSUME TypeOK, Order, Closed, RefusedFor, Grounded, Founded, pc = "idle",
                      NEW i \in DOMAIN nodes
               PROVE  Proven(state[i]) <=> \E n \in Nat : nodes[i] \in Derived[n]
    OBVIOUS
  <2>1. i \in 1 .. Len(nodes)
    BY Positions
  <2>2. Proven(state[i]) => \E n \in Nat : nodes[i] \in Derived[n]
    BY <2>1, ProvenDerivable DEF Derivable
  <2>3. (\E n \in Nat : nodes[i] \in Derived[n]) => Proven(state[i])
    BY <2>1, DerivableProven
  <2> QED
    BY <2>2, <2>3
<1> QED
  BY <1>1, EvidenceCounts, EvidenceClosed, EvidenceGrounded, EvidenceFounded, PTL

(* With finitely many goals, as many steps as there are goals derive all.  *)
LEMMA DerivedSettles ==
  ASSUME IsFiniteSet(Goal)
  PROVE  \A n \in Nat : Derived[n] \subseteq Derived[Cardinality(Goal)]
<1> DEFINE K == Cardinality(Goal)
           Stops(j) == Derived[j + 1] = Derived[j]
           N == {n \in Nat : (\E j \in Nat : j < n /\ Stops(j)) \/ Cardinality(Derived[n]) >= n}
<1>1. K \in Nat
  BY FS_CardinalityType
<1>2. ASSUME NEW n \in Nat
      PROVE  IsFiniteSet(Derived[n]) /\ Cardinality(Derived[n]) \in Nat /\ Cardinality(Derived[n]) <= K
  <2>1. Derived[n] \subseteq Goal
    BY DerivedSteps
  <2> QED
    BY <2>1, FS_Subset, FS_CardinalityType
<1>3. 0 \in N
  BY <1>2
<1>4. ASSUME NEW n \in Nat, n \in N PROVE n + 1 \in N
  <2>1. CASE \E j \in Nat : j < n /\ Stops(j)
    <3>1. PICK j \in Nat : j < n /\ Stops(j)
      BY <2>1
    <3>2. j < n + 1
      BY <3>1
    <3> HIDE DEF Stops
    <3> QED
      BY <3>1, <3>2
  <2>2. CASE Cardinality(Derived[n]) >= n /\ Stops(n)
    <3>1. n < n + 1
      OBVIOUS
    <3> HIDE DEF Stops
    <3> QED
      BY <2>2, <3>1
  <2>3. CASE Cardinality(Derived[n]) >= n /\ ~Stops(n)
    <3>1. Derived[n] \subseteq Derived[n + 1] /\ Derived[n] # Derived[n + 1]
      BY <2>3, DerivedSteps
    <3>2. IsFiniteSet(Derived[n + 1]) /\ Cardinality(Derived[n + 1]) \in Nat
      BY <1>2
    <3>3. Cardinality(Derived[n]) < Cardinality(Derived[n + 1])
      BY <1>2, <3>1, <3>2, FS_Subset
    <3>4. Cardinality(Derived[n + 1]) >= n + 1
      BY <1>2, <2>3, <3>2, <3>3
    <3> QED
      BY <3>4
  <2> QED
    BY <1>4, <2>1, <2>2, <2>3
<1> HIDE DEF N
<1>5. \A n \in Nat : n \in N
  BY <1>3, <1>4, EveryNatural
<1>6. PICK j \in Nat : j < K + 1 /\ Stops(j)
  BY <1>1, <1>2, <1>5 DEF N
<1>7. \A k \in Nat : Derived[j + k] = Derived[j]
  <2> DEFINE M == {k \in Nat : Derived[j + k] = Derived[j]}
  <2>1. 0 \in M
    OBVIOUS
  <2>2. ASSUME NEW k \in Nat, k \in M PROVE k + 1 \in M
    <3>1. j + k \in Nat /\ j + (k + 1) = (j + k) + 1
      OBVIOUS
    <3>2. Derived[(j + k) + 1] = Derived[j + k] \cup Follows(Derived[j + k])
      BY <3>1, DerivedSteps
    <3>3. Derived[j + 1] = Derived[j] \cup Follows(Derived[j])
      BY DerivedSteps
    <3>4. Derived[j + k] = Derived[j]
      BY <2>2
    <3>5. Derived[(j + k) + 1] = Derived[j + 1]
      BY <3>2, <3>3, <3>4, Zenon
    <3>6. Derived[j + (k + 1)] = Derived[j]
      BY <1>6, <3>1, <3>5
    <3> QED
      BY <3>6
  <2> HIDE DEF M
  <2>3. \A k \in Nat : k \in M
    BY <2>1, <2>2, EveryNatural
  <2> QED
    BY <2>3 DEF M
<1>8. Derived[j] \subseteq Derived[K]
  BY <1>1, <1>6, DerivedMonotone
<1> SUFFICES ASSUME NEW n \in Nat PROVE Derived[n] \subseteq Derived[K]
  OBVIOUS
<1>9. CASE n <= j
  BY <1>8, <1>9, DerivedMonotone
<1>10. CASE ~(n <= j)
  <2>1. n - j \in Nat /\ j + (n - j) = n
    BY <1>10
  <2> QED
    BY <1>7, <1>8, <2>1
<1> QED
  BY <1>9, <1>10

(* A verdict is that of the declarations, whatever was asked before and    *)
(* however the questions fell into batches.                                *)
THEOREM EvidenceExact ==
  ASSUME IsFiniteSet(Goal)
  PROVE  Spec => []ExactlyDerived
<1>1. (pc = "idle" => \A i \in DOMAIN nodes :
                        Proven(state[i]) <=> \E n \in Nat : nodes[i] \in Derived[n])
        => ExactlyDerived
  <2>1. Cardinality(Goal) \in Nat
    BY FS_CardinalityType
  <2>2. \A g : (\E n \in Nat : g \in Derived[n]) <=> g \in Derived[Cardinality(Goal)]
    BY <2>1, DerivedSettles
  <2> QED
    BY <2>2 DEF ExactlyDerived
<1> QED
  BY <1>1, EvidenceDerives, PTL

=============================================================================
