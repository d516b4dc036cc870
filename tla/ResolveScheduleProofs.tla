------------------------ MODULE ResolveScheduleProofs ------------------------
(* The symbol pass, for every set of tasks and every program: no wake-up   *)
(* is lost, a stuck queue has a cycle to cut, and what the pass            *)
(* establishes does not depend on the order of the queue.                  *)
EXTENDS ResolveSchedule, Iteration, SequenceTheorems, TLAPS

(* A step that finds an input missing names a task to wait for, one whose  *)
(* fact is not established (the assertion of drain on a dependency).       *)
LEMMA MissingInput ==
  ASSUME NEW t \in Task, prog \in Programs, Asking(prog[t], fact) # {}
  PROVE  Missing(prog[t], fact) \in Task /\ fact[Missing(prog[t], fact)] = None
<1>1. Rule(prog[t])
  BY ProgramsAssumption
<1>2. PICK h \in Asking(prog[t], fact) : Missing(prog[t], fact) = prog[t].asks[h]
  BY DEF Missing
<1> QED
  BY <1>1, <1>2 DEF Asking, Rule

(* A step that finishes establishes an answer.                             *)
LEMMA ConclusionType ==
  ASSUME NEW t \in Task, prog \in Programs, Saying(prog[t], fact) # {}
  PROVE  Conclusion(prog[t], fact) \in Answer
<1>1. Rule(prog[t])
  BY ProgramsAssumption
<1>2. PICK h \in Saying(prog[t], fact) : Conclusion(prog[t], fact) = prog[t].says[h]
  BY DEF Conclusion
<1> QED
  BY <1>1, <1>2 DEF Saying, Rule

(* No fact stands for none.                                                *)
LEMMA NoneIsNoAnswer == None \notin Answer
BY DEF None, Answer

(* What notify leaves well-typed.                                          *)
LEMMA NotifyType ==
  ASSUME TypeOK, NEW D \in SUBSET Task, Notify(D)
  PROVE  /\ ready' \subseteq Task
         /\ \A t \in Task : waiting'[t] = {} \/ \E d \in Task : waiting'[t] = {d}
         /\ waiting' \in [Task -> SUBSET Task]
         /\ consumers' \in [Task -> SUBSET Task]
BY DEF TypeOK, Notify, Woken

(* notify keeps every wait registered when the facts of its tasks, and of  *)
(* no others, are established.                                             *)
LEMMA NotifyKeeps ==
  ASSUME TypeOK, NoLostWakeup, NEW D \in SUBSET Task, Notify(D),
         \A t \in Task \ D : fact'[t] = fact[t]
  PROVE  NoLostWakeup'
<1>1. ASSUME NEW c \in Task, waiting'[c] # {}
      PROVE  Registered(c)'
  <2>1. c \notin D /\ c \notin Woken(D) /\ waiting'[c] = waiting[c]
    BY <1>1 DEF Notify
  <2>2. PICK d \in Task : /\ waiting[c] = {d}
                          /\ c \in consumers[d]
                          /\ fact[c] = None /\ fact[d] = None
                          /\ d \in ready \cup Blocked
    BY <1>1, <2>1 DEF NoLostWakeup, Registered, Blocked
  <2>3. d \notin D
    BY <2>1, <2>2 DEF Woken
  <2>4. c \in consumers'[d]
    BY <2>2, <2>3 DEF Notify
  <2>5. fact'[c] = None /\ fact'[d] = None
    BY <2>1, <2>2, <2>3
  <2>6. d \in ready' \/ waiting'[d] # {}
    <3>1. CASE d \in ready \/ d \in Woken(D)
      BY <3>1, <2>3 DEF Notify
    <3>2. CASE d \in Blocked /\ d \notin Woken(D)
      BY <3>2, <2>3 DEF Notify, Blocked
    <3> QED
      BY <2>2, <3>1, <3>2
  <2> QED
    BY <2>1, <2>2, <2>4, <2>5, <2>6 DEF Registered, Blocked
<1>2. ASSUME NEW u \in ready', fact'[u] = None
      PROVE  waiting'[u] = {}
  <2>1. CASE u \in Woken(D)
    BY <2>1 DEF Notify, Woken
  <2>2. CASE u \in ready \ D
    <3>1. u \in Task
      BY <2>2 DEF TypeOK
    <3>2. waiting[u] = {}
      BY <1>2, <2>2, <3>1 DEF NoLostWakeup
    <3> QED
      BY <3>1, <3>2 DEF Notify
  <2> QED
    BY <1>2, <2>1, <2>2 DEF Notify
<1> QED
  BY <1>1, <1>2 DEF NoLostWakeup, Blocked

IInv == TypeOK /\ NoLostWakeup

(* What is established before the tasks start.                             *)
LEMMA EstablishedType ==
  ASSUME NEW p \in Programs
  PROVE  Established(p) \in [Task -> Answer \cup {None}]
<1>1. ASSUME NEW t \in Task PROVE Established(p)[t] \in Answer \cup {None}
  <2>1. Rule(p[t])
    BY ProgramsAssumption
  <2>2. CASE Declared(p, t)
    <3>1. <<>> \in DOMAIN p[t].says
      <4>1. DOMAIN p[t].asks = {}
        BY <2>2 DEF Declared
      <4> QED
        BY <2>1, <4>1 DEF Rule
    <3>2. Established(p)[t] = p[t].says[<<>>]
      BY <2>2 DEF Established
    <3> QED
      BY <2>1, <3>1, <3>2 DEF Rule
  <2>3. CASE ~Declared(p, t)
    BY <2>3 DEF Established
  <2> QED
    BY <2>2, <2>3
<1> QED
  BY <1>1 DEF Established

(* The invariant holds when the tasks start.                               *)
LEMMA InitIInv == Init => IInv
<1> SUFFICES ASSUME Init PROVE IInv
  OBVIOUS
<1>1. fact \in [Task -> Answer \cup {None}]
  BY EstablishedType DEF Init
<1>2. TypeOK
  BY <1>1, SeedsAssumption DEF Init, TypeOK
<1>3. NoLostWakeup
  BY SeedsAssumption DEF Init, NoLostWakeup, Blocked
<1> QED
  BY <1>2, <1>3 DEF IInv

(* A finished task taken from the queue again.                             *)
LEMMA SkipKeeps ==
  ASSUME IInv, NEW t \in Task, Skip(t)
  PROVE  IInv'
<1>1. fact[t] # None
  BY DEF IInv, NoLostWakeup, Skip
<1>2. Notify({t}) /\ UNCHANGED <<prog, dup, fact, draining>>
  BY <1>1 DEF Skip
<1>3. TypeOK'
  BY <1>2, NotifyType DEF IInv, TypeOK
<1>4. NoLostWakeup'
  BY <1>2, NotifyKeeps DEF IInv
<1> QED
  BY <1>3, <1>4 DEF IInv

(* A task that concludes.                                                  *)
LEMMA FinishKeeps ==
  ASSUME IInv, NEW t \in Task, Finish(t)
  PROVE  IInv'
<1>1. Notify({t}) /\ UNCHANGED <<prog, dup, draining>>
  BY DEF Finish
<1>2. fact' = [fact EXCEPT ![t] = Conclusion(prog[t], fact)]
  BY DEF Finish
<1>3. fact' \in [Task -> Answer \cup {None}]
  BY <1>2, ConclusionType DEF IInv, TypeOK, Finish
<1>4. TypeOK'
  BY <1>1, <1>3, NotifyType DEF IInv, TypeOK
<1>5. NoLostWakeup'
  BY <1>1, <1>2, NotifyKeeps DEF IInv, TypeOK
<1> QED
  BY <1>4, <1>5 DEF IInv

(* A task that registers with its first missing input.                     *)
LEMMA WaitKeeps ==
  ASSUME IInv, NEW t \in Task, Wait(t)
  PROVE  IInv'
<1> DEFINE d == Missing(prog[t], fact)
<1>1. d \in Task /\ fact[d] = None
  BY MissingInput DEF IInv, TypeOK, Wait
<1> HIDE DEF d
<1>2. /\ t \in ready /\ fact[t] = None /\ waiting[t] = {}
      /\ waiting' = [waiting EXCEPT ![t] = {d}]
      /\ consumers' = [u \in Task |-> IF u = d THEN consumers[u] \cup {t} ELSE consumers[u]]
      /\ ready' = (ready \ {t}) \cup {u \in {d} : waiting'[u] = {}}
      /\ UNCHANGED <<prog, dup, fact, draining>>
  BY DEF Wait, WaitsOn, d
<1>3. TypeOK'
  <2>1. waiting' \in [Task -> SUBSET Task] /\ consumers' \in [Task -> SUBSET Task]
    BY <1>1, <1>2 DEF IInv, TypeOK
  <2>2. \A c \in Task : waiting'[c] = {} \/ \E e \in Task : waiting'[c] = {e}
    BY <1>1, <1>2 DEF IInv, TypeOK
  <2>3. ready' \subseteq Task
    BY <1>1, <1>2 DEF IInv, TypeOK
  <2> QED
    BY <1>2, <2>1, <2>2, <2>3 DEF IInv, TypeOK
<1>4. ASSUME NEW c \in Task, waiting'[c] # {}
      PROVE  Registered(c)'
  <2>1. CASE c = t
    <3>1. waiting'[t] = {d} /\ t \in consumers'[d]
      BY <1>1, <1>2 DEF IInv, TypeOK
    <3>2. d \in ready' \/ waiting'[d] # {}
      BY <1>2
    <3> QED
      BY <2>1, <1>1, <1>2, <3>1, <3>2 DEF Registered, Blocked
  <2>2. CASE c # t
    <3>1. waiting'[c] = waiting[c]
      BY <2>2, <1>2 DEF IInv, TypeOK
    <3>2. PICK e \in Task : /\ waiting[c] = {e}
                            /\ c \in consumers[e]
                            /\ fact[c] = None /\ fact[e] = None
                            /\ e \in ready \cup Blocked
      BY <1>4, <3>1 DEF IInv, NoLostWakeup, Registered, Blocked
    <3>3. c \in consumers'[e]
      BY <1>1, <1>2, <3>2 DEF IInv, TypeOK
    <3>4. e \in ready' \/ waiting'[e] # {}
      <4>1. CASE e = t
        BY <4>1, <1>2 DEF IInv, TypeOK
      <4>2. CASE e # t
        BY <4>2, <1>2, <3>2 DEF IInv, TypeOK, Blocked
      <4> QED
        BY <4>1, <4>2
    <3> QED
      BY <1>2, <3>1, <3>2, <3>3, <3>4 DEF Registered, Blocked
  <2> QED
    BY <2>1, <2>2
<1>5. ASSUME NEW u \in ready', fact'[u] = None
      PROVE  waiting'[u] = {}
  <2>1. CASE u \in ready \ {t}
    <3>1. u \in Task /\ waiting[u] = {}
      BY <2>1, <1>2, <1>5 DEF IInv, TypeOK, NoLostWakeup
    <3> QED
      BY <2>1, <3>1, <1>2 DEF IInv, TypeOK
  <2>2. CASE u \notin ready \ {t}
    BY <2>2, <1>2, <1>5
  <2> QED
    BY <2>1, <2>2
<1>6. NoLostWakeup'
  BY <1>4, <1>5 DEF NoLostWakeup, Blocked
<1> QED
  BY <1>3, <1>6 DEF IInv

(* Cycles cut.                                                             *)
LEMMA CutKeeps ==
  ASSUME IInv, CutCycles
  PROVE  IInv'
<1>1. Victims \in SUBSET Task
  BY DEF Victims, Blocked
<1>2. /\ fact' = [t \in Task |-> IF t \in Victims THEN "no" ELSE fact[t]]
      /\ Notify(Victims)
      /\ UNCHANGED <<prog, dup, draining>>
  BY DEF CutCycles
<1>3. fact' \in [Task -> Answer \cup {None}]
  BY <1>2 DEF IInv, TypeOK, Answer
<1>4. TypeOK'
  BY <1>1, <1>2, <1>3, NotifyType DEF IInv, TypeOK
<1>5. NoLostWakeup'
  BY <1>1, <1>2, NotifyKeeps DEF IInv
<1> QED
  BY <1>4, <1>5 DEF IInv

(* The second drain starts.                                                *)
LEMMA ReferencesKeep ==
  ASSUME IInv, ResolveReferences
  PROVE  IInv'
<1>1. /\ \A t \in Task : waiting'[t] = {}
      /\ ready' \subseteq Task
  BY SeedsAssumption DEF IInv, TypeOK, ResolveReferences, Blocked
<1>2. fact' \in [Task -> Answer \cup {None}]
  BY DEF IInv, TypeOK, ResolveReferences, Answer, Marked
<1>3. TypeOK'
  BY <1>1, <1>2 DEF IInv, TypeOK, ResolveReferences
<1>4. NoLostWakeup'
  BY <1>1 DEF NoLostWakeup, Blocked
<1> QED
  BY <1>3, <1>4 DEF IInv

(* Every step keeps the invariant.                                         *)
LEMMA NextIInv == IInv /\ [Next]_vars => IInv'
<1> SUFFICES ASSUME IInv, [Next]_vars PROVE IInv'
  OBVIOUS
<1>1. ASSUME NEW t \in Task, Turn(t) PROVE IInv'
  BY <1>1, SkipKeeps, FinishKeeps, WaitKeeps DEF Turn
<1>2. CASE CutCycles
  BY <1>2, CutKeeps
<1>3. CASE ResolveReferences
  BY <1>3, ReferencesKeep
<1>4. CASE UNCHANGED vars
  BY <1>4 DEF vars, IInv, TypeOK, NoLostWakeup, Registered, Blocked
<1> QED
  BY <1>1, <1>2, <1>3, <1>4 DEF Next, Work

(* The inductive invariant holds throughout.                               *)
THEOREM Scheduled == Spec => []IInv
BY InitIInv, NextIInv, PTL DEF Spec

(* The variables of the pass keep their types; in particular a task waits  *)
(* for at most one input, which the search for cycles in drain relies on.  *)
THEOREM TypeCorrect == Spec => []TypeOK
<1>1. IInv => TypeOK
  BY DEF IInv
<1> QED
  BY <1>1, Scheduled, PTL

(* A waiting task is always registered with an unfinished task that is     *)
(* queued or waiting, whatever the program and the order of the queue, and *)
(* a queued task never waits: notify loses no wake-up, and the check of    *)
(* drain for a queued task that waits is never met.                        *)
THEOREM WakeupsKept == Spec => []NoLostWakeup
<1>1. IInv => NoLostWakeup
  BY DEF IInv
<1> QED
  BY <1>1, Scheduled, PTL

-----------------------------------------------------------------------------
(* The search for cycles.                                                  *)

(* The tasks ahead, one wait further (the walk of drain).                  *)
LEMMA AheadSteps ==
  ASSUME TypeOK
  PROVE  /\ Ahead[0] = waiting
         /\ \A n \in Nat : Ahead[n + 1] =
              [t \in Task |-> UNION {waiting[u] : u \in Ahead[n][t]}]
<1> DEFINE S == [Task -> SUBSET Task]
           F == [a \in S |-> [t \in Task |-> UNION {waiting[u] : u \in a[t]}]]
           G(g) == [n \in Nat |->
                      IF n = 0 THEN waiting
                      ELSE [t \in Task |-> UNION {waiting[u] : u \in g[n - 1][t]}]]
<1>1. waiting \in S
  BY DEF TypeOK
<1>2. F \in [S -> S]
  <2> SUFFICES ASSUME NEW a \in S, NEW t \in Task, NEW u \in a[t]
               PROVE  waiting[u] \subseteq Task
    OBVIOUS
  <2> QED
    BY <1>1
<1> HIDE DEF S
<1>3. PICK f \in [Nat -> S] : f[0] = waiting /\ \A n \in Nat : f[n + 1] = F[f[n]]
  <2> HIDE DEF F
  <2> QED
    BY <1>1, <1>2, Iterated
<1>4. \A n \in Nat : f[n + 1] = [t \in Task |-> UNION {waiting[u] : u \in f[n][t]}]
  BY <1>3
<1>5. f = G(f)
  <2>1. ASSUME NEW n \in Nat PROVE f[n] = G(f)[n]
    <3>1. CASE n = 0
      BY <1>3, <3>1
    <3>2. CASE n # 0
      <4>1. n - 1 \in Nat /\ (n - 1) + 1 = n
        BY <3>2
      <4>2. f[n] = [t \in Task |-> UNION {waiting[u] : u \in f[n - 1][t]}]
        BY <1>4, <4>1
      <4> QED
        BY <3>2, <4>2
    <3> QED
      BY <3>1, <3>2
  <2> QED
    BY <1>3, <2>1
<1>6. Ahead = G(Ahead)
  <2>1. Ahead = CHOOSE g : g = G(g)
    BY DEF Ahead
  <2> HIDE DEF G
  <2> QED
    BY <1>5, <2>1
<1>7. \A n \in Nat : n + 1 \in Nat /\ n + 1 # 0 /\ (n + 1) - 1 = n
  OBVIOUS
<1> QED
  BY <1>6, <1>7

(* Every waiting task waits for one that waits itself, so from any of them *)
(* the waits make an endless path ("every pending producer must be         *)
(* scheduled").                                                            *)
Path(p) ==
  /\ p \in [Nat -> Blocked]
  /\ \A n \in Nat : waiting[p[n]] = {p[n + 1]}

LEMMA WaitsGoOn ==
  ASSUME IInv, Quiescent
  PROVE  \E p : Path(p)
<1>1. \A t \in Blocked : \E d \in Blocked : waiting[t] = {d}
  BY DEF IInv, NoLostWakeup, Registered, Quiescent
<1>2. PICK b \in Blocked : TRUE
  BY DEF Quiescent
<1> DEFINE W == [t \in Blocked |-> CHOOSE d \in Blocked : waiting[t] = {d}]
<1>3. W \in [Blocked -> Blocked] /\ \A t \in Blocked : waiting[t] = {W[t]}
  BY <1>1
<1> HIDE DEF W
<1>4. PICK p \in [Nat -> Blocked] : p[0] = b /\ \A n \in Nat : p[n + 1] = W[p[n]]
  BY <1>2, <1>3, Iterated
<1> QED
  BY <1>3, <1>4 DEF Path

(* What is ahead of a task on the path.                                    *)
LEMMA AheadOnPath ==
  ASSUME TypeOK, NEW p, Path(p)
  PROVE  \A n \in Nat : \A i \in Nat : Ahead[n][p[i]] = {p[i + n + 1]}
<1> DEFINE N == {n \in Nat : \A i \in Nat : Ahead[n][p[i]] = {p[i + n + 1]}}
<1>1. \A i \in Nat : p[i] \in Task /\ waiting[p[i]] = {p[i + 1]}
  BY DEF Path, Blocked
<1>2. 0 \in N
  <2> SUFFICES ASSUME NEW i \in Nat PROVE Ahead[0][p[i]] = {p[i + 0 + 1]}
    OBVIOUS
  <2>1. i + 0 + 1 = i + 1
    OBVIOUS
  <2>2. Ahead[0][p[i]] = waiting[p[i]]
    BY <1>1, AheadSteps
  <2> QED
    BY <1>1, <2>1, <2>2
<1>3. ASSUME NEW n \in Nat, n \in N PROVE n + 1 \in N
  <2> SUFFICES ASSUME NEW i \in Nat PROVE Ahead[n + 1][p[i]] = {p[i + (n + 1) + 1]}
    OBVIOUS
  <2>1. Ahead[n + 1][p[i]] = UNION {waiting[u] : u \in Ahead[n][p[i]]}
    <3>1. \A t \in Task : Ahead[n + 1][t] = UNION {waiting[u] : u \in Ahead[n][t]}
      BY AheadSteps
    <3>2. p[i] \in Task
      BY <1>1
    <3> QED
      BY <3>1, <3>2, Zenon
  <2>2. Ahead[n][p[i]] = {p[i + n + 1]}
    BY <1>3
  <2>3. i + n + 1 \in Nat /\ (i + n + 1) + 1 = i + (n + 1) + 1
    OBVIOUS
  <2>4. waiting[p[i + n + 1]] = {p[i + (n + 1) + 1]}
    BY <1>1, <2>3
  <2> QED
    BY <2>1, <2>2, <2>4
<1> HIDE DEF N
<1>4. \A n \in Nat : n \in N
  BY <1>2, <1>3, EveryNatural
<1> QED
  BY <1>4 DEF N

(* There are finitely many tasks: the path comes back to one of them.      *)
LEMMA PathReturns ==
  ASSUME NEW p, Path(p)
  PROVE  \E i \in Nat, c \in 1 .. Cardinality(Task) : p[i + c] = p[i]
<1> DEFINE K == Cardinality(Task)
<1>1. K \in Nat
  BY TaskAssumption, FS_CardinalityType
<1>2. IsFiniteSet(0 .. K) /\ Cardinality(0 .. K) = K + 1
  BY <1>1, FS_Interval
<1> DEFINE q == [n \in 0 .. K |-> p[n]]
<1>3. q \in [0 .. K -> Task]
  BY DEF Path, Blocked
<1> HIDE DEF K
<1>4. PICK x, y \in 0 .. K : x # y /\ q[x] = q[y]
  <2> HIDE DEF q
  <2>1. Cardinality(Task) < Cardinality(0 .. K)
    BY <1>1, <1>2 DEF K
  <2> QED
    BY <1>2, <1>3, <2>1, TaskAssumption, FS_PigeonHole
<1>5. p[x] = p[y] /\ x \in Nat /\ y \in Nat
  BY <1>1, <1>4
<1>6. CASE x < y
  <2>1. y - x \in 1 .. K /\ x + (y - x) = y
    BY <1>1, <1>4, <1>6
  <2> QED
    BY <1>5, <2>1 DEF K
<1>7. CASE y < x
  <2>1. x - y \in 1 .. K /\ y + (x - y) = x
    BY <1>1, <1>4, <1>7
  <2> QED
    BY <1>5, <2>1 DEF K
<1> QED
  BY <1>1, <1>4, <1>6, <1>7

(* From there it stays on the tasks of one round.                          *)
Stays(p, i, c) ==
  /\ \A k \in Nat : p[i + k + c] = p[i + k]
  /\ \A k \in Nat : \E l \in 0 .. (c - 1) : p[i + k] = p[i + l]

LEMMA PathStays ==
  ASSUME NEW p, Path(p)
  PROVE  \A i \in Nat : \A c \in Nat \ {0} : p[i + c] = p[i] => Stays(p, i, c)
<1> SUFFICES ASSUME NEW i \in Nat, NEW c \in Nat \ {0}, p[i + c] = p[i]
             PROVE  Stays(p, i, c)
  OBVIOUS
<1>1. \A n, m \in Nat : p[n] = p[m] => p[n + 1] = p[m + 1]
  BY DEF Path
<1>2. \A k \in Nat : p[i + k + c] = p[i + k]
  <2> DEFINE N == {k \in Nat : p[i + k + c] = p[i + k]}
  <2>1. 0 \in N
    OBVIOUS
  <2>2. ASSUME NEW k \in Nat, k \in N PROVE k + 1 \in N
    <3>1. /\ i + k + c \in Nat /\ i + k \in Nat
          /\ (i + k + c) + 1 = i + (k + 1) + c /\ (i + k) + 1 = i + (k + 1)
      OBVIOUS
    <3>2. p[(i + k + c) + 1] = p[(i + k) + 1]
      BY <1>1, <2>2, <3>1
    <3> QED
      BY <3>1, <3>2
  <2> HIDE DEF N
  <2>3. \A k \in Nat : k \in N
    BY <2>1, <2>2, EveryNatural
  <2> QED
    BY <2>3 DEF N
<1>3. \A k \in Nat : \E l \in 0 .. (c - 1) : p[i + k] = p[i + l]
  <2> DEFINE N == {k \in Nat : \E l \in 0 .. (c - 1) : p[i + k] = p[i + l]}
  <2>1. 0 \in N
    OBVIOUS
  <2>2. ASSUME NEW k \in Nat, k \in N PROVE k + 1 \in N
    <3>1. PICK l \in 0 .. (c - 1) : p[i + k] = p[i + l]
      BY <2>2
    <3>2. /\ i + k \in Nat /\ i + l \in Nat
          /\ (i + k) + 1 = i + (k + 1) /\ (i + l) + 1 = i + (l + 1)
      OBVIOUS
    <3>3. p[i + (k + 1)] = p[i + (l + 1)]
      <4>1. p[(i + k) + 1] = p[(i + l) + 1]
        BY <1>1, <3>1, <3>2
      <4> QED
        BY <3>2, <4>1
    <3>4. CASE l + 1 \in 0 .. (c - 1)
      BY <3>3, <3>4
    <3>5. CASE l + 1 = c
      <4>1. p[i + (k + 1)] = p[i + 0] /\ 0 \in 0 .. (c - 1)
        BY <3>3, <3>5
      <4> QED
        BY <4>1
    <3> QED
      BY <3>4, <3>5
  <2> HIDE DEF N
  <2>3. \A k \in Nat : k \in N
    BY <2>1, <2>2, EveryNatural
  <2> QED
    BY <2>3 DEF N
<1> QED
  BY <1>2, <1>3 DEF Stays

(* The least task of that round is cut.                                    *)
LEMMA PathCut ==
  ASSUME TypeOK, NEW p, Path(p)
  PROVE  Victims # {}
<1> DEFINE K == Cardinality(Task)
<1>1. K \in Nat
  BY TaskAssumption, FS_CardinalityType
<1>2. PICK i \in Nat, c \in 1 .. K : p[i + c] = p[i]
  BY PathReturns
<1>3. c \in Nat \ {0}
  BY <1>1, <1>2
<1>4. /\ \A k \in Nat : p[i + k + c] = p[i + k]
      /\ \A k \in Nat : \E l \in 0 .. (c - 1) : p[i + k] = p[i + l]
  <2>1. \A j \in Nat : \A d \in Nat \ {0} : p[j + d] = p[j] => Stays(p, j, d)
    BY PathStays, Zenon
  <2>2. i \in Nat /\ p[i + c] = p[i]
    BY <1>2
  <2>3. Stays(p, i, c)
    BY <1>3, <2>1, <2>2, Zenon
  <2> QED
    BY <2>3 DEF Stays
<1> DEFINE C == {p[i + l] : l \in 0 .. (c - 1)}
<1>5. C \subseteq Blocked /\ C \in SUBSET Nat /\ C # {}
  <2>1. \A l \in 0 .. (c - 1) : i + l \in Nat
    OBVIOUS
  <2>2. 0 \in 0 .. (c - 1)
    BY <1>3
  <2>3. \A n \in Nat : p[n] \in Blocked
    BY DEF Path
  <2>4. Blocked \subseteq Nat
    BY TaskAssumption DEF Blocked
  <2>5. C \subseteq Blocked
    BY <2>1, <2>3
  <2> QED
    BY <2>2, <2>4, <2>5
<1>6. PICK m \in C : \A x \in C : m <= x
  <2> HIDE DEF C
  <2> QED
    BY <1>5, LeastIn
<1>7. PICK l \in 0 .. (c - 1) : m = p[i + l]
  BY <1>6
<1>8. i + l \in Nat /\ l \in Nat
  BY <1>7
<1>9. \A n \in Nat : Ahead[n][m] = {p[i + l + n + 1]}
  BY <1>7, <1>8, AheadOnPath
<1>10. \A x \in Behind(m) : m <= x
  <2> SUFFICES ASSUME NEW n \in 0 .. K, NEW x \in Ahead[n][m] PROVE m <= x
    BY DEF Behind
  <2>1. x = p[i + l + n + 1] /\ n \in Nat
    BY <1>9
  <2>2. l + n + 1 \in Nat /\ i + (l + n + 1) = i + l + n + 1
    BY <1>8, <2>1
  <2>3. x \in C
    BY <1>4, <2>1, <2>2
  <2> HIDE DEF C
  <2> QED
    BY <1>6, <2>3
<1>11. m \in Behind(m)
  <2>1. c - 1 \in 0 .. K /\ c - 1 \in Nat /\ i + l + (c - 1) + 1 = i + l + c
    BY <1>1, <1>2, <1>8
  <2>2. Ahead[c - 1][m] = {m}
    BY <1>4, <1>7, <1>8, <1>9, <2>1
  <2> QED
    BY <2>1, <2>2 DEF Behind
<1>12. m \in Blocked
  BY <1>5
<1> QED
  BY <1>10, <1>11, <1>12 DEF Victims, OnCycle

(* Whatever the tasks and their programs, when no task is queued and some  *)
(* wait, drain finds a cycle to cut: the pass never stops with tasks that  *)
(* wait and nothing to do.                                                 *)
THEOREM CyclesFound == Spec => []CycleToCut
<1>1. IInv => CycleToCut
  BY WaitsGoOn, PathCut DEF IInv, CycleToCut
<1> QED
  BY <1>1, Scheduled, PTL

-----------------------------------------------------------------------------
(* Following a decision tree: with given facts there is one place to stop, *)
(* and more facts lead further along the same path.                        *)

Facts == [Task -> Answer \cup {None}]

Agrees(f, g) == \A u \in Task : f[u] # None => g[u] = f[u]

Stops(r, f) == Asking(r, f) \cup Saying(r, f)

(* The prefixes of a sequence.                                             *)
LEMMA Prefixes ==
  ASSUME NEW S, NEW h \in Seq(S), NEW i \in 0 .. Len(h)
  PROVE  /\ SubSeq(h, 1, i) \in Seq(S) /\ Len(SubSeq(h, 1, i)) = i
         /\ \A j \in 1 .. i : SubSeq(h, 1, i)[j] = h[j]
<1>1. Len(h) \in Nat /\ \A j \in 1 .. Len(h) : h[j] \in S
  BY LenProperties, ElementOfSeq
<1>2. \A j \in 1 .. i : h[j] \in S
  BY <1>1
<1>3. i \in Int /\ 1 \in Int
  BY <1>1
<1>4. /\ SubSeq(h, 1, i) \in Seq(S)
      /\ Len(SubSeq(h, 1, i)) = IF 1 <= i THEN i - 1 + 1 ELSE 0
      /\ \A j \in 1 .. i - 1 + 1 : SubSeq(h, 1, i)[j] = h[1 + j - 1]
  BY <1>2, <1>3, SubSeqProperties
<1> QED
  BY <1>1, <1>4

(* Two prefixes of one length with the same elements are the same.         *)
LEMMA SamePrefix ==
  ASSUME NEW S, NEW g \in Seq(S), NEW h \in Seq(S), NEW i \in Nat, i <= Len(g), i <= Len(h),
         \A j \in 1 .. i : g[j] = h[j]
  PROVE  SubSeq(g, 1, i) = SubSeq(h, 1, i)
<1>1. i \in 0 .. Len(g) /\ i \in 0 .. Len(h)
  BY LenProperties
<1>2. /\ SubSeq(g, 1, i) \in Seq(S) /\ Len(SubSeq(g, 1, i)) = i
      /\ \A j \in 1 .. i : SubSeq(g, 1, i)[j] = g[j]
  BY <1>1, Prefixes
<1>3. /\ SubSeq(h, 1, i) \in Seq(S) /\ Len(SubSeq(h, 1, i)) = i
      /\ \A j \in 1 .. i : SubSeq(h, 1, i)[j] = h[j]
  BY <1>1, Prefixes
<1>4. \A j \in 1 .. i : SubSeq(g, 1, i)[j] = SubSeq(h, 1, i)[j]
  BY <1>2, <1>3
<1> QED
  BY <1>2, <1>3, <1>4, SeqEqual

(* The prefix of a prefix.                                                 *)
LEMMA PrefixOfPrefix ==
  ASSUME NEW S, NEW h \in Seq(S), NEW i \in 0 .. Len(h), NEW j \in 0 .. i
  PROVE  SubSeq(SubSeq(h, 1, i), 1, j) = SubSeq(h, 1, j)
<1>1. /\ SubSeq(h, 1, i) \in Seq(S) /\ Len(SubSeq(h, 1, i)) = i
      /\ \A k \in 1 .. i : SubSeq(h, 1, i)[k] = h[k]
  BY Prefixes
<1>2. j \in Nat /\ j <= Len(h) /\ \A k \in 1 .. j : k \in 1 .. i
  BY LenProperties
<1> QED
  BY <1>1, <1>2, SamePrefix

(* Where a task stops: a place of its tree that the facts lead to.         *)
LEMMA StopsHere ==
  ASSUME NEW r, Rule(r), NEW f, NEW h \in Stops(r, f)
  PROVE  /\ h \in Seq(Answer) /\ Len(h) \in Nat /\ DOMAIN h = 1 .. Len(h)
         /\ h \in DOMAIN r.asks \cup DOMAIN r.says
         /\ \A i \in 1 .. Len(h) : /\ h[i] \in Answer
                                   /\ SubSeq(h, 1, i - 1) \in DOMAIN r.asks
                                   /\ f[r.asks[SubSeq(h, 1, i - 1)]] = h[i]
<1>1. h \in DOMAIN r.asks \cup DOMAIN r.says /\ Follows(r, f, h)
  BY DEF Stops, Asking, Saying
<1>2. h \in Seq(Answer)
  BY <1>1 DEF Rule
<1>3. Len(h) \in Nat /\ DOMAIN h = 1 .. Len(h) /\ \A i \in 1 .. Len(h) : h[i] \in Answer
  BY <1>2, LenProperties, ElementOfSeq
<1>4. \A i \in 1 .. Len(h) : SubSeq(h, 1, i - 1) \in DOMAIN r.asks
  BY <1>1 DEF Rule
<1> QED
  BY <1>1, <1>2, <1>3, <1>4 DEF Follows

(* Of two places to stop the shorter is a prefix of the longer, so both.   *)
LEMMA ShorterStop ==
  ASSUME NEW r, Rule(r), NEW f, NEW g \in Stops(r, f), NEW h \in Stops(r, f), Len(g) <= Len(h)
  PROVE  g = h
<1>1. /\ g \in Seq(Answer) /\ Len(g) \in Nat
      /\ \A i \in 1 .. Len(g) : f[r.asks[SubSeq(g, 1, i - 1)]] = g[i]
      /\ h \in Seq(Answer) /\ Len(h) \in Nat
      /\ \A i \in 1 .. Len(h) : /\ h[i] \in Answer
                                /\ SubSeq(h, 1, i - 1) \in DOMAIN r.asks
                                /\ f[r.asks[SubSeq(h, 1, i - 1)]] = h[i]
  BY StopsHere
<1> DEFINE Apart == {i \in 1 .. Len(g) : g[i] # h[i]}
<1>2. Apart = {}
  <2> SUFFICES ASSUME Apart # {} PROVE FALSE
    OBVIOUS
  <2>1. Apart \in SUBSET Nat
    OBVIOUS
  <2>2. PICK i \in Apart : \A j \in Apart : i <= j
    <3> HIDE DEF Apart
    <3> QED
      BY <2>1, LeastIn
  <2>3. /\ i \in 1 .. Len(g) /\ i \in 1 .. Len(h)
        /\ i - 1 \in Nat /\ i - 1 <= Len(g) /\ i - 1 <= Len(h)
    BY <1>1, <2>2
  <2>4. \A j \in 1 .. i - 1 : g[j] = h[j]
    BY <1>1, <2>2, <2>3
  <2>5. SubSeq(g, 1, i - 1) = SubSeq(h, 1, i - 1)
    BY <1>1, <2>3, <2>4, SamePrefix
  <2>6. g[i] = h[i]
    BY <1>1, <2>3, <2>5
  <2> QED
    BY <2>2, <2>6
<1>3. \A j \in 1 .. Len(g) : g[j] = h[j]
  BY <1>2
<1>4. CASE Len(g) = Len(h)
  BY <1>1, <1>3, <1>4, SeqEqual
<1>5. CASE Len(g) < Len(h)
  <2>1. SubSeq(h, 1, Len(g)) = g
    <3>1. /\ SubSeq(h, 1, Len(g)) \in Seq(Answer) /\ Len(SubSeq(h, 1, Len(g))) = Len(g)
          /\ \A j \in 1 .. Len(g) : SubSeq(h, 1, Len(g))[j] = h[j]
      <4>1. Len(g) \in 0 .. Len(h)
        BY <1>1, <1>5
      <4> QED
        BY <1>1, <4>1, Prefixes
    <3>2. \A j \in 1 .. Len(g) : SubSeq(h, 1, Len(g))[j] = g[j]
      BY <1>3, <3>1
    <3> QED
      BY <1>1, <3>1, <3>2, SeqEqual
  <2>2. PICK i \in 1 .. Len(h) : i - 1 = Len(g)
    <3>1. Len(g) + 1 \in 1 .. Len(h) /\ (Len(g) + 1) - 1 = Len(g)
      BY <1>1, <1>5
    <3> QED
      BY <3>1
  <2>3. g \in DOMAIN r.asks /\ f[r.asks[g]] \in Answer
    <3>1. SubSeq(h, 1, i - 1) = g
      BY <2>1, <2>2
    <3> QED
      BY <1>1, <3>1
  <2>4. g \notin Asking(r, f)
    BY <2>3, NoneIsNoAnswer DEF Asking
  <2>5. g \notin Saying(r, f)
    BY <2>3 DEF Saying, Rule
  <2> QED
    BY <2>4, <2>5 DEF Stops
<1> QED
  BY <1>1, <1>4, <1>5

(* A task with given facts has one place to stop.                          *)
LEMMA OneStop ==
  ASSUME NEW r, Rule(r), NEW f, NEW g \in Stops(r, f), NEW h \in Stops(r, f)
  PROVE  g = h
<1>1. Len(g) \in Nat /\ Len(h) \in Nat
  BY StopsHere
<1>2. CASE Len(g) <= Len(h)
  BY <1>2, ShorterStop
<1>3. CASE Len(h) <= Len(g)
  BY <1>3, ShorterStop
<1> QED
  BY <1>1, <1>2, <1>3

(* It asks or it concludes, and what it asks or concludes is determined.   *)
LEMMA Determined ==
  ASSUME NEW r, Rule(r), NEW f
  PROVE  /\ Asking(r, f) = {} \/ Saying(r, f) = {}
         /\ \A h \in Asking(r, f) : Missing(r, f) = r.asks[h]
         /\ \A h \in Saying(r, f) : Conclusion(r, f) = r.says[h]
<1>1. \A g, h \in Stops(r, f) : g = h
  BY OneStop
<1>2. Asking(r, f) \subseteq Stops(r, f) /\ Saying(r, f) \subseteq Stops(r, f)
  BY DEF Stops
<1>3. \A h \in Asking(r, f) : (CHOOSE g \in Asking(r, f) : TRUE) = h
  BY <1>1, <1>2
<1>4. \A h \in Saying(r, f) : (CHOOSE g \in Saying(r, f) : TRUE) = h
  BY <1>1, <1>2
<1>5. Asking(r, f) = {} \/ Saying(r, f) = {}
  <2> SUFFICES ASSUME NEW g \in Asking(r, f), NEW h \in Saying(r, f) PROVE FALSE
    OBVIOUS
  <2>1. g = h
    BY <1>1, <1>2
  <2>2. g \in DOMAIN r.asks /\ h \in DOMAIN r.says
    BY DEF Asking, Saying
  <2> QED
    BY <2>1, <2>2 DEF Rule
<1> QED
  BY <1>3, <1>4, <1>5 DEF Missing, Conclusion

(* More facts: a conclusion stays, and so does a question not answered.    *)
LEMMA StopStays ==
  ASSUME NEW r, Rule(r), NEW f \in Facts, NEW g \in Facts, Agrees(f, g)
  PROVE  /\ Saying(r, f) # {} => /\ Saying(r, g) # {}
                                 /\ Conclusion(r, g) = Conclusion(r, f)
         /\ Asking(r, f) # {} /\ g[Missing(r, f)] = None =>
              Asking(r, g) # {} /\ Missing(r, g) = Missing(r, f)
<1>1. ASSUME NEW h \in Stops(r, f) PROVE Follows(r, g, h)
  <2>1. ASSUME NEW i \in DOMAIN h PROVE g[r.asks[SubSeq(h, 1, i - 1)]] = h[i]
    <3>1. /\ i \in 1 .. Len(h) /\ h[i] \in Answer
          /\ SubSeq(h, 1, i - 1) \in DOMAIN r.asks
          /\ f[r.asks[SubSeq(h, 1, i - 1)]] = h[i]
      BY StopsHere
    <3>2. r.asks[SubSeq(h, 1, i - 1)] \in Task
      BY <3>1 DEF Rule
    <3> QED
      BY <3>1, <3>2, NoneIsNoAnswer DEF Agrees
  <2> QED
    BY <2>1 DEF Follows
<1>2. ASSUME NEW h \in Saying(r, f) PROVE h \in Saying(r, g)
  BY <1>1 DEF Stops, Saying
<1>3. ASSUME NEW h \in Asking(r, f), g[r.asks[h]] = None PROVE h \in Asking(r, g)
  <2>1. Follows(r, g, h)
    BY <1>1 DEF Stops
  <2> QED
    BY <1>3, <2>1 DEF Asking
<1>4. Saying(r, f) # {} => Saying(r, g) # {} /\ Conclusion(r, g) = Conclusion(r, f)
  BY <1>2, Determined
<1>5. Asking(r, f) # {} /\ g[Missing(r, f)] = None =>
        Asking(r, g) # {} /\ Missing(r, g) = Missing(r, f)
  <2> SUFFICES ASSUME NEW h \in Asking(r, f), g[Missing(r, f)] = None
               PROVE  Asking(r, g) # {} /\ Missing(r, g) = Missing(r, f)
    OBVIOUS
  <2>1. Missing(r, f) = r.asks[h]
    BY Determined
  <2>2. h \in Asking(r, g)
    BY <1>3, <2>1
  <2> QED
    BY <2>1, <2>2, Determined
<1> QED
  BY <1>4, <1>5

(* Fewer facts: a task that stops somewhere stops, perhaps earlier.        *)
LEMMA StopEarlier ==
  ASSUME NEW r, Rule(r), NEW f \in Facts, NEW g \in Facts, Agrees(f, g), Stops(r, g) # {}
  PROVE  Stops(r, f) # {}
<1>1. PICK h \in Stops(r, g) : TRUE
  OBVIOUS
<1>2. /\ h \in Seq(Answer) /\ Len(h) \in Nat /\ DOMAIN h = 1 .. Len(h)
      /\ h \in DOMAIN r.asks \cup DOMAIN r.says
      /\ \A i \in 1 .. Len(h) : /\ h[i] \in Answer
                                /\ SubSeq(h, 1, i - 1) \in DOMAIN r.asks
                                /\ g[r.asks[SubSeq(h, 1, i - 1)]] = h[i]
  BY StopsHere
<1> DEFINE Off == {i \in 1 .. Len(h) : f[r.asks[SubSeq(h, 1, i - 1)]] # h[i]}
<1>3. CASE Off = {}
  <2>1. Follows(r, f, h)
    BY <1>2, <1>3 DEF Follows
  <2>2. CASE h \in Saying(r, g)
    BY <2>1, <2>2 DEF Saying, Stops
  <2>3. CASE h \in Asking(r, g)
    <3>1. h \in DOMAIN r.asks /\ g[r.asks[h]] = None /\ r.asks[h] \in Task
      BY <2>3 DEF Asking, Rule
    <3>2. f[r.asks[h]] = None
      BY <3>1 DEF Agrees
    <3> QED
      BY <2>1, <3>1, <3>2 DEF Asking, Stops
  <2> QED
    BY <2>2, <2>3 DEF Stops
<1>4. CASE Off # {}
  <2>1. Off \in SUBSET Nat
    OBVIOUS
  <2>2. PICK i \in Off : \A j \in Off : i <= j
    <3> HIDE DEF Off
    <3> QED
      BY <1>4, <2>1, LeastIn
  <2> DEFINE k == SubSeq(h, 1, i - 1)
  <2>3. i \in 1 .. Len(h) /\ i - 1 \in 0 .. Len(h) /\ f[r.asks[k]] # h[i]
    BY <1>2, <2>2
  <2>4. k \in DOMAIN r.asks /\ r.asks[k] \in Task /\ g[r.asks[k]] = h[i]
    BY <1>2, <2>3 DEF Rule
  <2>5. f[r.asks[k]] = None
    BY <2>3, <2>4 DEF Agrees
  <2>6. k \in Seq(Answer) /\ Len(k) = i - 1 /\ \A j \in 1 .. i - 1 : k[j] = h[j]
    BY <1>2, <2>3, Prefixes
  <2>7. DOMAIN k = 1 .. i - 1
    BY <2>6, LenProperties
  <2>8. ASSUME NEW j \in DOMAIN k PROVE f[r.asks[SubSeq(k, 1, j - 1)]] = k[j]
    <3>1. j \in 1 .. Len(h) /\ j \notin Off /\ j - 1 \in 0 .. i - 1
      BY <1>2, <2>2, <2>3, <2>7
    <3>2. SubSeq(k, 1, j - 1) = SubSeq(h, 1, j - 1)
      BY <1>2, <2>3, <3>1, PrefixOfPrefix
    <3> QED
      BY <2>6, <2>7, <3>1, <3>2
  <2>9. Follows(r, f, k)
    BY <2>8 DEF Follows
  <2> QED
    BY <2>4, <2>5, <2>9 DEF Asking, Stops
<1> QED
  BY <1>3, <1>4

-----------------------------------------------------------------------------
(* What a drain may establish, in whatever order: the least state above    *)
(* its start that is closed and well founded.  A state is a record of what *)
(* was asked for and what is established.                                  *)

Snapshot == [asked : SUBSET Task, fact : Facts]

(* s is not ahead of x.                                                    *)
Upto(s, x) ==
    /\ Agrees(s.fact, x.fact)
    /\ \A t \in s.asked : t \in x.asked \/ x.fact[t] # None

(* What x has and b had not was concluded.                                 *)
Concluded(p, b, x) ==
    \A t \in Task : b.fact[t] = None /\ x.fact[t] # None =>
      Saying(p[t], x.fact) # {} /\ x.fact[t] = Conclusion(p[t], x.fact)

(* Every task asked for and undecided waits for one that was asked for.    *)
AllWait(p, x) ==
    \A t \in Undecided(x) : Asking(p[t], x.fact) # {} /\ Missing(p[t], x.fact) \in x.asked

Above(p, b, x) == x \in Snapshot /\ AllWait(p, x) /\ Upto(b, x) /\ Concluded(p, b, x)

Within(p, b, s) ==
    /\ b \in Snapshot /\ s \in Snapshot
    /\ Upto(b, s)
    /\ Concluded(p, b, s)
    /\ \A x : Above(p, b, x) => Upto(s, x)

(* Turns of tasks: some conclude, and what others miss may be asked for.   *)
Turns(p, s, n) ==
    /\ n \in Snapshot
    /\ \A t \in Task : n.fact[t] # s.fact[t] =>
         /\ t \in Undecided(s) /\ Saying(p[t], s.fact) # {}
         /\ n.fact[t] = Conclusion(p[t], s.fact)
    /\ \A t \in s.asked : t \in n.asked \/ n.fact[t] # None
    /\ \A t \in n.asked \ s.asked :
         \E u \in Undecided(s) : Asking(p[u], s.fact) # {} /\ t = Missing(p[u], s.fact)

(* The trees of a program considered.                                      *)
LEMMA RulesOf ==
  ASSUME NEW p \in Programs, NEW t \in Task
  PROVE  Rule(p[t])
BY ProgramsAssumption

(* Being behind is transitive.                                             *)
LEMMA UptoTransitive ==
  ASSUME NEW a \in Snapshot, NEW b \in Snapshot, NEW c \in Snapshot, Upto(a, b), Upto(b, c)
  PROVE  Upto(a, c)
<1>1. /\ a.asked \subseteq Task /\ a.fact \in Facts /\ b.asked \subseteq Task /\ b.fact \in Facts
      /\ c.fact \in Facts
  BY DEF Snapshot
<1>2. Agrees(a.fact, c.fact)
  BY DEF Upto, Agrees
<1>3. ASSUME NEW t \in a.asked PROVE t \in c.asked \/ c.fact[t] # None
  <2>1. t \in Task /\ (t \in b.asked \/ b.fact[t] # None)
    BY <1>1 DEF Upto
  <2> QED
    BY <2>1 DEF Upto, Agrees
<1> QED
  BY <1>2, <1>3 DEF Upto

(* Turns do not leave what every closed state above the start has.         *)
LEMMA TurnsWithin ==
  ASSUME NEW p \in Programs, NEW b, NEW s, NEW n, Within(p, b, s), Turns(p, s, n)
  PROVE  Within(p, b, n)
<1>1. /\ b \in Snapshot /\ s \in Snapshot /\ n \in Snapshot
      /\ b.fact \in Facts /\ s.fact \in Facts /\ n.fact \in Facts
      /\ s.asked \subseteq Task /\ n.asked \subseteq Task
  BY DEF Within, Turns, Snapshot
<1>2. \A t \in Task : n.fact[t] # s.fact[t] => s.fact[t] = None
  BY DEF Turns, Undecided
<1>3. Agrees(s.fact, n.fact)
  BY <1>2 DEF Agrees
<1>4. Upto(s, n)
  BY <1>3 DEF Upto, Turns
<1>5. Upto(b, n)
  BY <1>1, <1>4, UptoTransitive DEF Within
<1>6. Concluded(p, b, n)
  <2> SUFFICES ASSUME NEW t \in Task, b.fact[t] = None, n.fact[t] # None
               PROVE  Saying(p[t], n.fact) # {} /\ n.fact[t] = Conclusion(p[t], n.fact)
    BY DEF Concluded
  <2>1. Saying(p[t], s.fact) # {} /\ n.fact[t] = Conclusion(p[t], s.fact)
    BY DEF Within, Concluded, Turns
  <2> QED
    BY <1>1, <1>3, <2>1, RulesOf, StopStays
<1>7. ASSUME NEW x, Above(p, b, x) PROVE Upto(n, x)
  <2>1. /\ x \in Snapshot /\ x.fact \in Facts /\ Upto(b, x) /\ AllWait(p, x) /\ Concluded(p, b, x)
        /\ Upto(s, x) /\ Agrees(s.fact, x.fact)
    BY <1>7 DEF Above, Within, Upto, Snapshot
  <2>2. ASSUME NEW t \in Undecided(s), t \in Task
        PROVE  t \in Undecided(x) \/ (/\ Saying(p[t], x.fact) # {}
                                      /\ x.fact[t] = Conclusion(p[t], x.fact))
    <3>1. s.fact[t] = None /\ t \in s.asked
      BY DEF Undecided
    <3>2. b.fact[t] = None
      BY <2>2, <3>1 DEF Within, Upto, Agrees
    <3>3. t \in x.asked \/ x.fact[t] # None
      BY <2>1, <3>1 DEF Upto
    <3> QED
      BY <2>1, <2>2, <3>2, <3>3 DEF Undecided, Concluded
  <2>3. Agrees(n.fact, x.fact)
    <3> SUFFICES ASSUME NEW t \in Task, n.fact[t] # None PROVE x.fact[t] = n.fact[t]
      BY DEF Agrees
    <3>1. CASE n.fact[t] = s.fact[t]
      BY <2>1, <3>1 DEF Agrees
    <3>2. CASE n.fact[t] # s.fact[t]
      <4>1. /\ t \in Undecided(s) /\ Saying(p[t], s.fact) # {}
            /\ n.fact[t] = Conclusion(p[t], s.fact)
        BY <3>2 DEF Turns
      <4>2. Saying(p[t], x.fact) # {} /\ Conclusion(p[t], x.fact) = Conclusion(p[t], s.fact)
        BY <1>1, <2>1, <4>1, RulesOf, StopStays
      <4>3. t \notin Undecided(x)
        BY <2>1, <4>2, RulesOf, Determined DEF AllWait
      <4> QED
        BY <2>2, <4>1, <4>2, <4>3
    <3> QED
      BY <3>1, <3>2
  <2>4. ASSUME NEW t \in n.asked, x.fact[t] = None PROVE t \in x.asked
    <3>1. CASE t \in s.asked
      BY <2>1, <2>4, <3>1 DEF Upto
    <3>2. CASE t \notin s.asked
      <4>1. PICK u \in Undecided(s) : Asking(p[u], s.fact) # {} /\ t = Missing(p[u], s.fact)
        BY <3>2 DEF Turns
      <4>2. u \in Task
        BY <1>1 DEF Undecided
      <4>3. Asking(p[u], x.fact) # {} /\ Missing(p[u], x.fact) = t
        BY <1>1, <2>1, <2>4, <4>1, <4>2, RulesOf, StopStays
      <4>4. Saying(p[u], x.fact) = {}
        BY <4>2, <4>3, RulesOf, Determined
      <4>5. u \in Undecided(x)
        BY <2>2, <4>2, <4>4
      <4> QED
        BY <2>1, <4>3, <4>5 DEF AllWait
    <3> QED
      BY <3>1, <3>2
  <2> QED
    BY <2>3, <2>4 DEF Upto
<1> QED
  BY <1>1, <1>5, <1>6, <1>7 DEF Within

(* A state with the same facts and the same undecided tasks asked for.     *)
Alike(s, n) == s.fact = n.fact /\ Undecided(s) = Undecided(n)

(* Snapshots alike are equally far.                                        *)
LEMMA AlikeUpto ==
  ASSUME NEW s \in Snapshot, NEW n \in Snapshot, Alike(s, n)
  PROVE  Upto(s, n)
<1>1. ASSUME NEW t \in s.asked PROVE t \in n.asked \/ n.fact[t] # None
  BY DEF Alike, Undecided
<1> QED
  BY <1>1 DEF Upto, Agrees, Alike

(* A drain may start from any snapshot alike.                              *)
LEMMA AlikeWithin ==
  ASSUME NEW p, NEW s \in Snapshot, NEW n \in Snapshot, Alike(s, n)
  PROVE  Within(p, s, n)
<1>1. Upto(s, n) /\ Upto(n, s)
  BY AlikeUpto DEF Alike
<1>2. Concluded(p, s, n)
  BY DEF Concluded, Alike
<1>3. ASSUME NEW x, Above(p, s, x) PROVE Upto(n, x)
  <2>1. x \in Snapshot /\ Upto(s, x)
    BY <1>3 DEF Above
  <2> QED
    BY <1>1, <2>1, UptoTransitive
<1> QED
  BY <1>1, <1>2, <1>3 DEF Within

(* Two states of one drain in which all wait are the same.                 *)
LEMMA OneEnd ==
  ASSUME NEW p, NEW b, NEW s, NEW n,
         Within(p, b, s), Within(p, b, n), AllWait(p, s), AllWait(p, n)
  PROVE  Alike(s, n)
<1>1. Above(p, b, s) /\ Above(p, b, n)
  BY DEF Within, Above
<1>2. Upto(s, n) /\ Upto(n, s)
  BY <1>1 DEF Within
<1>3. /\ s.fact \in Facts /\ n.fact \in Facts /\ s.asked \subseteq Task /\ n.asked \subseteq Task
  BY <1>1 DEF Above, Snapshot
<1>4. \A t \in Task : s.fact[t] = n.fact[t]
  BY <1>2 DEF Upto, Agrees
<1>5. s.fact = n.fact
  BY <1>3, <1>4 DEF Facts
<1>6. Undecided(s) = Undecided(n)
  BY <1>2, <1>5 DEF Upto, Undecided
<1> QED
  BY <1>5, <1>6 DEF Alike

-----------------------------------------------------------------------------
(* The rounds of the reference.                                            *)

(* What one round does: turns of several tasks, or a cut.                  *)
LEMMA RoundShape ==
  ASSUME NEW p \in Programs, NEW s \in Snapshot
  PROVE  /\ Round(p, s) \in Snapshot
         /\ s.asked \subseteq Round(p, s).asked
         /\ Agrees(s.fact, Round(p, s).fact)
         /\ ~Settled(p, s) => Turns(p, s, Round(p, s)) /\ Round(p, s) # s
         /\ Settled(p, s) => Round(p, s).asked = s.asked
<1> DEFINE n == Round(p, s)
<1>1. s.asked \subseteq Task /\ s.fact \in Facts /\ Undecided(s) \subseteq Task
  BY DEF Snapshot, Undecided
<1>2. \A t \in Undecided(s) : s.fact[t] = None
  BY DEF Undecided
<1>3. ASSUME NEW t \in Ripe(p, s)
      PROVE  /\ t \in Undecided(s) /\ Saying(p[t], s.fact) # {}
             /\ Conclusion(p[t], s.fact) \in Answer
  <2>1. t \in Undecided(s) /\ Saying(p[t], s.fact) # {}
    BY DEF Ripe
  <2>2. PICK h \in Saying(p[t], s.fact) : Conclusion(p[t], s.fact) = p[t].says[h]
    BY <2>1 DEF Conclusion
  <2>3. Rule(p[t])
    BY <1>1, <2>1, RulesOf
  <2> QED
    BY <2>1, <2>2, <2>3 DEF Saying, Rule
<1>4. ASSUME NEW d \in Wanted(p, s)
      PROVE  /\ d \in Task
             /\ \E u \in Undecided(s) : Asking(p[u], s.fact) # {} /\ d = Missing(p[u], s.fact)
  <2>1. PICK u \in Undecided(s) : Asking(p[u], s.fact) # {} /\ d = Missing(p[u], s.fact)
    BY DEF Wanted
  <2>2. PICK h \in Asking(p[u], s.fact) : d = p[u].asks[h]
    BY <2>1 DEF Missing
  <2>3. Rule(p[u])
    BY <1>1, RulesOf
  <2> QED
    BY <2>1, <2>2, <2>3 DEF Asking, Rule
<1>5. CASE ~Settled(p, s)
  <2>1. n = [asked |-> s.asked \cup Wanted(p, s),
             fact |-> [t \in Task |->
                        IF t \in Ripe(p, s) THEN Conclusion(p[t], s.fact) ELSE s.fact[t]]]
    BY <1>5 DEF Round
  <2> HIDE DEF n
  <2>2. /\ n.asked = s.asked \cup Wanted(p, s)
        /\ n.fact = [t \in Task |->
                      IF t \in Ripe(p, s) THEN Conclusion(p[t], s.fact) ELSE s.fact[t]]
    BY <2>1
  <2>3. n.asked \subseteq Task
    BY <1>1, <1>4, <2>2
  <2>4. n.fact \in Facts
    BY <1>1, <1>3, <2>2 DEF Facts
  <2>5. n \in Snapshot
    BY <2>1, <2>2, <2>3, <2>4 DEF Snapshot
  <2>6. Agrees(s.fact, n.fact)
    BY <1>2, <1>3, <2>2 DEF Agrees
  <2>7. Turns(p, s, n)
    <3>1. \A t \in Task : n.fact[t] # s.fact[t] =>
            /\ t \in Undecided(s) /\ Saying(p[t], s.fact) # {}
            /\ n.fact[t] = Conclusion(p[t], s.fact)
      BY <1>3, <2>2
    <3>2. \A t \in n.asked \ s.asked : t \in Wanted(p, s)
      BY <2>2
    <3> QED
      BY <1>4, <2>2, <2>5, <3>1, <3>2 DEF Turns
  <2>8. n # s
    <3>1. CASE Ripe(p, s) # {}
      <4>1. PICK t \in Ripe(p, s) : TRUE
        BY <3>1
      <4>2. n.fact[t] \in Answer /\ s.fact[t] = None
        BY <1>1, <1>2, <1>3, <2>2, <4>1
      <4> QED
        BY <4>2, NoneIsNoAnswer
    <3>2. CASE ~(Wanted(p, s) \subseteq s.asked)
      BY <2>2, <3>2
    <3> QED
      BY <1>5, <3>1, <3>2 DEF Settled
  <2> QED
    BY <1>5, <2>2, <2>5, <2>6, <2>7, <2>8 DEF n
<1>6. CASE Settled(p, s)
  <2>1. PICK V \in SUBSET Undecided(s) :
          n = [asked |-> s.asked, fact |-> [t \in Task |-> IF t \in V THEN "no" ELSE s.fact[t]]]
    <3> DEFINE W == {t \in Undecided(s) : /\ t \in Chain(p, s.fact, t)
                                          /\ t = Least(Chain(p, s.fact, t))}
    <3>1. n = [asked |-> s.asked, fact |-> [t \in Task |-> IF t \in W THEN "no" ELSE s.fact[t]]]
      BY <1>6 DEF Round
    <3> QED
      BY <3>1
  <2> HIDE DEF n
  <2>2. n.asked = s.asked /\ n.fact = [t \in Task |-> IF t \in V THEN "no" ELSE s.fact[t]]
    BY <2>1
  <2>3. n.fact \in Facts
    BY <1>1, <2>2 DEF Facts, Answer
  <2>4. n \in Snapshot
    BY <1>1, <2>1, <2>2, <2>3 DEF Snapshot
  <2>5. Agrees(s.fact, n.fact)
    BY <1>2, <2>2 DEF Agrees
  <2> QED
    BY <1>6, <2>2, <2>4, <2>5 DEF n
<1> QED
  BY <1>5, <1>6

(* The rounds, one after another.                                          *)
LEMMA AfterSteps ==
  ASSUME NEW p \in Programs, NEW start \in Snapshot
  PROVE  /\ After(p, start)[0] = start
         /\ \A n \in Nat : After(p, start)[n] \in Snapshot
         /\ \A n \in Nat : After(p, start)[n + 1] = Round(p, After(p, start)[n])
<1> DEFINE G(g) == [n \in Nat |-> IF n = 0 THEN start ELSE Round(p, g[n - 1])]
<1>1. PICK F \in [Snapshot -> Snapshot] : \A s \in Snapshot : F[s] = Round(p, s)
  <2>1. [s \in Snapshot |-> Round(p, s)] \in [Snapshot -> Snapshot]
    BY RoundShape
  <2> QED
    BY <2>1
<1>2. PICK f \in [Nat -> Snapshot] : f[0] = start /\ \A n \in Nat : f[n + 1] = F[f[n]]
  <2>1. F \in [Snapshot -> Snapshot]
    BY <1>1
  <2>2. start \in Snapshot
    OBVIOUS
  <2> HIDE DEF G
  <2> QED
    BY <2>1, <2>2, Iterated
<1>3. \A n \in Nat : f[n] \in Snapshot /\ f[n + 1] = Round(p, f[n])
  BY <1>1, <1>2
<1>4. f = G(f)
  <2>1. ASSUME NEW n \in Nat PROVE f[n] = G(f)[n]
    <3>1. CASE n = 0
      BY <1>2, <3>1
    <3>2. CASE n # 0
      <4>1. n - 1 \in Nat /\ (n - 1) + 1 = n
        BY <3>2
      <4>2. f[n] = Round(p, f[n - 1])
        BY <1>3, <4>1
      <4> QED
        BY <3>2, <4>2
    <3> QED
      BY <3>1, <3>2
  <2> QED
    BY <1>2, <2>1
<1>5. After(p, start) = CHOOSE g : g = G(g)
  BY DEF After
<1>6. After(p, start) = G(After(p, start))
  <2> HIDE DEF G
  <2> QED
    BY <1>4, <1>5
<1> DEFINE a == After(p, start)
<1>7. a[0] = start /\ \A n \in Nat : a[n + 1] = Round(p, a[n])
  <2>1. \A n \in Nat : n + 1 \in Nat /\ n + 1 # 0 /\ (n + 1) - 1 = n
    OBVIOUS
  <2> HIDE DEF a
  <2>2. a = G(a)
    BY <1>6 DEF a
  <2> QED
    BY <2>1, <2>2
<1>8. \A n \in Nat : a[n] \in Snapshot
  <2> DEFINE N == {n \in Nat : a[n] \in Snapshot}
  <2> HIDE DEF a
  <2>1. 0 \in N
    BY <1>7
  <2>2. ASSUME NEW n \in Nat, n \in N PROVE n + 1 \in N
    BY <1>7, <2>2, RoundShape
  <2> HIDE DEF N
  <2>3. \A n \in Nat : n \in N
    BY <2>1, <2>2, EveryNatural
  <2> QED
    BY <2>3 DEF N
<1> QED
  BY <1>7, <1>8

Decided(s) == {t \in Task : s.fact[t] # None}
Size(s) == Cardinality(s.asked) + Cardinality(Decided(s))

(* A snapshot is at most twice the tasks in size.                          *)
LEMMA SizeBound ==
  ASSUME NEW s \in Snapshot
  PROVE  /\ IsFiniteSet(s.asked) /\ IsFiniteSet(Decided(s))
         /\ Cardinality(s.asked) \in Nat /\ Cardinality(Decided(s)) \in Nat
         /\ Size(s) \in Nat /\ Size(s) <= 2 * Cardinality(Task)
<1>1. s.asked \subseteq Task /\ Decided(s) \subseteq Task
  BY DEF Snapshot, Decided
<1>2. /\ IsFiniteSet(s.asked) /\ IsFiniteSet(Decided(s))
      /\ Cardinality(s.asked) <= Cardinality(Task) /\ Cardinality(Decided(s)) <= Cardinality(Task)
  BY <1>1, TaskAssumption, FS_Subset
<1>3. /\ Cardinality(s.asked) \in Nat /\ Cardinality(Decided(s)) \in Nat
      /\ Cardinality(Task) \in Nat
  BY <1>2, TaskAssumption, FS_CardinalityType
<1> QED
  BY <1>2, <1>3 DEF Size

(* A round that changes something asks for more or decides more.           *)
LEMMA SizeGrows ==
  ASSUME NEW p \in Programs, NEW s \in Snapshot, Round(p, s) # s
  PROVE  Size(Round(p, s)) >= Size(s) + 1
<1> DEFINE n == Round(p, s)
<1>1. n \in Snapshot /\ s.asked \subseteq n.asked /\ Agrees(s.fact, n.fact) /\ n # s
  BY RoundShape
<1> HIDE DEF n
<1>2. /\ IsFiniteSet(n.asked) /\ IsFiniteSet(Decided(n))
      /\ Cardinality(s.asked) \in Nat /\ Cardinality(Decided(s)) \in Nat
      /\ Cardinality(n.asked) \in Nat /\ Cardinality(Decided(n)) \in Nat
  BY <1>1, SizeBound
<1>3. Decided(s) \subseteq Decided(n)
  BY <1>1 DEF Decided, Agrees
<1>4. /\ Cardinality(s.asked) <= Cardinality(n.asked)
      /\ Cardinality(Decided(s)) <= Cardinality(Decided(n))
  BY <1>1, <1>2, <1>3, FS_Subset
<1>5. s.asked # n.asked \/ Decided(s) # Decided(n)
  <2> SUFFICES ASSUME s.asked = n.asked, Decided(s) = Decided(n) PROVE FALSE
    OBVIOUS
  <2>1. s.fact \in Facts /\ n.fact \in Facts
    BY <1>1 DEF Snapshot
  <2>2. \A t \in Task : s.fact[t] = n.fact[t]
    BY <1>1 DEF Decided, Agrees
  <2>3. s.fact = n.fact
    BY <2>1, <2>2 DEF Facts
  <2>4. s = n
    BY <1>1, <2>3 DEF Snapshot
  <2> QED
    BY <1>1, <2>4
<1>6. \/ Cardinality(s.asked) < Cardinality(n.asked)
      \/ Cardinality(Decided(s)) < Cardinality(Decided(n))
  <2>1. CASE s.asked # n.asked
    <3>1. Cardinality(s.asked) < Cardinality(n.asked)
      BY <1>1, <1>2, <2>1, FS_Subset
    <3> QED
      BY <3>1
  <2>2. CASE Decided(s) # Decided(n)
    <3>1. Cardinality(Decided(s)) < Cardinality(Decided(n))
      BY <1>2, <1>3, <2>2, FS_Subset
    <3> QED
      BY <3>1
  <2> QED
    BY <1>5, <2>1, <2>2
<1>7. Size(n) >= Size(s) + 1
  BY <1>2, <1>4, <1>6 DEF Size
<1> QED
  BY <1>7 DEF n

(* From where a round changes nothing, no later one does.                  *)
LEMMA RoundsRest ==
  ASSUME NEW p \in Programs, NEW start \in Snapshot, NEW j \in Nat,
         After(p, start)[j + 1] = After(p, start)[j]
  PROVE  \A k \in Nat : j <= k => After(p, start)[k] = After(p, start)[j]
<1> DEFINE a == After(p, start)
           M == {k \in Nat : a[j + k] = a[j]}
<1>1. \A n \in Nat : a[n + 1] = Round(p, a[n])
  BY AfterSteps
<1>2. a[j + 1] = a[j]
  OBVIOUS
<1> HIDE DEF a
<1>3. 0 \in M
  OBVIOUS
<1>4. ASSUME NEW k \in Nat, k \in M PROVE k + 1 \in M
  <2>1. j + k \in Nat /\ j + (k + 1) = (j + k) + 1
    OBVIOUS
  <2>2. a[j + k] = a[j]
    BY <1>4
  <2>3. a[(j + k) + 1] = Round(p, a[j + k]) /\ a[j + 1] = Round(p, a[j])
    BY <1>1, <2>1
  <2>4. a[(j + k) + 1] = a[j]
    BY <1>2, <2>2, <2>3, Zenon
  <2>5. a[j + (k + 1)] = a[j]
    BY <2>1, <2>4
  <2> QED
    BY <2>5
<1> HIDE DEF M
<1>5. \A k \in Nat : k \in M
  BY <1>3, <1>4, EveryNatural
<1>6. ASSUME NEW k \in Nat, j <= k PROVE a[k] = a[j]
  <2>1. k - j \in Nat /\ j + (k - j) = k
    BY <1>6
  <2>2. a[j + (k - j)] = a[j]
    BY <1>5, <2>1 DEF M
  <2> QED
    BY <2>1, <2>2
<1> QED
  BY <1>6 DEF a

(* The rounds come to rest, within twice as many as there are tasks.       *)
LEMMA RoundsStop ==
  ASSUME NEW p \in Programs, NEW start \in Snapshot
  PROVE  \E j \in 0 .. 2 * Cardinality(Task) : After(p, start)[j + 1] = After(p, start)[j]
<1> DEFINE a == After(p, start)
           K == Cardinality(Task)
           Rests(j) == a[j + 1] = a[j]
           N == {n \in Nat : (\E j \in Nat : j < n /\ Rests(j)) \/ Size(a[n]) >= n}
<1>1. K \in Nat
  BY TaskAssumption, FS_CardinalityType
<1>2. \A n \in Nat : a[n] \in Snapshot /\ a[n + 1] = Round(p, a[n])
  BY AfterSteps
<1> HIDE DEF a
<1>3. \A n \in Nat : Size(a[n]) \in Nat /\ Size(a[n]) <= 2 * K
  BY <1>2, SizeBound
<1> HIDE DEF K
<1>4. 0 \in N
  BY <1>3
<1>5. ASSUME NEW n \in Nat, n \in N PROVE n + 1 \in N
  <2>1. CASE \E j \in Nat : j < n /\ Rests(j)
    <3>1. PICK j \in Nat : j < n /\ Rests(j)
      BY <2>1
    <3>2. j < n + 1
      BY <3>1
    <3> HIDE DEF Rests
    <3> QED
      BY <3>1, <3>2
  <2>2. CASE Rests(n)
    <3>1. n < n + 1
      OBVIOUS
    <3> HIDE DEF Rests
    <3> QED
      BY <2>2, <3>1
  <2>3. CASE Size(a[n]) >= n /\ ~Rests(n)
    <3>1. Round(p, a[n]) # a[n]
      BY <1>2, <2>3
    <3>2. Size(Round(p, a[n])) >= Size(a[n]) + 1
      BY <1>2, <3>1, SizeGrows
    <3>3. Size(a[n + 1]) >= Size(a[n]) + 1
      BY <1>2, <3>2
    <3>4. Size(a[n + 1]) >= n + 1
      BY <1>3, <2>3, <3>3
    <3> QED
      BY <3>4
  <2> QED
    BY <1>5, <2>1, <2>2, <2>3
<1> HIDE DEF N
<1>6. \A n \in Nat : n \in N
  BY <1>4, <1>5, EveryNatural
<1>7. PICK j \in Nat : j < 2 * K + 1 /\ Rests(j)
  <2>1. 2 * K + 1 \in Nat /\ ~(Size(a[2 * K + 1]) >= 2 * K + 1)
    BY <1>1, <1>3
  <2> QED
    BY <1>6, <2>1 DEF N
<1>8. j \in 0 .. 2 * K /\ a[j + 1] = a[j]
  BY <1>1, <1>7
<1> QED
  BY <1>8 DEF K, a

(* A state the rounds rest in is the one the reference returns.            *)
LEMMA RoundsAre ==
  ASSUME NEW p \in Programs, NEW start \in Snapshot, NEW k \in Nat,
         After(p, start)[k + 1] = After(p, start)[k]
  PROVE  Rounds(p, start) = After(p, start)[k]
<1> DEFINE a == After(p, start)
           K == Cardinality(Task)
<1>1. K \in Nat
  BY TaskAssumption, FS_CardinalityType
<1>2. PICK j \in 0 .. 2 * K : a[j + 1] = a[j]
  BY RoundsStop
<1>3. \A l \in Nat : (j <= l => a[l] = a[j]) /\ (k <= l => a[l] = a[k])
  BY <1>1, <1>2, RoundsRest
<1> HIDE DEF a, K
<1>4. /\ j + k \in Nat /\ j <= j + k /\ k <= j + k
      /\ 3 * K \in Nat /\ j <= 3 * K
  BY <1>1, <1>2
<1>5. a[3 * K] = a[k]
  BY <1>3, <1>4
<1> QED
  BY <1>5 DEF Rounds, a, K

(* Where a drain comes to wait for cycles only, so do the rounds, in the   *)
(* same state.                                                             *)
LEMMA SettledWaits ==
  ASSUME NEW p \in Programs, NEW b, NEW s, NEW m,
         Within(p, b, s), Settled(p, s), Within(p, b, m), AllWait(p, m)
  PROVE  AllWait(p, s)
<1>1. /\ s \in Snapshot /\ m \in Snapshot /\ b \in Snapshot
      /\ s.fact \in Facts /\ m.fact \in Facts /\ s.asked \subseteq Task
  BY DEF Within, Snapshot
<1>2. Upto(s, m)
  <2>1. Above(p, b, m)
    BY DEF Within, Above
  <2> QED
    BY <2>1 DEF Within
<1> SUFFICES ASSUME NEW t \in Undecided(s)
             PROVE  Asking(p[t], s.fact) # {} /\ Missing(p[t], s.fact) \in s.asked
  BY DEF AllWait
<1>3. t \in s.asked /\ t \in Task /\ s.fact[t] = None
  BY <1>1 DEF Undecided
<1>4. b.fact[t] = None
  BY <1>3 DEF Within, Upto, Agrees
<1>5. Stops(p[t], m.fact) # {}
  <2>1. CASE m.fact[t] = None
    <3>1. t \in Undecided(m)
      BY <1>2, <1>3, <2>1 DEF Upto, Undecided
    <3> QED
      BY <3>1 DEF AllWait, Stops
  <2>2. CASE m.fact[t] # None
    BY <1>3, <1>4, <2>2 DEF Within, Concluded, Stops
  <2> QED
    BY <2>1, <2>2
<1>6. Stops(p[t], s.fact) # {}
  BY <1>1, <1>2, <1>3, <1>5, RulesOf, StopEarlier DEF Upto
<1>7. Saying(p[t], s.fact) = {}
  BY DEF Settled, Ripe
<1>8. Asking(p[t], s.fact) # {}
  BY <1>6, <1>7 DEF Stops
<1>9. Missing(p[t], s.fact) \in Wanted(p, s)
  BY <1>8 DEF Wanted
<1> QED
  BY <1>8, <1>9 DEF Settled

(* The rounds reach the state in which a drain waits for cycles only.      *)
LEMMA RoundsFollow ==
  ASSUME NEW p \in Programs, NEW start \in Snapshot, NEW n \in Nat, NEW m,
         Within(p, After(p, start)[n], m), AllWait(p, m)
  PROVE  \E k \in Nat : Alike(After(p, start)[k], m) /\ Settled(p, After(p, start)[k])
<1> DEFINE a == After(p, start)
<1>1. \A i \in Nat : a[i] \in Snapshot /\ a[i + 1] = Round(p, a[i])
  BY AfterSteps
<1>2. Within(p, a[n], m)
  OBVIOUS
<1>3. PICK j \in Nat : a[j + 1] = a[j]
  <2>1. Cardinality(Task) \in Nat
    BY TaskAssumption, FS_CardinalityType
  <2> QED
    BY <2>1, RoundsStop
<1>4. a[j + n] = a[j]
  <2>1. j + n \in Nat /\ j <= j + n
    OBVIOUS
  <2> QED
    BY <1>3, <2>1, RoundsRest
<1> HIDE DEF a
<1>5. Settled(p, a[j + n])
  BY <1>1, <1>3, <1>4, RoundShape
<1> DEFINE S == {i \in Nat : Settled(p, a[n + i])}
<1>6. j \in S
  <2>1. j + n = n + j
    OBVIOUS
  <2> QED
    BY <1>5, <2>1
<1>7. PICK l \in S : \A i \in S : l <= i
  <2>1. S \in SUBSET Nat /\ S # {}
    BY <1>6
  <2> HIDE DEF S
  <2> QED
    BY <2>1, LeastIn
<1>8. l \in Nat /\ Settled(p, a[n + l])
  BY <1>7
<1> DEFINE N == {i \in Nat : i <= l => Within(p, a[n], a[n + i])}
<1>9. 0 \in N
  <2>1. n + 0 = n
    OBVIOUS
  <2>2. Within(p, a[n], a[n])
    BY <1>1, AlikeWithin DEF Alike
  <2> QED
    BY <2>1, <2>2
<1>10. ASSUME NEW i \in Nat, i \in N PROVE i + 1 \in N
  <2> SUFFICES ASSUME i + 1 <= l PROVE Within(p, a[n], a[n + (i + 1)])
    OBVIOUS
  <2>1. i <= l /\ ~(l <= i) /\ n + i \in Nat /\ n + (i + 1) = (n + i) + 1
    BY <1>8
  <2>2. Within(p, a[n], a[n + i])
    BY <1>10, <2>1
  <2>3. ~Settled(p, a[n + i])
    BY <1>7, <2>1
  <2>4. a[n + i] \in Snapshot /\ a[n + (i + 1)] = Round(p, a[n + i])
    BY <1>1, <2>1
  <2>5. Turns(p, a[n + i], a[n + (i + 1)])
    BY <2>3, <2>4, RoundShape
  <2> QED
    BY <2>2, <2>5, TurnsWithin
<1> HIDE DEF N
<1>11. \A i \in Nat : i \in N
  BY <1>9, <1>10, EveryNatural
<1>12. Within(p, a[n], a[n + l])
  <2>1. l <= l
    BY <1>8
  <2> QED
    BY <1>8, <1>11, <2>1 DEF N
<1>13. AllWait(p, a[n + l])
  BY <1>2, <1>8, <1>12, SettledWaits
<1>14. Alike(a[n + l], m)
  BY <1>2, <1>12, <1>13, OneEnd
<1>15. n + l \in Nat
  BY <1>8
<1> QED
  BY <1>8, <1>14, <1>15 DEF a

-----------------------------------------------------------------------------
(* What the pass has asked for and established, as a snapshot.  Its steps  *)
(* are turns, and where it cuts cycles the rounds of the reference do.     *)

Now == [asked |-> {t \in ready \cup Blocked : fact[t] = None}, fact |-> fact]

(* A task waits for the input that the facts established make it ask for.  *)
WaitsRight ==
  \A t \in Blocked :
    Asking(prog[t], fact) # {} /\ waiting[t] = {Missing(prog[t], fact)}

Start(p, d, w) == IF w = "symbols" THEN Symbols(p) ELSE References(p, d)

(* The drain is on its way from one of the rounds to the next states.      *)
OnCourse ==
  \E n \in Nat : Within(prog, After(prog, Start(prog, dup, draining))[n], Now)

OInv == IInv /\ WaitsRight /\ OnCourse

(* The snapshot of a state of the pass.                                    *)
LEMMA NowShape ==
  ASSUME TypeOK
  PROVE  /\ Now \in Snapshot /\ Now.fact = fact /\ Now.fact \in Facts
         /\ Now.asked = {t \in ready \cup Blocked : fact[t] = None}
         /\ Undecided(Now) = Now.asked
BY DEF Now, Snapshot, Facts, Undecided, TypeOK, Blocked

(* The snapshot of the next state.                                         *)
LEMMA NextNowShape ==
  ASSUME TypeOK'
  PROVE  /\ Now' \in Snapshot /\ Now'.fact = fact' /\ fact' \in Facts
         /\ Now'.asked = {t \in ready' \cup Blocked' : fact'[t] = None}
         /\ Undecided(Now') = Now'.asked
BY DEF Now, Snapshot, Facts, Undecided, TypeOK, Blocked

(* Where the rounds of a drain start.                                      *)
LEMMA StartsType ==
  ASSUME NEW p \in Programs, NEW d \in SUBSET First
  PROVE  /\ Symbols(p) \in Snapshot /\ References(p, d) \in Snapshot
         /\ \A w : Start(p, d, w) \in Snapshot
<1>1. Established(p) \in Facts
  BY EstablishedType DEF Facts
<1>2. Symbols(p) \in Snapshot
  BY <1>1, SeedsAssumption DEF Symbols, Snapshot
<1>3. Rounds(p, Symbols(p)) \in Snapshot
  <2>1. 3 * Cardinality(Task) \in Nat
    BY TaskAssumption, FS_CardinalityType
  <2> QED
    BY <1>2, <2>1, AfterSteps DEF Rounds
<1>4. References(p, d) \in Snapshot
  <2> DEFINE s == Rounds(p, Symbols(p))
  <2>1. s.asked \subseteq Task /\ s.fact \in Facts
    BY <1>3 DEF Snapshot
  <2>2. References(p, d) = [asked |-> s.asked \cup Later, fact |-> Marked(d, s.fact)]
    BY DEF References
  <2> HIDE DEF s
  <2>3. Marked(d, s.fact) \in Facts
    BY <2>1 DEF Marked, Facts, Answer
  <2>4. s.asked \cup Later \subseteq Task
    BY <2>1, SeedsAssumption
  <2> QED
    BY <2>2, <2>3, <2>4 DEF Snapshot
<1> QED
  BY <1>2, <1>4 DEF Start

(* notify takes the finished tasks out of those queued or waiting.         *)
LEMMA NotifyActive ==
  ASSUME TypeOK, NEW D \in SUBSET Task, Notify(D)
  PROVE  ready' \cup Blocked' = (ready \cup Blocked) \ D
<1>1. /\ ready' = (ready \ D) \cup Woken(D)
      /\ waiting' = [c \in Task |-> IF c \in D \cup Woken(D) THEN {} ELSE waiting[c]]
  BY DEF Notify
<1>2. Woken(D) \subseteq Blocked \ D
  BY DEF Woken, Blocked
<1>3. Blocked' = Blocked \ (D \cup Woken(D))
  BY <1>1 DEF Blocked
<1> QED
  BY <1>1, <1>2, <1>3

(* Facts added by others leave a wait right, as long as it is kept.        *)
LEMMA WaitsRightKept ==
  ASSUME IInv, IInv', WaitsRight, prog' = prog, Agrees(fact, fact'),
         \A c \in Task : waiting'[c] = {} \/ waiting'[c] = waiting[c]
  PROVE  WaitsRight'
<1> SUFFICES ASSUME NEW c \in Task, waiting'[c] # {}
             PROVE  /\ Asking(prog[c], fact') # {}
                    /\ waiting'[c] = {Missing(prog[c], fact')}
  BY DEF WaitsRight, Blocked
<1>1. waiting'[c] = waiting[c]
  OBVIOUS
<1>2. Asking(prog[c], fact) # {} /\ waiting[c] = {Missing(prog[c], fact)}
  BY <1>1 DEF WaitsRight, Blocked
<1>3. fact'[Missing(prog[c], fact)] = None
  BY <1>1, <1>2 DEF IInv, NoLostWakeup, Registered, Blocked
<1>4. fact \in Facts /\ fact' \in Facts /\ prog \in Programs
  BY DEF IInv, TypeOK, Facts
<1>5. /\ Asking(prog[c], fact') # {}
      /\ Missing(prog[c], fact') = Missing(prog[c], fact)
  BY <1>2, <1>3, <1>4, RulesOf, StopStays
<1> QED
  BY <1>1, <1>2, <1>5

(* Turns keep the drain on its course.                                     *)
LEMMA OnCourseTurns ==
  ASSUME TypeOK, OnCourse, UNCHANGED <<prog, dup, draining>>, Turns(prog, Now, Now')
  PROVE  OnCourse'
<1>1. PICK n \in Nat : Within(prog, After(prog, Start(prog, dup, draining))[n], Now)
  BY DEF OnCourse
<1>2. Within(prog, After(prog, Start(prog, dup, draining))[n], Now')
  BY <1>1, TurnsWithin DEF TypeOK
<1> QED
  BY <1>2 DEF OnCourse

(* A finished task taken again changes nothing of the snapshot.            *)
LEMMA SkipOnCourse ==
  ASSUME OInv, NEW t \in Task, Skip(t)
  PROVE  OInv'
<1>1. IInv' /\ fact[t] # None
  BY SkipKeeps DEF OInv, IInv, NoLostWakeup, Skip
<1>2. Notify({t}) /\ UNCHANGED <<prog, dup, fact, draining>>
  BY <1>1 DEF Skip
<1>3. WaitsRight'
  <2>1. Agrees(fact, fact')
    BY <1>2 DEF Agrees
  <2>2. \A c \in Task : waiting'[c] = {} \/ waiting'[c] = waiting[c]
    BY <1>2 DEF Notify
  <2> QED
    BY <1>1, <1>2, <2>1, <2>2, WaitsRightKept DEF OInv
<1>4. Now' = Now
  <2>1. ready' \cup Blocked' = (ready \cup Blocked) \ {t}
    BY <1>2, NotifyActive DEF OInv, IInv
  <2>2. {u \in ready' \cup Blocked' : fact'[u] = None} =
          {u \in ready \cup Blocked : fact[u] = None}
    BY <1>1, <1>2, <2>1
  <2> QED
    BY <1>2, <2>2 DEF Now
<1>5. OnCourse'
  BY <1>2, <1>4 DEF OInv, OnCourse
<1> QED
  BY <1>1, <1>3, <1>5 DEF OInv

(* A task that concludes is a turn.                                        *)
LEMMA FinishOnCourse ==
  ASSUME OInv, NEW t \in Task, Finish(t)
  PROVE  OInv'
<1>1. IInv'
  BY FinishKeeps DEF OInv
<1>2. /\ t \in ready /\ fact[t] = None /\ Saying(prog[t], fact) # {}
      /\ fact' = [fact EXCEPT ![t] = Conclusion(prog[t], fact)]
      /\ Notify({t}) /\ UNCHANGED <<prog, dup, draining>>
  BY DEF Finish
<1>3. /\ TypeOK /\ Now \in Snapshot /\ Now.fact = fact /\ fact \in Facts
      /\ Now.asked = {u \in ready \cup Blocked : fact[u] = None} /\ Undecided(Now) = Now.asked
  BY NowShape DEF OInv, IInv
<1>4. /\ TypeOK' /\ Now' \in Snapshot /\ Now'.fact = fact' /\ fact' \in Facts
      /\ Now'.asked = {u \in ready' \cup Blocked' : fact'[u] = None}
  BY <1>1, NextNowShape DEF IInv
<1>5. \A u \in Task : fact'[u] = IF u = t THEN Conclusion(prog[t], fact) ELSE fact[u]
  BY <1>2, <1>3 DEF Facts
<1>6. WaitsRight'
  <2>1. Agrees(fact, fact')
    BY <1>2, <1>5 DEF Agrees
  <2>2. \A c \in Task : waiting'[c] = {} \/ waiting'[c] = waiting[c]
    BY <1>2 DEF Notify
  <2> QED
    BY <1>1, <1>2, <2>1, <2>2, WaitsRightKept DEF OInv
<1>7. ready' \cup Blocked' = (ready \cup Blocked) \ {t}
  BY <1>2, <1>3, NotifyActive
<1>8. ready \cup Blocked \subseteq Task
  BY <1>3 DEF TypeOK, Blocked
<1>9. Turns(prog, Now, Now')
  <2>1. t \in Undecided(Now)
    BY <1>2, <1>3
  <2>2. \A u \in Task : Now'.fact[u] # Now.fact[u] =>
          /\ u \in Undecided(Now) /\ Saying(prog[u], Now.fact) # {}
          /\ Now'.fact[u] = Conclusion(prog[u], Now.fact)
    BY <1>2, <1>3, <1>4, <1>5, <2>1
  <2>3. fact'[t] # None
    BY <1>2, <1>3, <1>5, ConclusionType, NoneIsNoAnswer DEF TypeOK
  <2>4. \A u \in Now.asked : u \in Now'.asked \/ Now'.fact[u] # None
    BY <1>3, <1>4, <1>7, <2>3
  <2>5. Now'.asked \ Now.asked = {}
    BY <1>2, <1>3, <1>4, <1>5, <1>7, <1>8
  <2> QED
    BY <1>4, <2>2, <2>4, <2>5 DEF Turns
<1>10. OnCourse'
  BY <1>2, <1>3, <1>9, OnCourseTurns DEF OInv
<1> QED
  BY <1>1, <1>6, <1>10 DEF OInv

(* A task that asks for an input is a turn.                                *)
LEMMA WaitOnCourse ==
  ASSUME OInv, NEW t \in Task, Wait(t)
  PROVE  OInv'
<1> DEFINE d == Missing(prog[t], fact)
<1>1. d \in Task /\ fact[d] = None
  BY MissingInput DEF OInv, IInv, TypeOK, Wait
<1>2. IInv'
  BY WaitKeeps DEF OInv
<1>3. Asking(prog[t], fact) # {}
  BY DEF Wait
<1>4. /\ t \in ready /\ fact[t] = None /\ waiting[t] = {}
      /\ waiting' = [waiting EXCEPT ![t] = {d}]
      /\ ready' = (ready \ {t}) \cup {u \in {d} : waiting'[u] = {}}
      /\ UNCHANGED <<prog, dup, fact, draining>>
  BY DEF Wait, WaitsOn
<1>5. /\ TypeOK /\ Now \in Snapshot /\ Now.fact = fact /\ fact \in Facts
      /\ Now.asked = {u \in ready \cup Blocked : fact[u] = None} /\ Undecided(Now) = Now.asked
  BY NowShape DEF OInv, IInv
<1>6. /\ Now' \in Snapshot /\ Now'.fact = fact'
      /\ Now'.asked = {u \in ready' \cup Blocked' : fact'[u] = None}
  BY <1>2, NextNowShape DEF IInv
<1> HIDE DEF d
<1>7. \A c \in Task : waiting'[c] = IF c = t THEN {d} ELSE waiting[c]
  BY <1>4, <1>5 DEF TypeOK
<1>8. WaitsRight'
  <2> SUFFICES ASSUME NEW c \in Task, waiting'[c] # {}
               PROVE  /\ Asking(prog'[c], fact') # {}
                      /\ waiting'[c] = {Missing(prog'[c], fact')}
    BY DEF WaitsRight, Blocked
  <2>1. CASE c = t
    BY <1>3, <1>4, <1>7, <2>1 DEF d
  <2>2. CASE c # t
    BY <1>4, <1>7, <2>2 DEF OInv, WaitsRight, Blocked
  <2> QED
    BY <2>1, <2>2
<1>9. ready' \cup Blocked' = ready \cup Blocked \cup {d}
  <2>1. Blocked' = Blocked \cup {t}
    BY <1>7 DEF Blocked
  <2>2. CASE waiting'[d] = {}
    BY <1>4, <2>1, <2>2
  <2>3. CASE waiting'[d] # {}
    <3>1. d \in Blocked'
      BY <1>1, <2>3 DEF Blocked
    <3> QED
      BY <1>4, <2>1, <2>3, <3>1
  <2> QED
    BY <2>2, <2>3
<1>10. Now'.asked = Now.asked \cup {d}
  BY <1>1, <1>4, <1>5, <1>6, <1>9
<1>11. Turns(prog, Now, Now')
  <2>1. t \in Undecided(Now) /\ Asking(prog[t], Now.fact) # {} /\ d = Missing(prog[t], Now.fact)
    BY <1>3, <1>4, <1>5 DEF d
  <2>2. \A u \in Now'.asked \ Now.asked : u = d
    BY <1>10
  <2>3. Now'.fact = Now.fact /\ Now.asked \subseteq Now'.asked
    BY <1>4, <1>5, <1>6, <1>10
  <2> QED
    BY <1>6, <2>1, <2>2, <2>3 DEF Turns
<1>12. OnCourse'
  BY <1>4, <1>5, <1>11, OnCourseTurns DEF OInv
<1> QED
  BY <1>2, <1>8, <1>12 DEF OInv

-----------------------------------------------------------------------------
(* The cuts.                                                               *)

(* Where all wait, an undecided task waits for an undecided task.          *)
LEMMA MissingUndecided ==
  ASSUME NEW p \in Programs, NEW x \in Snapshot, AllWait(p, x), NEW t \in Undecided(x)
  PROVE  Missing(p[t], x.fact) \in Undecided(x)
<1>1. Asking(p[t], x.fact) # {} /\ Missing(p[t], x.fact) \in x.asked
  BY DEF AllWait
<1>2. PICK h \in Asking(p[t], x.fact) : Missing(p[t], x.fact) = p[t].asks[h]
  BY <1>1 DEF Missing
<1> QED
  BY <1>1, <1>2 DEF Asking, Undecided

(* The inputs asked for, one wait further (chain of the rounds).           *)
LEMMA HopsSteps ==
  ASSUME NEW p \in Programs, NEW x \in Snapshot, AllWait(p, x), NEW t \in Undecided(x)
  PROVE  /\ Hops(p, x.fact, t)[0] = Missing(p[t], x.fact)
         /\ \A n \in Nat : Hops(p, x.fact, t)[n + 1] = Missing(p[Hops(p, x.fact, t)[n]], x.fact)
<1> DEFINE S == Undecided(x)
           first == Missing(p[t], x.fact)
           G(g) == [n \in Nat |-> IF n = 0 THEN first ELSE Missing(p[g[n - 1]], x.fact)]
           hops == Hops(p, x.fact, t)
<1>1. first \in S
  BY MissingUndecided
<1>2. PICK F \in [S -> S] : \A u \in S : F[u] = Missing(p[u], x.fact)
  <2>1. [u \in S |-> Missing(p[u], x.fact)] \in [S -> S]
    BY MissingUndecided
  <2> QED
    BY <2>1
<1>3. PICK f \in [Nat -> S] : f[0] = first /\ \A n \in Nat : f[n + 1] = F[f[n]]
  <2>1. F \in [S -> S]
    BY <1>2
  <2> HIDE DEF S, first
  <2> QED
    BY <1>1, <2>1, Iterated
<1>4. \A n \in Nat : f[n + 1] = Missing(p[f[n]], x.fact)
  BY <1>2, <1>3
<1>5. f = G(f)
  <2>1. ASSUME NEW n \in Nat PROVE f[n] = G(f)[n]
    <3>1. CASE n = 0
      BY <1>3, <3>1
    <3>2. CASE n # 0
      <4>1. n - 1 \in Nat /\ (n - 1) + 1 = n
        BY <3>2
      <4>2. f[n] = Missing(p[f[n - 1]], x.fact)
        BY <1>4, <4>1
      <4> QED
        BY <3>2, <4>2
    <3> QED
      BY <3>1, <3>2
  <2> QED
    BY <1>3, <2>1
<1>6. hops = CHOOSE g : g = G(g)
  BY DEF Hops
<1> HIDE DEF first, hops
<1>7. hops = G(hops)
  <2> HIDE DEF G
  <2> QED
    BY <1>5, <1>6
<1>8. \A n \in Nat : n + 1 \in Nat /\ n + 1 # 0 /\ (n + 1) - 1 = n
  OBVIOUS
<1>9. hops[0] = first /\ \A n \in Nat : hops[n + 1] = Missing(p[hops[n]], x.fact)
  BY <1>7, <1>8
<1> QED
  BY <1>9 DEF first, hops

(* Where no task is queued, all that are undecided wait.                   *)
LEMMA QuietWaits ==
  ASSUME IInv, WaitsRight, ready = {}
  PROVE  AllWait(prog, Now) /\ Undecided(Now) = Blocked
<1>1. /\ Now.fact = fact /\ Now.asked = {t \in Blocked : fact[t] = None}
      /\ Undecided(Now) = Now.asked
  BY NowShape DEF IInv
<1>2. Now.asked = Blocked
  BY <1>1 DEF IInv, NoLostWakeup, Registered
<1>3. ASSUME NEW t \in Blocked
      PROVE  Asking(prog[t], fact) # {} /\ Missing(prog[t], fact) \in Blocked
  <2>1. Asking(prog[t], fact) # {} /\ waiting[t] = {Missing(prog[t], fact)}
    BY DEF WaitsRight
  <2>2. PICK d \in Task : waiting[t] = {d} /\ d \in ready \cup Blocked
    BY DEF IInv, NoLostWakeup, Registered
  <2> QED
    BY <2>1, <2>2
<1> QED
  BY <1>1, <1>2, <1>3 DEF AllWait

(* drain's walk and the rounds see the same tasks behind a waiting task.   *)
LEMMA BehindIsChain ==
  ASSUME IInv, WaitsRight, ready = {}, NEW t \in Blocked
  PROVE  Behind(t) = Chain(prog, fact, t) /\ Behind(t) \subseteq Task
<1> DEFINE hop == Hops(prog, fact, t)
           N == {n \in Nat : hop[n] \in Blocked /\ Ahead[n][t] = {hop[n]}}
<1>1. Now \in Snapshot /\ Now.fact = fact /\ prog \in Programs /\ TypeOK
  BY NowShape DEF IInv, TypeOK
<1>2. AllWait(prog, Now) /\ Undecided(Now) = Blocked
  BY QuietWaits
<1>3. hop[0] = Missing(prog[t], fact) /\ \A n \in Nat : hop[n + 1] = Missing(prog[hop[n]], fact)
  BY <1>1, <1>2, HopsSteps
<1>4. \A u \in Blocked : /\ waiting[u] = {Missing(prog[u], fact)}
                         /\ Missing(prog[u], fact) \in Blocked
  BY <1>1, <1>2, MissingUndecided DEF WaitsRight
<1>5. t \in Task /\ Blocked \subseteq Task
  BY DEF Blocked
<1> HIDE DEF hop
<1>6. 0 \in N
  <2>1. Ahead[0][t] = waiting[t]
    BY <1>1, AheadSteps
  <2> QED
    BY <1>3, <1>4, <2>1
<1>7. ASSUME NEW n \in Nat, n \in N PROVE n + 1 \in N
  <2>1. hop[n] \in Blocked /\ Ahead[n][t] = {hop[n]}
    BY <1>7
  <2>2. Ahead[n + 1][t] = UNION {waiting[u] : u \in Ahead[n][t]}
    <3>1. \A u \in Task : Ahead[n + 1][u] = UNION {waiting[v] : v \in Ahead[n][u]}
      BY <1>1, AheadSteps
    <3> QED
      BY <1>5, <3>1, Zenon
  <2>3. Ahead[n + 1][t] = waiting[hop[n]]
    BY <2>1, <2>2
  <2>4. hop[n + 1] = Missing(prog[hop[n]], fact)
    BY <1>3
  <2> QED
    BY <1>4, <2>1, <2>3, <2>4
<1> HIDE DEF N
<1>8. \A n \in Nat : n \in N
  BY <1>6, <1>7, EveryNatural
<1> DEFINE K == Cardinality(Task)
<1>9. K \in Nat
  BY TaskAssumption, FS_CardinalityType
<1>10. \A n \in 0 .. K : Ahead[n][t] = {hop[n]} /\ hop[n] \in Blocked
  BY <1>8, <1>9 DEF N
<1>11. UNION {Ahead[n][t] : n \in 0 .. K} = {hop[n] : n \in 0 .. K}
  <2> HIDE DEF K
  <2> QED
    BY <1>10
<1>12. {hop[n] : n \in 0 .. K} \subseteq Task
  <2> HIDE DEF K
  <2> QED
    BY <1>5, <1>10
<1> QED
  BY <1>11, <1>12 DEF Behind, Chain, hop

(* The least of a set of tasks.                                            *)
LEMMA LeastIs ==
  ASSUME NEW C \in SUBSET Nat, NEW t \in C
  PROVE  t = Least(C) <=> \A u \in C : t <= u
<1>1. \E x \in C : \A y \in C : x <= y
  BY LeastIn
<1>2. Least(C) \in C /\ \A y \in C : Least(C) <= y
  BY <1>1 DEF Least
<1>3. (\A u \in C : t <= u) => t = Least(C)
  <2>1. Least(C) \in Nat /\ t \in Nat
    BY <1>2
  <2> QED
    BY <1>2, <2>1
<1> QED
  BY <1>2, <1>3

(* A task is cut where the rounds cut it.                                  *)
LEMMA VictimsAre ==
  ASSUME IInv, WaitsRight, ready = {}
  PROVE  Victims = {t \in Blocked : /\ t \in Chain(prog, fact, t)
                                    /\ t = Least(Chain(prog, fact, t))}
<1>1. ASSUME NEW t \in Blocked
      PROVE  t \in Victims <=> t \in Chain(prog, fact, t) /\ t = Least(Chain(prog, fact, t))
  <2>1. Behind(t) = Chain(prog, fact, t) /\ Behind(t) \in SUBSET Nat
    BY BehindIsChain, TaskAssumption
  <2>2. t \in Behind(t) => (t = Least(Behind(t)) <=> \A u \in Behind(t) : t <= u)
    BY <2>1, LeastIs
  <2> QED
    BY <2>1, <2>2 DEF Victims, OnCycle
<1>2. Victims \subseteq Blocked
  BY DEF Victims
<1> QED
  BY <1>1, <1>2

(* A round that cuts.                                                      *)
LEMMA RoundCuts ==
  ASSUME NEW p, NEW s, Settled(p, s), NEW V,
         V = {t \in Undecided(s) : /\ t \in Chain(p, s.fact, t)
                                   /\ t = Least(Chain(p, s.fact, t))}
  PROVE  /\ Round(p, s).asked = s.asked
         /\ Round(p, s).fact = [t \in Task |-> IF t \in V THEN "no" ELSE s.fact[t]]
<1> DEFINE W == {t \in Undecided(s) : /\ t \in Chain(p, s.fact, t)
                                      /\ t = Least(Chain(p, s.fact, t))}
<1>1. Round(p, s) = [asked |-> s.asked,
                     fact |-> [t \in Task |-> IF t \in W THEN "no" ELSE s.fact[t]]]
  BY DEF Round
<1>2. V = W
  OBVIOUS
<1> HIDE DEF W
<1> QED
  BY <1>1, <1>2

(* Where drain cuts cycles the rounds are in the same state, and cut them. *)
LEMMA CutOnCourse ==
  ASSUME OInv, CutCycles
  PROVE  OInv'
<1>1. IInv /\ WaitsRight /\ IInv'
  BY CutKeeps DEF OInv
<1>2. /\ ready = {}
      /\ fact' = [t \in Task |-> IF t \in Victims THEN "no" ELSE fact[t]]
      /\ Notify(Victims) /\ UNCHANGED <<prog, dup, draining>>
  BY DEF CutCycles, Quiescent
<1>3. Victims \in SUBSET Task /\ Victims \subseteq Blocked /\ TypeOK /\ prog \in Programs
  BY <1>1 DEF Victims, Blocked, IInv, TypeOK
<1>4. /\ Now \in Snapshot /\ Now.fact = fact /\ fact \in Facts
      /\ AllWait(prog, Now) /\ Undecided(Now) = Blocked
  BY <1>1, <1>2, <1>3, NowShape, QuietWaits
<1>5. Now' \in Snapshot /\ Now'.fact = fact'
      /\ Undecided(Now') = {t \in ready' \cup Blocked' : fact'[t] = None}
  BY <1>1, NextNowShape DEF IInv
<1>6. \A t \in Task : fact'[t] = IF t \in Victims THEN "no" ELSE fact[t]
  BY <1>2
<1>7. \A t \in Blocked : fact[t] = None
  BY <1>1 DEF IInv, NoLostWakeup, Registered
<1>8. WaitsRight'
  <2>1. Agrees(fact, fact')
    BY <1>3, <1>6, <1>7 DEF Agrees
  <2>2. \A c \in Task : waiting'[c] = {} \/ waiting'[c] = waiting[c]
    BY <1>2 DEF Notify
  <2> QED
    BY <1>1, <1>2, <2>1, <2>2, WaitsRightKept
<1> DEFINE start == Start(prog, dup, draining)
<1>9. start \in Snapshot
  BY <1>3, StartsType DEF TypeOK
<1>10. PICK n \in Nat : Within(prog, After(prog, start)[n], Now)
  BY DEF OInv, OnCourse
<1> HIDE DEF start
<1>11. PICK k \in Nat : /\ Alike(After(prog, start)[k], Now)
                        /\ Settled(prog, After(prog, start)[k])
  BY <1>3, <1>4, <1>9, <1>10, RoundsFollow
<1> DEFINE s == After(prog, start)[k]
           r == After(prog, start)[k + 1]
<1>12. s \in Snapshot /\ r \in Snapshot /\ r = Round(prog, s)
  <2>1. k + 1 \in Nat
    OBVIOUS
  <2> QED
    BY <1>3, <1>9, <2>1, AfterSteps
<1>13. Settled(prog, s) /\ s.fact = fact /\ Undecided(s) = Blocked
  BY <1>4, <1>11 DEF Alike
<1> HIDE DEF s, r
<1>14. Victims = {t \in Undecided(s) : /\ t \in Chain(prog, s.fact, t)
                                       /\ t = Least(Chain(prog, s.fact, t))}
  BY <1>1, <1>2, <1>13, VictimsAre
<1>15. r.asked = s.asked /\ r.fact = [t \in Task |-> IF t \in Victims THEN "no" ELSE s.fact[t]]
  BY <1>12, <1>13, <1>14, RoundCuts
<1>16. r.fact = fact'
  BY <1>2, <1>13, <1>15
<1>17. Undecided(r) = Blocked \ Victims
  <2>1. s.asked \subseteq Task
    BY <1>12 DEF Snapshot
  <2>2. \A t \in s.asked : fact'[t] = None <=> t \notin Victims /\ fact[t] = None
    BY <1>6, <2>1 DEF None
  <2> QED
    BY <1>13, <1>15, <1>16, <2>2 DEF Undecided
<1>18. Undecided(Now') = Blocked \ Victims
  <2>1. ready' \cup Blocked' = Blocked \ Victims
    BY <1>2, <1>3, NotifyActive
  <2>2. \A t \in Blocked \ Victims : t \in Task /\ fact'[t] = None
    BY <1>6, <1>7 DEF Blocked
  <2> QED
    BY <1>5, <2>1, <2>2
<1>19. Alike(r, Now')
  BY <1>5, <1>16, <1>17, <1>18 DEF Alike
<1>20. Within(prog, r, Now')
  BY <1>5, <1>12, <1>19, AlikeWithin
<1>21. OnCourse'
  <2>1. Within(prog, After(prog, Start(prog, dup, draining))[k + 1], Now') /\ k + 1 \in Nat
    BY <1>20 DEF r, start
  <2> QED
    BY <1>2, <2>1 DEF OnCourse
<1> QED
  BY <1>1, <1>8, <1>21 DEF OInv

(* A round of a state in which nothing is undecided changes nothing.       *)
LEMMA RoundDone ==
  ASSUME NEW p, NEW s \in Snapshot, Settled(p, s), Undecided(s) = {}
  PROVE  Round(p, s) = s
<1>1. /\ Round(p, s).asked = s.asked
      /\ Round(p, s).fact = [t \in Task |-> IF t \in {} THEN "no" ELSE s.fact[t]]
  BY RoundCuts
<1>2. s.fact \in Facts
  BY DEF Snapshot
<1>3. Round(p, s).fact = s.fact
  BY <1>1, <1>2 DEF Facts
<1>4. Round(p, s) = [asked |-> Round(p, s).asked, fact |-> Round(p, s).fact]
  BY DEF Round
<1>5. s = [asked |-> s.asked, fact |-> s.fact]
  BY DEF Snapshot
<1> QED
  BY <1>1, <1>3, <1>4, <1>5

(* A drain that ends has established what the rounds give.                 *)
LEMMA DrainEnds ==
  ASSUME OInv, ready = {}, Blocked = {}
  PROVE  LET rounds == Rounds(prog, Start(prog, dup, draining))
         IN  rounds \in Snapshot /\ rounds.fact = fact /\ Undecided(rounds) = {}
<1> DEFINE start == Start(prog, dup, draining)
           rounds == Rounds(prog, start)
<1>1. IInv /\ WaitsRight /\ TypeOK /\ prog \in Programs
  BY DEF OInv, IInv, TypeOK
<1>2. start \in Snapshot
  BY <1>1, StartsType DEF TypeOK
<1>3. Now.fact = fact /\ AllWait(prog, Now) /\ Undecided(Now) = {}
  BY <1>1, NowShape, QuietWaits
<1>4. PICK n \in Nat : Within(prog, After(prog, start)[n], Now)
  BY DEF OInv, OnCourse
<1> HIDE DEF start
<1>5. PICK k \in Nat : /\ Alike(After(prog, start)[k], Now)
                       /\ Settled(prog, After(prog, start)[k])
  BY <1>1, <1>2, <1>3, <1>4, RoundsFollow
<1> DEFINE s == After(prog, start)[k]
<1>6. s \in Snapshot /\ After(prog, start)[k + 1] = Round(prog, s)
  BY <1>1, <1>2, AfterSteps
<1>7. Settled(prog, s) /\ s.fact = fact /\ Undecided(s) = {}
  BY <1>3, <1>5 DEF Alike
<1>8. Round(prog, s) = s
  BY <1>6, <1>7, RoundDone
<1>9. rounds = s
  BY <1>1, <1>2, <1>6, <1>8, RoundsAre
<1> HIDE DEF s, rounds
<1>10. rounds \in Snapshot /\ rounds.fact = fact /\ Undecided(rounds) = {}
  BY <1>6, <1>7, <1>9
<1> QED
  BY <1>10 DEF rounds, start

(* The second drain starts from what the rounds of the first gave.         *)
LEMMA ReferencesOnCourse ==
  ASSUME OInv, ResolveReferences
  PROVE  OInv'
<1>1. IInv' /\ TypeOK /\ prog \in Programs /\ dup \in SUBSET First
  BY ReferencesKeep DEF OInv, IInv, TypeOK
<1>2. /\ ready = {} /\ Blocked = {} /\ draining = "symbols"
      /\ fact' = Marked(dup, fact)
      /\ ready' = Later /\ draining' = "references"
      /\ UNCHANGED <<prog, dup, waiting, consumers>>
  BY DEF ResolveReferences
<1>3. Blocked' = {}
  BY <1>2 DEF Blocked
<1>4. WaitsRight'
  BY <1>3 DEF WaitsRight
<1> DEFINE s == Rounds(prog, Symbols(prog))
           n == References(prog, dup)
<1>5. s \in Snapshot /\ s.fact = fact /\ Undecided(s) = {}
  BY <1>2, DrainEnds DEF Start
<1>6. n \in Snapshot /\ n = [asked |-> s.asked \cup Later, fact |-> Marked(dup, s.fact)]
  BY <1>1, StartsType DEF References
<1> HIDE DEF s, n
<1>7. n.asked = s.asked \cup Later /\ n.fact = fact'
  BY <1>2, <1>5, <1>6
<1>8. Now' \in Snapshot /\ Now'.fact = fact' /\ Undecided(Now') = {t \in Later : fact'[t] = None}
  BY <1>1, <1>2, <1>3, NextNowShape DEF IInv
<1>9. \A t \in s.asked : fact'[t] # None
  <2>1. \A t \in s.asked : t \in Task /\ fact[t] # None
    BY <1>5 DEF Snapshot, Undecided
  <2> QED
    BY <1>2, <2>1 DEF Marked, None
<1>10. Undecided(n) = Undecided(Now')
  BY <1>7, <1>8, <1>9 DEF Undecided
<1>11. Within(prog, n, Now')
  BY <1>6, <1>7, <1>8, <1>10, AlikeWithin DEF Alike
<1>12. OnCourse'
  <2>1. After(prog, n)[0] = n
    BY <1>1, <1>6, AfterSteps
  <2>2. Start(prog', dup', draining') = n
    BY <1>2 DEF Start, n
  <2>3. Within(prog', After(prog', Start(prog', dup', draining'))[0], Now')
    BY <1>2, <1>11, <2>1, <2>2
  <2> QED
    BY <2>3 DEF OnCourse
<1> QED
  BY <1>1, <1>4, <1>12 DEF OInv

(* The first drain starts where its rounds do.                             *)
LEMMA InitOnCourse == Init => OInv
<1> SUFFICES ASSUME Init PROVE OInv
  OBVIOUS
<1>1. IInv /\ TypeOK /\ prog \in Programs
  BY InitIInv DEF IInv, TypeOK
<1>2. Blocked = {}
  BY DEF Init, Blocked
<1>3. WaitsRight
  BY <1>2 DEF WaitsRight
<1> DEFINE s == Symbols(prog)
<1>4. s \in Snapshot /\ s.fact = fact /\ s.asked = First
  BY <1>1, StartsType DEF Init, Symbols, TypeOK
<1>5. Now \in Snapshot /\ Now.fact = fact /\ Undecided(Now) = {t \in First : fact[t] = None}
  BY <1>1, <1>2, NowShape DEF Init
<1> HIDE DEF s
<1>6. Within(prog, s, Now)
  BY <1>4, <1>5, AlikeWithin DEF Alike, Undecided
<1>7. After(prog, s)[0] = s /\ Start(prog, dup, draining) = s
  BY <1>1, <1>4, AfterSteps DEF Start, s, Init
<1>8. OnCourse
  BY <1>6, <1>7 DEF OnCourse
<1> QED
  BY <1>1, <1>3, <1>8 DEF OInv

(* Every step of the pass stays on course.                                 *)
LEMMA NextOnCourse == OInv /\ [Next]_vars => OInv'
<1> SUFFICES ASSUME OInv, [Next]_vars PROVE OInv'
  OBVIOUS
<1>1. ASSUME NEW t \in Task, Turn(t) PROVE OInv'
  BY <1>1, SkipOnCourse, FinishOnCourse, WaitOnCourse DEF Turn
<1>2. CASE CutCycles
  BY <1>2, CutOnCourse
<1>3. CASE ResolveReferences
  BY <1>3, ReferencesOnCourse
<1>4. CASE UNCHANGED vars
  <2>1. IInv'
    BY NextIInv DEF OInv
  <2>2. WaitsRight'
    BY <1>4 DEF OInv, WaitsRight, Blocked, vars
  <2>3. Now' = Now
    BY <1>4 DEF Now, Blocked, vars
  <2>4. OnCourse'
    BY <1>4, <2>3 DEF OInv, OnCourse, vars
  <2> QED
    BY <2>1, <2>2, <2>4 DEF OInv
<1> QED
  BY <1>1, <1>2, <1>3, <1>4 DEF Next, Work

(* What the pass establishes does not depend on the order in which drain   *)
(* takes tasks from its queue: for every set of tasks and every program,   *)
(* when the pass ends its facts are those of rounds that take every task   *)
(* at once (the scheduling tests, which compare two orders on a few        *)
(* programs).                                                              *)
THEOREM OrderDoesNotMatter == Spec => []OrderIndependent
<1>1. OInv => OrderIndependent
  <2> SUFFICES ASSUME OInv, Resolved PROVE fact = Expected
    BY DEF OrderIndependent
  <2>1. ready = {} /\ Blocked = {} /\ draining = "references"
    BY DEF Resolved
  <2>2. Start(prog, dup, draining) = References(prog, dup)
    BY <2>1 DEF Start
  <2>3. Rounds(prog, References(prog, dup)).fact = fact
    BY <2>1, <2>2, DrainEnds
  <2> QED
    BY <2>3 DEF Expected
<1> QED
  BY <1>1, InitOnCourse, NextOnCourse, PTL DEF Spec
=============================================================================
