---------------------------- MODULE EvidenceQueue ----------------------------
(* The evidence graph of the type pass, crates/telora-core/src/            *)
(* type_resolve/evidence.rs and evidence/queue.rs: which implementations   *)
(* prove that a subject satisfies a bound.                                 *)
(*                                                                         *)
(* A goal (a subject and a bound) becomes a node the first time it is      *)
(* asked for.  The nodes asked for since the last batch, and the nodes     *)
(* their requirements ask for, are one batch: it is scanned, counted,      *)
(* propagated and closed, and its nodes never change again.  The bounds of *)
(* the source make the first batch; later every requirement of a generic   *)
(* instance makes one.                                                     *)
EXTENDS Integers, Sequences, FiniteSets

CONSTANTS
    Goal,      \* pairs of a subject and a bound
    Free,      \* a requirement on a parameter the match left open
    Programs   \* what the declarations of a program say of each goal

(* What direct_evidence and the declared bound say of a goal: an           *)
(* assumption or a property holds, the property is absent, the bound is no *)
(* type at all, or implementations must be searched.                       *)
Verdict == {"holds", "absent", "malformed", "search"}

(* An implementation whose trait matches the goal: its fallback rank,      *)
(* whether its trait has no parameter, and the goals it requires.          *)
Impl == [rank : 0 .. 2, concrete : BOOLEAN, needs : Seq(Goal \cup {Free})]

ASSUME EvidenceAssumption ==
    /\ Free \notin Goal
    /\ \A p \in Programs :
         /\ DOMAIN p = Goal
         /\ \A g \in Goal : /\ p[g].direct \in Verdict
                            /\ \A m \in p[g].impls : m \in Impl

VARIABLES
    program,   \* the declarations
    nodes,     \* mir.evidence: the goals in the order they were asked for
    state,     \* the BoundState of each node
    deps,      \* the dependencies of each node, by index
    cursor,    \* evidence_cursor: how many nodes were scanned
    start,     \* the cursor when the batch began
    pc,        \* what the solver is doing
    todo,      \* the requirements of the node at the cursor still to ask for
    waiting,   \* how many dependencies of a node are not proven yet
    ready      \* the nodes in the queue

graph == <<nodes, state, deps>>
batch == <<waiting, ready>>
vars == <<program, graph, cursor, start, pc, todo, batch>>

State == {"Pending", "Held", "Implementation", "Ambiguous", "Unresolved", "Rejected"}

(* is_proven                                                               *)
Proven(s) == s \in {"Held", "Implementation"}

Init ==
    /\ program \in Programs
    /\ nodes = <<>> /\ state = <<>> /\ deps = <<>>
    /\ cursor = 0 /\ start = 0
    /\ pc = "bounds"
    /\ todo = <<>>
    /\ waiting = <<>> /\ ready = {}

-----------------------------------------------------------------------------
(* Asking for a goal.                                                      *)

Asked(g) == \E i \in DOMAIN nodes : nodes[i] = g

(* request_evidence                                                        *)
AskMutant(g) ==                           \* mutant: a refused goal is tried again
    IF Asked(g)
      THEN /\ UNCHANGED nodes
           /\ state' = [i \in DOMAIN state |->
                          IF nodes[i] = g /\ state[i] = "Rejected" THEN "Pending" ELSE state[i]]
      ELSE nodes' = Append(nodes, g) /\ state' = Append(state, "Pending")
Ask(g) ==
    IF Asked(g)
      THEN UNCHANGED <<nodes, state>>
      ELSE nodes' = Append(nodes, g) /\ state' = Append(state, "Pending")

(* prove_bounds asks for every bound of the source, then solves.           *)
RequestBound(g) ==
    /\ pc = "bounds"
    /\ ~Asked(g)
    /\ Ask(g)
    /\ deps' = Append(deps, <<>>)
    /\ UNCHANGED <<program, cursor, start, pc, todo, batch>>

ProveBounds ==
    /\ pc = "bounds"
    /\ pc' = "scan"
    /\ start' = cursor
    /\ UNCHANGED <<program, graph, cursor, todo, batch>>

(* materialize_instances asks for one goal and solves.                     *)
RequestInstance(g) ==
    /\ pc = "idle"
    /\ ~Asked(g)
    /\ Ask(g)
    /\ deps' = Append(deps, <<>>)
    /\ start' = cursor
    /\ pc' = "scan"
    /\ UNCHANGED <<program, cursor, todo, batch>>

-----------------------------------------------------------------------------
(* Scanning the node at the cursor.                                        *)

(* An implementation is passed over when a property it requires is absent. *)
Applicable(m) ==
    \A k \in DOMAIN m.needs :
      m.needs[k] # Free => program[m.needs[k]].direct # "absent"

(* Concrete implementations come first, then the highest rank.             *)
Candidates(g) ==
    LET all == {m \in program[g].impls : Applicable(m)}
        concrete == {m \in all : m.concrete}
    IN IF concrete # {} THEN concrete
       ELSE {m \in all : \A n \in all : n.rank <= m.rank}

(* What becomes of a goal no single implementation is chosen for.          *)
Refused(g) ==
    IF program[g].direct # "search" \/ Candidates(g) = {} THEN "Rejected" ELSE "Ambiguous"

Chosen(g) ==
    IF program[g].direct = "search" /\ \E m \in Candidates(g) : Candidates(g) = {m}
      THEN Candidates(g) ELSE {}

Scanning == pc = "scan" /\ cursor < Len(nodes)

ScanDecided ==
    /\ Scanning
    /\ LET g == nodes[cursor + 1]
       IN /\ Chosen(g) = {}
          /\ state' = [state EXCEPT ![cursor + 1] =
                         IF program[g].direct = "holds" THEN "Held" ELSE Refused(g)]
    /\ cursor' = cursor + 1
    /\ UNCHANGED <<program, nodes, deps, start, pc, todo, batch>>

ScanImplementation ==
    /\ Scanning
    /\ \E m \in Chosen(nodes[cursor + 1]) : todo' = m.needs
    /\ cursor' = cursor + 1
    /\ pc' = "require"
    /\ UNCHANGED <<program, graph, start, batch>>

(* The dependency is the node of the goal, new or old.                     *)
Require ==
    /\ pc = "require"
    /\ todo # <<>>
    /\ Head(todo) # Free
    /\ Ask(Head(todo))
    /\ \E i \in DOMAIN nodes' :
         /\ nodes'[i] = Head(todo)
         /\ LET known == [deps EXCEPT ![cursor] = Append(@, i)]
            IN deps' = IF Asked(Head(todo)) THEN known ELSE Append(known, <<>>)
    /\ todo' = Tail(todo)
    /\ UNCHANGED <<program, cursor, start, pc, batch>>

(* A parameter the match left open leaves the node unresolved; its other   *)
(* requirements are still asked for.                                       *)
RequireOpenMutant ==                      \* mutant: the node stays pending
    /\ pc = "require"
    /\ todo # <<>>
    /\ Head(todo) = Free
    /\ todo' = Tail(todo)
    /\ UNCHANGED <<program, graph, cursor, start, pc, batch>>
RequireOpen ==
    /\ pc = "require"
    /\ todo # <<>>
    /\ Head(todo) = Free
    /\ state' = [state EXCEPT ![cursor] = "Unresolved"]
    /\ todo' = Tail(todo)
    /\ UNCHANGED <<program, nodes, deps, cursor, start, pc, batch>>

Required ==
    /\ pc = "require"
    /\ todo = <<>>
    /\ pc' = "scan"
    /\ UNCHANGED <<program, graph, cursor, start, todo, batch>>

(* The types grew beyond a limit: what is pending in the batch is given    *)
(* up, and the solver is not called again.                                 *)
Exhaust ==
    /\ Scanning
    /\ state' = [i \in DOMAIN state |->
                   IF i > start /\ state[i] = "Pending" THEN "Unresolved" ELSE state[i]]
    /\ pc' = "stopped"
    /\ UNCHANGED <<program, nodes, deps, cursor, start, todo, batch>>

-----------------------------------------------------------------------------
(* Counting and propagating.                                               *)

InBatch == start + 1 .. Len(nodes)

Unproven(i) == {k \in DOMAIN deps[i] : ~Proven(state[deps[i][k]])}

WaitsMutant(i) ==                         \* mutant: a dependency named twice counts once
    Cardinality({deps[i][k] : k \in Unproven(i)})
WaitsOutside(i) ==                        \* mutant: not for the batch itself
    Cardinality({k \in Unproven(i) : deps[i][k] \notin InBatch})
Waits(i) == Cardinality(Unproven(i))

Count ==
    /\ pc = "scan"
    /\ cursor = Len(nodes)
    /\ waiting' = [i \in InBatch |-> IF state[i] = "Pending" THEN Waits(i) ELSE 0]
    /\ ready' = {i \in InBatch : state[i] = "Pending" /\ Waits(i) = 0}
    /\ pc' = "propagate"
    /\ UNCHANGED <<program, graph, cursor, start, todo>>

(* The dependents of a node, as often as they depend on it.                *)
Occurrences(i, j) == {k \in DOMAIN deps[j] : deps[j][k] = i}

DependentsMutant(i) ==                    \* mutant: only one is told
    {j \in InBatch : /\ state[j] = "Pending" /\ Occurrences(i, j) # {}
                     /\ \A h \in InBatch : Occurrences(i, h) # {} => j <= h}
Dependents(i) == {j \in InBatch : state[j] = "Pending" /\ Occurrences(i, j) # {}}

PropagateMutant(i) ==                     \* mutant: the node stays in the queue
    /\ pc = "propagate"
    /\ i \in ready
    /\ state' = [state EXCEPT ![i] = "Implementation"]
    /\ waiting' = [j \in InBatch |->
                     IF j \in Dependents(i)
                       THEN waiting[j] - Cardinality(Occurrences(i, j)) ELSE waiting[j]]
    /\ ready' = ready \cup {j \in Dependents(i) : waiting'[j] = 0}
    /\ UNCHANGED <<program, nodes, deps, cursor, start, pc, todo>>
Propagate(i) ==
    /\ pc = "propagate"
    /\ i \in ready
    /\ state' = [state EXCEPT ![i] = "Implementation"]
    /\ waiting' = [j \in InBatch |->
                     IF j \in Dependents(i)
                       THEN waiting[j] - Cardinality(Occurrences(i, j)) ELSE waiting[j]]
    /\ ready' = (ready \ {i}) \cup {j \in Dependents(i) : waiting'[j] = 0}
    /\ UNCHANGED <<program, nodes, deps, cursor, start, pc, todo>>

Close ==
    /\ pc = "propagate"
    /\ ready = {}
    /\ state' = [i \in DOMAIN state |->
                   IF i > start /\ state[i] = "Pending" THEN "Rejected" ELSE state[i]]
    /\ waiting' = <<>>
    /\ pc' \in {"idle", "stopped"}
    /\ UNCHANGED <<program, nodes, deps, cursor, start, todo, ready>>

-----------------------------------------------------------------------------
Solve ==
    \/ ScanDecided \/ ScanImplementation \/ Require \/ RequireOpen \/ Required
    \/ Count \/ (\E i \in DOMAIN nodes : Propagate(i)) \/ Close

Next ==
    \/ \E g \in Goal : RequestBound(g) \/ RequestInstance(g)
    \/ ProveBounds
    \/ Exhaust
    \/ Solve

Spec == Init /\ [][Next]_vars

(* The solver is one thread: a batch that began goes on.                   *)
FairSpec == Spec /\ WF_vars(Solve)

-----------------------------------------------------------------------------
(* Properties.                                                             *)

Stages == {"bounds", "scan", "require", "propagate", "idle", "stopped"}

(* Every variable has its type.                                            *)
TypeOK ==
    /\ program \in Programs
    /\ nodes \in Seq(Goal)
    /\ state \in [1 .. Len(nodes) -> State]
    /\ deps \in [1 .. Len(nodes) -> Seq(1 .. Len(nodes))]
    /\ cursor \in 0 .. Len(nodes)
    /\ start \in 0 .. cursor
    /\ pc \in Stages
    /\ todo \in Seq(Goal \cup {Free})
    /\ ready \subseteq InBatch
    /\ pc = "propagate" => waiting \in [InBatch -> Nat]

(* "cycles cannot establish their own proof" (queue.rs): among any nodes   *)
(* proved by implementations there is one that depends on none of the      *)
(* others, nor on itself, and everything a proof depends on is proven.     *)
Grounded ==
    /\ \A i \in DOMAIN nodes : state[i] = "Implementation" => Unproven(i) = {}
    /\ \A S \in SUBSET {i \in DOMAIN nodes : state[i] = "Implementation"} :
         S # {} => \E i \in S : \A k \in DOMAIN deps[i] : deps[i][k] \notin S

(* A goal whose implementation was chosen and whose requirements are all   *)
(* proven is proven: propagation forgets nobody, whichever batch the       *)
(* requirements were closed in.                                            *)
Complete ==
    \A i \in 1 .. cursor :
      pc = "idle" /\ state[i] = "Rejected" /\ Chosen(nodes[i]) # {} => Unproven(i) # {}

(* The goals that follow from the declarations: the least set closed under *)
(* the chosen implementations.                                             *)
Derived[n \in Nat] ==
    IF n = 0 THEN {g \in Goal : program[g].direct = "holds"}
    ELSE Derived[n - 1] \cup
         {g \in Goal : \E m \in Chosen(g) :
            \A k \in DOMAIN m.needs : m.needs[k] \in Derived[n - 1]}

(* A verdict is that of the declarations: it does not depend on what was   *)
(* asked before, nor on how the questions fell into batches.               *)
ExactlyDerived ==
    pc = "idle" =>
      \A i \in DOMAIN nodes : Proven(state[i]) <=> nodes[i] \in Derived[Cardinality(Goal)]

(* A closed node is never reopened ("A closed old node cannot acquire new  *)
(* dependencies", queue.rs): the instances that took its verdict keep it.  *)
ClosedStays ==
    [][\A i \in 1 .. Len(nodes) : i <= start' /\ pc # "bounds" =>
         state'[i] = state[i] /\ deps'[i] = deps[i] /\ state[i] # "Pending"]_vars

(* Every batch comes to its end.                                           *)
BatchCloses == pc = "scan" ~> pc \in {"idle", "stopped"}

=============================================================================
