--------------------------- MODULE ResolveSchedule ---------------------------
(***************************************************************************)
(* The scheduler of the symbol pass: tasks that each establish one fact of *)
(* the program graph once (what a symbol or a reference resolves to,       *)
(* whether a symbol is a namespace or a constructor), and read the facts   *)
(* of other tasks. A task whose next input is missing waits for it; a      *)
(* cycle of waiting tasks is cut by a negative answer.                     *)
(*                                                                         *)
(* A fact is positive or negative. What a task reads and concludes is data *)
(* of the program: a decision tree, with the answers read so far leading   *)
(* to the next task it asks or to what it says.                            *)
(***************************************************************************)
EXTENDS Naturals, Sequences, FiniteSets

CONSTANTS
  Task,     \* tasks, numbered in the order cycles are cut
  First,    \* the symbols, queued for the first drain
  Later,    \* the references, queued for the second
  Programs  \* the assignments of decision trees to tasks considered

Answer == {"yes", "no"}

(* A decision tree: what each sequence of answers leads to.               *)
Rule(r) ==
  /\ DOMAIN r.asks \cup DOMAIN r.says \subseteq Seq(Answer)
  /\ DOMAIN r.asks \cap DOMAIN r.says = {}
  /\ <<>> \in DOMAIN r.asks \cup DOMAIN r.says
  /\ \A h \in DOMAIN r.asks : r.asks[h] \in Task
  /\ \A h \in DOMAIN r.says : r.says[h] \in Answer
  /\ \A h \in DOMAIN r.asks, a \in Answer :
       Append(h, a) \in DOMAIN r.asks \cup DOMAIN r.says
  /\ \A h \in DOMAIN r.asks \cup DOMAIN r.says : \A i \in 1..Len(h) :
       SubSeq(h, 1, i - 1) \in DOMAIN r.asks

ASSUME TaskAssumption == Task \subseteq Nat /\ IsFiniteSet(Task)
ASSUME SeedsAssumption == First \subseteq Task /\ Later \subseteq Task
ASSUME ProgramsAssumption == \A p \in Programs : \A t \in Task : Rule(p[t])

VARIABLES
  prog,       \* the program resolved
  dup,        \* symbols of patterns that name one binding twice
  fact,       \* what is established
  ready,      \* the tasks queued
  waiting,    \* the input each waiting task waits for
  consumers,  \* the tasks that registered for each task
  draining    \* what the drain under way was seeded with

vars == <<prog, dup, fact, ready, waiting, consumers, draining>>

None == "none"

Least(S) == CHOOSE x \in S : \A y \in S : x <= y

(* The types of the variables. A task waits for at most one input, which   *)
(* is what the search for cycles takes for granted (comment of drain).     *)
TypeOK ==
  /\ prog \in Programs
  /\ dup \subseteq First
  /\ fact \in [Task -> Answer \cup {None}]
  /\ ready \subseteq Task
  /\ \A t \in Task : waiting[t] = {} \/ \E d \in Task : waiting[t] = {d}
  /\ waiting \in [Task -> SUBSET Task]
  /\ consumers \in [Task -> SUBSET Task]
  /\ draining \in {"symbols", "references"}

(* A symbol that depends on no other is bound to itself, or in conflict    *)
(* with another, before the tasks start.                                   *)
Declared(p, t) == t \in First /\ p[t].asks = <<>>
Established(p) == [t \in Task |-> IF Declared(p, t) THEN p[t].says[<<>>] ELSE None]

Init ==
  /\ prog \in Programs
  /\ dup \in SUBSET First
  /\ fact = Established(prog)
  /\ ready = First
  /\ waiting = [t \in Task |-> {}]
  /\ consumers = [t \in Task |-> {}]
  /\ draining = "symbols"

-----------------------------------------------------------------------------
(* One step of a task: it follows the facts established down its tree, to  *)
(* an input that is missing or to a conclusion.                            *)

Follows(r, f, h) == \A i \in DOMAIN h : f[r.asks[SubSeq(h, 1, i - 1)]] = h[i]

Asking(r, f) == {h \in DOMAIN r.asks : Follows(r, f, h) /\ f[r.asks[h]] = None}
Saying(r, f) == {h \in DOMAIN r.says : Follows(r, f, h)}

Missing(r, f) == r.asks[CHOOSE h \in Asking(r, f) : TRUE]
Conclusion(r, f) == r.says[CHOOSE h \in Saying(r, f) : TRUE]

-----------------------------------------------------------------------------
(* drain.                                                                  *)

(* notify: the consumers still waiting for a task just finished are queued.*)
WokenMutant(D) ==                             \* mutant: one consumer of each
  {Least(consumers[d]) : d \in {e \in D : consumers[e] # {}}}
Woken(D) == {c \in Task \ D : \E d \in D : c \in consumers[d] /\ waiting[c] = {d}}

Notify(D) ==
  /\ waiting' = [c \in Task |-> IF c \in D \cup Woken(D) THEN {} ELSE waiting[c]]
  /\ consumers' = [t \in Task |-> IF t \in D THEN {} ELSE consumers[t]]
  /\ ready' = (ready \ D) \cup Woken(D)

(* A queued task was finished, or waits already.                          *)
Skip(t) ==
  /\ t \in ready
  /\ fact[t] # None \/ waiting[t] # {}
  /\ IF fact[t] # None
       THEN Notify({t})
       ELSE ready' = ready \ {t} /\ UNCHANGED <<waiting, consumers>>
  /\ UNCHANGED <<prog, dup, fact, draining>>

Finish(t) ==
  /\ t \in ready
  /\ fact[t] = None
  /\ waiting[t] = {}
  /\ Saying(prog[t], fact) # {}
  /\ fact' = [fact EXCEPT ![t] = Conclusion(prog[t], fact)]
  /\ Notify({t})
  /\ UNCHANGED <<prog, dup, draining>>

WaitsOn(t, D) ==
  /\ waiting' = [waiting EXCEPT ![t] = D]
  /\ consumers' = [u \in Task |-> IF u \in D THEN consumers[u] \cup {t} ELSE consumers[u]]
  /\ ready' = (ready \ {t}) \cup {u \in D : waiting'[u] = {}}

WaitMutant(t) ==                           \* mutant: for all inputs it may ask
  /\ t \in ready
  /\ fact[t] = None
  /\ waiting[t] = {}
  /\ Asking(prog[t], fact) # {}
  /\ WaitsOn(t, {u \in Task : fact[u] = None /\ \E h \in DOMAIN prog[t].asks :
                                                  prog[t].asks[h] = u})
  /\ UNCHANGED <<prog, dup, fact, draining>>

(* It registers with its first missing input, which is queued unless it    *)
(* waits itself.                                                           *)
Wait(t) ==
  /\ t \in ready
  /\ fact[t] = None
  /\ waiting[t] = {}
  /\ Asking(prog[t], fact) # {}
  /\ WaitsOn(t, {Missing(prog[t], fact)})
  /\ UNCHANGED <<prog, dup, fact, draining>>

Blocked == {t \in Task : waiting[t] # {}}
Quiescent == ready = {} /\ Blocked # {}

(* The tasks a task waits for, directly and through others: it waits for   *)
(* one at a time.                                                          *)
Ahead[n \in Nat] ==
  IF n = 0 THEN waiting
  ELSE [t \in Task |-> UNION {waiting[u] : u \in Ahead[n - 1][t]}]
Behind(t) == UNION {Ahead[n][t] : n \in 0..Cardinality(Task)}
OnCycle(t) == t \in Behind(t)

(* A cycle is cut at its least task.                                       *)
VictimsMutant == {t \in Blocked : \A u \in Blocked : t <= u}  \* mutant: any least
Victims == {t \in Blocked : OnCycle(t) /\ \A u \in Behind(t) : t <= u}

CutCycles ==
  /\ Quiescent
  /\ fact' = [t \in Task |-> IF t \in Victims THEN "no" ELSE fact[t]]
  /\ Notify(Victims)
  /\ UNCHANGED <<prog, dup, draining>>

-----------------------------------------------------------------------------
(* resolve: after the first drain, patterns that bind a name twice become  *)
(* conflicts, and the references are drained.                              *)

Marked(d, f) == [t \in Task |-> IF t \in d /\ f[t] = "yes" THEN "no" ELSE f[t]]

ResolveReferences ==
  /\ ready = {} /\ Blocked = {}
  /\ draining = "symbols"
  /\ fact' = Marked(dup, fact)
  /\ ready' = Later
  /\ draining' = "references"
  /\ UNCHANGED <<prog, dup, waiting, consumers>>

Resolved == ready = {} /\ Blocked = {} /\ draining = "references"

Turn(t) == Skip(t) \/ Finish(t) \/ Wait(t)
Work == (\E t \in Task : Turn(t)) \/ CutCycles \/ ResolveReferences
Next == Work \/ (Resolved /\ UNCHANGED vars)

(* The pass is one loop of one thread.                                     *)
Spec == Init /\ [][Next]_vars
FairSpec == Spec /\ WF_vars(Work)

-----------------------------------------------------------------------------
(* Properties.                                                             *)

(* No wake-up is lost (notify): a waiting task is registered with one      *)
(* unfinished task that is itself queued or waiting, and a queued task     *)
(* that is not finished waits for nothing, so its turn takes a step.       *)
Registered(t) ==
  \E d \in Task :
    /\ waiting[t] = {d}
    /\ t \in consumers[d]
    /\ fact[t] = None /\ fact[d] = None
    /\ d \in ready \cup Blocked

NoLostWakeup ==
  /\ \A t \in Blocked : Registered(t)
  /\ \A t \in ready : fact[t] = None => waiting[t] = {}

(* When no task is queued and some wait, there is a cycle to cut ("every   *)
(* pending producer must be scheduled", the assertion of drain), so that   *)
(* the loop makes progress.                                                *)
CycleToCut == Quiescent => Victims # {}

(* What the pass establishes does not depend on the order tasks are taken  *)
(* from the queue: it is what rounds that take every task at once give     *)
(* (scheduling tests compare oldest first with newest first).              *)
Undecided(s) == {t \in s.asked : s.fact[t] = None}
Ripe(p, s) == {t \in Undecided(s) : Saying(p[t], s.fact) # {}}
Wanted(p, s) ==
  {Missing(p[t], s.fact) : t \in {u \in Undecided(s) : Asking(p[u], s.fact) # {}}}

Hops(p, f, t) ==
  LET hop[n \in Nat] == IF n = 0 THEN Missing(p[t], f) ELSE Missing(p[hop[n - 1]], f)
  IN  hop
Chain(p, f, t) == {Hops(p, f, t)[n] : n \in 0..Cardinality(Task)}

Settled(p, s) == Ripe(p, s) = {} /\ Wanted(p, s) \subseteq s.asked

Round(p, s) ==
  IF ~Settled(p, s)
    THEN [asked |-> s.asked \cup Wanted(p, s),
          fact |-> [t \in Task |->
                     IF t \in Ripe(p, s) THEN Conclusion(p[t], s.fact) ELSE s.fact[t]]]
    ELSE [asked |-> s.asked,
          fact |-> [t \in Task |->
                     IF /\ t \in Undecided(s)
                        /\ t \in Chain(p, s.fact, t)
                        /\ t = Least(Chain(p, s.fact, t))
                       THEN "no" ELSE s.fact[t]]]

After(p, start) ==
  LET after[n \in Nat] == IF n = 0 THEN start ELSE Round(p, after[n - 1])
  IN  after
Rounds(p, start) == After(p, start)[3 * Cardinality(Task)]

Symbols(p) == [asked |-> First, fact |-> Established(p)]
References(p, d) ==
  LET symbols == Rounds(p, Symbols(p))
  IN  [asked |-> symbols.asked \cup Later, fact |-> Marked(d, symbols.fact)]

Expected == Rounds(prog, References(prog, dup)).fact

OrderIndependent == Resolved => fact = Expected

(* The pass ends with every task it was asked for decided, however its     *)
(* tasks depend on each other.                                             *)
EverythingResolved == <>(Resolved /\ \A t \in First \cup Later : fact[t] # None)

=============================================================================
