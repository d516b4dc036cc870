------------------------- MODULE ImosCreateProofs -------------------------
(* What one create or install call does to the store, for every plan, every *)
(* set of items that report progress or are watched, and any number of     *)
(* panics and statuses that cannot be written.                              *)
EXTENDS ImosCreate, FiniteSetTheorems, SequenceTheorems, TLAPS

-----------------------------------------------------------------------------
(* The invariant.                                                          *)

(* Progress events, effects, and the messages tasks answer with.           *)
Kinds == {"InstallShared", "Download", "Unpack"}
Events ==
  [what : {"AttemptStarted", "Cached"}, ty : Kinds]
  \cup [what : {"Progressed", "Completed", "Failed"}]
  \cup [what : {"Observed"}, status : Status]

SetupEffects == {"AcquireRequestLock", "PersistRequest", "Prepare", "AcquireInstall"}
FinishEffects == {"PublishInstall", "Register"}
Emissions == {"EmitProgress", "ForwardStatus"}
Effects ==
  [type : SetupEffects \cup {"PrepareInstall"} \cup FinishEffects]
  \cup [type : {"Download"}, key : Dl]
  \cup [type : {"ExecuteItem"}, index : Nat]
  \cup [type : Emissions, target : Target, status : Status]

SetupMessages == {"RequestLockAcquired", "EffectFailed", "Prepared", "InstallAcquired"}
FinishMessages == {"Published", "Registered"}
Chatter ==
  [type : {"Progress"}, target : Target, event : Events]
  \cup [type : {"ObservedStatus"}, target : Target, status : Status]
Told ==
  [type : {"ProgressApplied"}, target : Target, ok : BOOLEAN]
  \cup [type : {"StatusForwarded"}, target : Target]
Messages ==
  [type : {"RequestLockAcquired", "EffectFailed"}]
  \cup [type : {"Prepared", "InstallPrepared", "Published", "Registered"}, ok : BOOLEAN]
  \cup [type : {"InstallAcquired"}, cached : BOOLEAN, waited : BOOLEAN]
  \cup [type : {"DownloadFinished"}, key : Dl, ok : BOOLEAN]
  \cup [type : {"ItemFinished"}, index : Nat, ok : BOOLEAN]
  \cup Chatter \cup Told
Side == {"Progress", "ObservedStatus", "ProgressApplied", "StatusForwarded"}

CreateState ==
  [prepared : BOOLEAN, waited : BOOLEAN, temporary : BOOLEAN,
   wanted : SUBSET Dl, completed : SUBSET Dl, downloadFailed : BOOLEAN,
   next : Nat, itemRunning : BOOLEAN, publishing : BOOLEAN,
   status : [Target -> Status], busy : SUBSET Target,
   pending : [Target -> Seq(Events)], effects : SUBSET Effects,
   result : {"none", "ok", "err"}]

(* The last message of a task is the end of its effect, those before it    *)
(* are progress.                                                           *)
Ends(e) ==
  CASE e.type = "AcquireRequestLock" -> {"RequestLockAcquired", "EffectFailed"}
    [] e.type \in {"PersistRequest", "Prepare"} -> {"Prepared"}
    [] e.type = "AcquireInstall" -> {"InstallAcquired", "EffectFailed"}
    [] e.type = "Download"       -> {"DownloadFinished"}
    [] e.type = "PrepareInstall" -> {"InstallPrepared"}
    [] e.type = "ExecuteItem"    -> {"ItemFinished"}
    [] e.type = "PublishInstall" -> {"Published"}
    [] e.type = "Register"       -> {"Registered"}
    [] e.type = "EmitProgress"   -> {"ProgressApplied"}
    [] e.type = "ForwardStatus"  -> {"StatusForwarded"}
EndOf(e, m) ==
  /\ m \in Messages /\ m.type \in Ends(e)
  /\ e.type = "Download" => m.key = e.key
  /\ e.type = "ExecuteItem" => m.index = e.index
Answer(e, a) ==
  /\ a \in Seq(Messages) /\ a # <<>>
  /\ \A i \in 1 .. (Len(a) - 1) : a[i] \in Chatter
  /\ EndOf(e, a[Len(a)])

Tasks == [effect : Effects, left : Seq(Messages)]

Types ==
  /\ plan \in Plans
  /\ state \in CreateState /\ state.effects = {}
  /\ tasks \subseteq Tasks
  /\ \A t \in tasks : t.left # <<>> => Answer(t.effect, t.left)
  /\ queue \in Seq(Messages)
  /\ returned \in BOOLEAN
  /\ sent \in [Target -> Status]
  /\ world \in [fetched : SUBSET Dl, staged : BOOLEAN, executed : Nat,
                published : BOOLEAN, registered : BOOLEAN]
  /\ faults \in 0 .. MaxFaults

(* The effects that run and the messages in the channel, by their types.   *)
Running == {t.effect : t \in tasks}
Queued == {queue[i] : i \in DOMAIN queue}
Doing(types) == {e \in Running : e.type \in types}
Answered(types) == {m \in Queued : m.type \in types}
Only(effects, messages) ==
  /\ \A e \in Running : e.type \in effects \cup Emissions
  /\ \A m \in Queued : m.type \in messages \cup Side

(* Effects of which one task at a time is enough, and answers that are     *)
(* heard once.                                                             *)
Rival(e, f) ==
  \/ \E types \in {SetupEffects, {"PrepareInstall"}, {"ExecuteItem"}, FinishEffects} :
       e.type \in types /\ f.type \in types
  \/ e.type = "Download" /\ f.type = "Download" /\ e.key = f.key
Lone == \A t, u \in tasks : Rival(t.effect, u.effect) => t = u
Once(types) ==
  \A i, j \in DOMAIN queue :
    queue[i].type \in types /\ queue[j].type \in types => i = j
LoneInv ==
  Lone /\ Once(SetupMessages) /\ Once({"ItemFinished"}) /\ Once(FinishMessages)

(* Until the install lock is there, one thing happens after the other.     *)
SetupInv ==
  /\ Doing(SetupEffects) = {} \/ Answered(SetupMessages) = {}
  /\ state.prepared => Doing(SetupEffects) = {} /\ Answered(SetupMessages) = {}
  /\ ~state.prepared =>
       /\ Only(SetupEffects, SetupMessages)
       /\ ~state.temporary /\ ~state.itemRunning /\ ~state.publishing
       /\ state.wanted = {} /\ state.completed = {} /\ state.next = 1
       /\ world.fetched = {} /\ ~world.staged /\ world.executed = 0
       /\ ~world.registered
       /\ Doing(SetupEffects) # {} => ~world.published
       /\ \A m \in Queued :
            /\ m.type \in {"RequestLockAcquired", "Prepared"} => ~world.published
            /\ m.type = "InstallAcquired" => world.published = m.cached

(* The downloads of a plan: one that is done is there, and runs no more.   *)
DownloadInv ==
  /\ world.fetched \subseteq Keys
  /\ state.wanted \subseteq Keys
  /\ state.completed \subseteq world.fetched
  /\ \A m \in Answered({"DownloadFinished"}) :
       /\ m.key \in Keys
       /\ m.ok => m.key \in world.fetched
       /\ \A e \in Doing({"Download"}) : e.key # m.key
  /\ \A e \in Doing({"Download"}) : e.key \in Keys \ state.completed

(* The temporary root.                                                     *)
StageInv ==
  /\ world.staged => Doing({"PrepareInstall"}) = {}
  /\ state.temporary => world.staged
  /\ \A m \in Answered({"InstallPrepared"}) :
       /\ Doing({"PrepareInstall"}) = {}
       /\ m.ok => world.staged

(* The items, in order and one at a time.                                  *)
ItemInv ==
  /\ state.next \in 1 .. (Len(plan) + 1)
  /\ \A i \in 1 .. (state.next - 1) : plan[i] \in state.completed
  /\ Doing({"ExecuteItem"}) = {} \/ Answered({"ItemFinished"}) = {}
  /\ ~state.itemRunning =>
       /\ Doing({"ExecuteItem"}) = {} /\ Answered({"ItemFinished"}) = {}
       /\ world.executed = state.next - 1
  /\ state.itemRunning => state.temporary /\ ~state.publishing
  /\ \A e \in Doing({"ExecuteItem"}) :
       /\ e.index = state.next /\ state.next \in DOMAIN plan
       /\ plan[state.next] \in state.completed
       /\ world.executed = state.next - 1
  /\ \A m \in Answered({"ItemFinished"}) :
       /\ m.index = state.next /\ state.next \in DOMAIN plan
       /\ plan[state.next] \in state.completed
       /\ world.executed = IF m.ok THEN state.next ELSE state.next - 1

(* The publication of the root and the registration.                       *)
FinishInv ==
  /\ Doing(FinishEffects) = {} \/ Answered(FinishMessages) = {}
  /\ \A e \in Doing(FinishEffects) :
       /\ ~world.registered
       /\ e.type = "PublishInstall" => state.publishing /\ ~world.published
       /\ e.type = "Register" => world.published
  /\ \A m \in Queued :
       /\ m.type = "Published" =>
            state.publishing /\ world.published = m.ok /\ ~world.registered
       /\ m.type = "Registered" => world.published /\ world.registered = m.ok
  /\ state.publishing =>
       /\ state.prepared /\ state.temporary /\ state.next = Len(plan) + 1
       /\ ~state.itemRunning
  /\ state.result = "ok" => world.registered

(* What may still run and be heard of once the install lock is there: the  *)
(* build, the publication, or the registration of what was found.          *)
PhaseInv ==
  state.prepared =>
    /\ ~state.publishing /\ ~world.published =>
         /\ Only({"Download", "PrepareInstall", "ExecuteItem"},
                 {"DownloadFinished", "InstallPrepared", "ItemFinished"})
         /\ ~world.registered
    /\ state.publishing =>
         Only(FinishEffects, FinishMessages \cup {"DownloadFinished", "InstallPrepared"})
    /\ ~state.publishing /\ world.published => Only({"Register"}, {"Registered"})

ReturnInv == returned => tasks = {} /\ queue = <<>> /\ state.result # "none"

Inv == /\ LoneInv /\ SetupInv /\ DownloadInv /\ StageInv /\ ItemInv /\ FinishInv
       /\ PhaseInv /\ ReturnInv

-----------------------------------------------------------------------------
(* The reducer's operators.                                                *)

(* A non-empty set of numbers has a least one.                             *)
LEMMA MinIn ==
  ASSUME NEW S \in SUBSET Nat, S # {}
  PROVE  Min(S) \in S
<1> DEFINE Upto(k) == S \cap (0 .. k)
           T == {Upto(k) : k \in S}
           R == StrictSubsetOrdering(Nat)
<1>1. T \in SUBSET FiniteSubsetsOf(Nat) /\ T # {}
  <2>1. ASSUME NEW k \in S PROVE Upto(k) \subseteq Nat /\ IsFiniteSet(Upto(k))
    <3>1. IsFiniteSet(0 .. k)
      BY FS_Interval
    <3> QED
      BY <3>1, FS_Subset
  <2> QED
    BY <2>1 DEF FiniteSubsetsOf
<1>2. IsWellFoundedOn(R, FiniteSubsetsOf(Nat))
  BY FS_StrictSubsetOrderingWellFounded
<1> HIDE DEF R
<1>3. PICK x \in T : \A y \in T : ~(<<y, x>> \in R)
  BY <1>1, <1>2, WFMin
<1>4. PICK k \in S : x = Upto(k)
  BY <1>3
<1>5. ASSUME NEW y \in S, y < k PROVE FALSE
  <2>1. Upto(y) \in T /\ Upto(y) \subseteq Upto(k) /\ Upto(y) # Upto(k)
    <3>1. k \in Upto(k) /\ k \notin Upto(y)
      BY <1>5
    <3> QED
      BY <1>5, <3>1
  <2>2. Upto(y) \in SUBSET Nat /\ Upto(k) \in SUBSET Nat
    OBVIOUS
  <2>3. <<Upto(y), Upto(k)>> \in R
    BY <2>1, <2>2 DEF R, StrictSubsetOrdering
  <2> QED
    BY <1>3, <1>4, <2>1, <2>3
<1>6. \A y \in S : k <= y
  BY <1>5
<1> QED
  BY <1>6 DEF Min

(* What the progress of a call may change of its state: the emissions, the *)
(* queues of their targets and, by failing, the outcome (pump_progress).   *)
Kept(s, r) ==
  /\ r \in CreateState
  /\ r.prepared = s.prepared /\ r.waited = s.waited /\ r.temporary = s.temporary
  /\ r.wanted = s.wanted /\ r.completed = s.completed
  /\ r.downloadFailed = s.downloadFailed /\ r.next = s.next
  /\ r.itemRunning = s.itemRunning /\ r.publishing = s.publishing
  /\ s.effects \subseteq r.effects
  /\ \A e \in r.effects \ s.effects : e.type \in Emissions
  /\ r.result = s.result \/ (s.result = "none" /\ r.result = "err")

(* Two such changes make one.                                              *)
LEMMA KeptTrans ==
  ASSUME NEW s, NEW r, NEW q, Kept(s, r), Kept(r, q)
  PROVE  Kept(s, q)
BY DEF Kept

(* No change is one.                                                       *)
LEMMA KeptSame ==
  ASSUME NEW s \in CreateState
  PROVE  Kept(s, s)
BY DEF Kept

Live(s, t) == {i \in DOMAIN s.pending[t] : ~Late(s.pending[t][i], s.status[t])}
Chosen(s, t) == s.pending[t][Min(Live(s, t))]
Rest(s, t) ==
  [s EXCEPT !.pending[t] = SubSeq(s.pending[t], Min(Live(s, t)) + 1, Len(s.pending[t]))]
Emitted(s, t) ==
  Effect([Rest(s, t) EXCEPT !.status[t] = Reduced(Chosen(s, t), s.status[t]),
                            !.busy = @ \cup {t}],
         [type |-> IF Chosen(s, t).what = "Observed" THEN "ForwardStatus"
                                                     ELSE "EmitProgress",
          target |-> t, status |-> Reduced(Chosen(s, t), s.status[t])])

(* Reducing an event that is not unstarted yields a status (Event::reduce).*)
LEMMA ReducedType ==
  ASSUME NEW e \in Events, NEW old \in Status, ~Unstarted(e, old)
  PROVE  Reduced(e, old) \in Status
<1>1. CASE e.what = "AttemptStarted"
  <2>1. e.ty \in Kinds
    BY <1>1 DEF Events
  <2>2. old.tried \in Nat
    BY DEF Status, NoStatus
  <2> QED
    BY <1>1, <2>1, <2>2 DEF Reduced, Status, Kinds
<1>2. CASE e.what = "Cached"
  <2>1. e.ty \in Kinds
    BY <1>2 DEF Events
  <2> QED
    BY <1>2, <2>1 DEF Reduced, Status, Kinds, Terminal
<1>3. CASE e.what = "Observed"
  <2>1. e.status \in Status
    BY <1>3 DEF Events
  <2> QED
    BY <1>3, <2>1 DEF Reduced
<1>4. CASE e.what \in {"Progressed", "Completed", "Failed"}
  <2>1. old # NoStatus
    BY <1>4 DEF Unstarted, Terminal
  <2>2. old \in [ty : {"InstallShared", "Download", "Unpack"},
                 st : {"Running"} \cup Terminal, tried : Nat]
    BY <2>1 DEF Status
  <2>3. Reduced(e, old) = [old EXCEPT !.st = IF e.what = "Progressed" THEN "Running" ELSE e.what]
    BY <1>4 DEF Reduced
  <2> QED
    BY <1>4, <2>2, <2>3 DEF Status, Terminal
<1> QED
  BY <1>1, <1>2, <1>3, <1>4 DEF Events

(* Dropping late progress, taking an event from a queue and emitting it.   *)
LEMMA PumpParts ==
  ASSUME NEW s \in CreateState, NEW t \in Target
  PROVE  /\ Kept(s, [s EXCEPT !.pending[t] = <<>>])
         /\ Live(s, t) # {} => Kept(s, Rest(s, t))
         /\ Live(s, t) # {} /\ ~Unstarted(Chosen(s, t), s.status[t]) =>
              Kept(s, Emitted(s, t))
<1> DEFINE q == s.pending[t]
<1>1. /\ s.pending \in [Target -> Seq(Events)] /\ s.status \in [Target -> Status]
      /\ q \in Seq(Events) /\ s.status[t] \in Status /\ s.busy \in SUBSET Target
      /\ s.effects \in SUBSET Effects
  BY DEF CreateState
<1>2. Kept(s, [s EXCEPT !.pending[t] = <<>>])
  <2>1. [s.pending EXCEPT ![t] = <<>>] \in [Target -> Seq(Events)]
    BY <1>1
  <2>2. [s EXCEPT !.pending[t] = <<>>] \in CreateState
    BY <2>1 DEF CreateState
  <2> QED
    BY <2>2 DEF Kept, CreateState
<1>3. ASSUME Live(s, t) # {}
      PROVE  /\ Chosen(s, t) \in Events
             /\ Rest(s, t) \in CreateState
             /\ Rest(s, t) = [s EXCEPT !.pending = Rest(s, t).pending]
  <2>1. Live(s, t) \in SUBSET Nat /\ Min(Live(s, t)) \in DOMAIN q
    <3>1. DOMAIN q = 1 .. Len(q) /\ Len(q) \in Nat
      BY <1>1, LenProperties
    <3>2. Live(s, t) \in SUBSET Nat /\ Live(s, t) \subseteq DOMAIN q
      BY <3>1 DEF Live
    <3> QED
      BY <1>3, <3>2, MinIn
  <2>2. Chosen(s, t) \in Events
    BY <1>1, <2>1, ElementOfSeq DEF Chosen
  <2> DEFINE m == Min(Live(s, t)) + 1
             r == SubSeq(q, m, Len(q))
  <2>3. r \in Seq(Events)
    <3>1. m \in Int /\ Len(q) \in Int /\ \A i \in m .. Len(q) : q[i] \in Events
      <4>1. Min(Live(s, t)) \in 1 .. Len(q) /\ Len(q) \in Nat
        BY <1>1, <2>1, LenProperties
      <4>2. \A i \in m .. Len(q) : i \in 1 .. Len(q)
        BY <4>1
      <4> QED
        BY <1>1, <4>1, <4>2, ElementOfSeq
    <3> QED
      BY <3>1, SubSeqProperties
  <2> HIDE DEF r
  <2>4. Rest(s, t) = [s EXCEPT !.pending = [s.pending EXCEPT ![t] = r]]
    BY DEF Rest, r
  <2>5. [s.pending EXCEPT ![t] = r] \in [Target -> Seq(Events)]
    BY <1>1, <2>3
  <2> QED
    BY <2>2, <2>4, <2>5 DEF CreateState
<1>4. Live(s, t) # {} => Kept(s, Rest(s, t))
  <2> HAVE Live(s, t) # {}
  <2> QED
    BY <1>3 DEF Kept, CreateState
<1>5. ASSUME Live(s, t) # {}, ~Unstarted(Chosen(s, t), s.status[t])
      PROVE  Kept(s, Emitted(s, t))
  <2> DEFINE r == Rest(s, t)
             new == Reduced(Chosen(s, t), s.status[t])
             x == [type |-> IF Chosen(s, t).what = "Observed" THEN "ForwardStatus"
                                                              ELSE "EmitProgress",
                   target |-> t, status |-> new]
  <2>1. new \in Status
    BY <1>1, <1>3, <1>5, ReducedType
  <2>2. x \in Effects /\ x.type \in Emissions
    BY <2>1 DEF Effects, Emissions
  <2>3. Emitted(s, t) = [[r EXCEPT !.status[t] = new, !.busy = @ \cup {t}]
                           EXCEPT !.effects = @ \cup {x}]
    BY DEF Emitted, Effect
  <2>4. /\ r \in CreateState /\ r.status = s.status /\ r.busy = s.busy
        /\ r.effects = s.effects
    BY <1>3, <1>5 DEF CreateState
  <2>5. Kept(s, r)
    BY <1>4, <1>5
  <2> HIDE DEF x, new, r
  <2>6. [r.status EXCEPT ![t] = new] \in [Target -> Status]
    BY <2>1, <2>4, <1>1
  <2>7. r.busy \cup {t} \in SUBSET Target /\ r.effects \cup {x} \in SUBSET Effects
    BY <2>2, <2>4, <1>1
  <2>8. Kept(r, [[r EXCEPT !.status[t] = new, !.busy = @ \cup {t}]
                           EXCEPT !.effects = @ \cup {x}])
    BY <2>2, <2>4, <2>6, <2>7 DEF Kept, CreateState
  <2> QED
    BY <2>3, <2>5, <2>8, KeptTrans
<1> QED
  BY <1>2, <1>4, <1>5

(* One emission at a time, whatever the queue holds (pump_progress).       *)
LEMMA PumpSameKept ==
  ASSUME NEW s \in CreateState, NEW t \in Target
  PROVE  Kept(s, PumpOr(Same, s, t))
<1>1. \/ PumpOr(Same, s, t) = s
      \/ PumpOr(Same, s, t) = [s EXCEPT !.pending[t] = <<>>]
      \/ Live(s, t) # {} /\ PumpOr(Same, s, t) = Rest(s, t)
      \/ /\ Live(s, t) # {} /\ ~Unstarted(Chosen(s, t), s.status[t])
         /\ PumpOr(Same, s, t) = Emitted(s, t)
  BY DEF PumpOr, Same, Rest, Emitted, Chosen, Live
<1> QED
  BY <1>1, PumpParts, KeptSame

(* A failure only records itself and reports itself (fail_create).         *)
LEMMA FailKept ==
  ASSUME NEW s \in CreateState
  PROVE  Kept(s, FailCreate(s)) /\ FailCreate(s).result # "none"
<1>1. CASE s.result # "none"
  BY <1>1, KeptSame DEF FailCreate
<1>2. CASE s.result = "none" /\ ~s.prepared
  BY <1>2 DEF FailCreate, Kept, CreateState
<1>3. CASE s.result = "none" /\ s.prepared
  <2> DEFINE p == [s.pending EXCEPT ![PlanKey] = Append(@, Failed)]
             r == [s EXCEPT !.result = "err", !.pending[PlanKey] = Append(@, Failed)]
  <2>1. PlanKey \in Target /\ s.pending \in [Target -> Seq(Events)] /\ Failed \in Events
    BY DEF Target, CreateState, Failed, Events
  <2>2. p \in [Target -> Seq(Events)]
    BY <2>1
  <2>3. r = [[s EXCEPT !.result = "err"] EXCEPT !.pending = p]
    BY <1>3 DEF CreateState
  <2> HIDE DEF p
  <2>4. r \in CreateState /\ Kept(s, r) /\ r.result = "err"
    BY <1>3, <2>2, <2>3 DEF CreateState, Kept
  <2> HIDE DEF r
  <2>5. FailCreate(s) = PumpOr(Same, r, PlanKey)
    BY <1>3 DEF FailCreate, r
  <2>6. Kept(r, FailCreate(s))
    BY <2>1, <2>4, <2>5, PumpSameKept
  <2>7. FailCreate(s).result = "err"
    BY <2>4, <2>6 DEF Kept
  <2> QED
    BY <2>4, <2>6, <2>7, KeptTrans
<1> QED
  BY <1>1, <1>2, <1>3

(* An event of a target that was never started fails the call.             *)
LEMMA PumpKept ==
  ASSUME NEW s \in CreateState, NEW t \in Target
  PROVE  Kept(s, Pump(s, t))
<1>1. \/ Pump(s, t) = s
      \/ Pump(s, t) = [s EXCEPT !.pending[t] = <<>>]
      \/ Live(s, t) # {} /\ Pump(s, t) = FailCreate(Rest(s, t))
      \/ /\ Live(s, t) # {} /\ ~Unstarted(Chosen(s, t), s.status[t])
         /\ Pump(s, t) = Emitted(s, t)
  BY DEF Pump, PumpOr, Rest, Emitted, Chosen, Live
<1>2. CASE Live(s, t) # {} /\ Pump(s, t) = FailCreate(Rest(s, t))
  <2>1. Kept(s, Rest(s, t))
    BY <1>2, PumpParts
  <2>2. Kept(Rest(s, t), FailCreate(Rest(s, t)))
    BY <2>1, FailKept DEF Kept
  <2> QED
    BY <1>2, <2>1, <2>2, KeptTrans
<1> QED
  BY <1>1, <1>2, PumpParts, KeptSame

(* One event more for a target (enqueue_progress).                         *)
LEMMA EnqueueKept ==
  ASSUME NEW s \in CreateState, NEW t \in Target, NEW e \in Events
  PROVE  Kept(s, Enqueue(s, t, e))
<1> DEFINE r == [s EXCEPT !.pending[t] = Append(@, e)]
           p == [s.pending EXCEPT ![t] = Append(@, e)]
<1>1. s.pending \in [Target -> Seq(Events)]
  BY DEF CreateState
<1>2. p \in [Target -> Seq(Events)]
  BY <1>1
<1>3. r = [s EXCEPT !.pending = p]
  OBVIOUS
<1> HIDE DEF p
<1>4. r \in CreateState /\ Kept(s, r)
  BY <1>2, <1>3 DEF CreateState, Kept
<1> HIDE DEF r
<1>5. Enqueue(s, t, e) = Pump(r, t)
  BY DEF Enqueue, r
<1> QED
  BY <1>4, <1>5, PumpKept, KeptTrans

(* One effect more.                                                        *)
LEMMA EffectType ==
  ASSUME NEW s \in CreateState, NEW x \in Effects
  PROVE  /\ Effect(s, x) \in CreateState
         /\ Effect(s, x) = [s EXCEPT !.effects = s.effects \cup {x}]
         /\ Effect(s, x).effects = s.effects \cup {x}
BY DEF Effect, CreateState

(* It leaves the rest of the state alone.                                  *)
LEMMA EffectFields ==
  ASSUME NEW s \in CreateState, NEW x \in Effects, NEW r, r = Effect(s, x)
  PROVE  /\ r \in CreateState /\ r.effects = s.effects \cup {x}
         /\ r.prepared = s.prepared /\ r.temporary = s.temporary
         /\ r.wanted = s.wanted /\ r.completed = s.completed
         /\ r.next = s.next /\ r.result = s.result
         /\ r.itemRunning = s.itemRunning /\ r.publishing = s.publishing
<1>1. r \in CreateState /\ r = [s EXCEPT !.effects = s.effects \cup {x}]
  BY EffectType
<1> QED
  BY <1>1 DEF CreateState

(* What is tried once something is ready: nothing, the publication after   *)
(* the last item, or the next item whose download is there (advance_items).*)
Publishes(s, r) ==
  /\ ~Stalled(s) /\ s.next > Len(plan)
  /\ r = Effect([s EXCEPT !.publishing = TRUE], [type |-> "PublishInstall"])
Executes(s, r) ==
  /\ ~Stalled(s) /\ ~(s.next > Len(plan)) /\ plan[s.next] \in s.completed
  /\ r = Effect([s EXCEPT !.itemRunning = TRUE], [type |-> "ExecuteItem", index |-> s.next])

(* There is no other case.                                                 *)
LEMMA AdvanceCases ==
  ASSUME NEW s
  PROVE  Advance(s) = s \/ Publishes(s, Advance(s)) \/ Executes(s, Advance(s))
BY DEF Advance, Ready, Publishes, Executes

(* What each of them leaves of the call's state.                           *)
LEMMA AdvanceType ==
  ASSUME NEW s \in CreateState
  PROVE  /\ Advance(s) \in CreateState
         /\ Advance(s).prepared = s.prepared /\ Advance(s).temporary = s.temporary
         /\ Advance(s).wanted = s.wanted /\ Advance(s).completed = s.completed
         /\ Advance(s).next = s.next /\ Advance(s).result = s.result
         /\ Publishes(s, Advance(s)) =>
              /\ Advance(s).publishing /\ Advance(s).itemRunning = s.itemRunning
              /\ Advance(s).effects = s.effects \cup {[type |-> "PublishInstall"]}
         /\ Executes(s, Advance(s)) =>
              /\ Advance(s).itemRunning /\ Advance(s).publishing = s.publishing
              /\ Advance(s).effects =
                   s.effects \cup {[type |-> "ExecuteItem", index |-> s.next]}
<1>1. CASE Advance(s) = s
  <2>1. ~Publishes(s, s)
    BY DEF Publishes, Stalled, Effect, CreateState
  <2>2. ~Executes(s, s)
    BY DEF Executes, Stalled, Effect, CreateState
  <2> QED
    BY <1>1, <2>1, <2>2
<1>2. CASE Publishes(s, Advance(s))
  <2>1. [type |-> "PublishInstall"] \in Effects
    BY DEF Effects, FinishEffects
  <2> DEFINE r == [s EXCEPT !.publishing = TRUE]
  <2>2. /\ r \in CreateState
        /\ r.prepared = s.prepared /\ r.temporary = s.temporary
        /\ r.wanted = s.wanted /\ r.completed = s.completed
        /\ r.next = s.next /\ r.result = s.result
        /\ r.publishing /\ r.itemRunning = s.itemRunning /\ r.effects = s.effects
    BY DEF CreateState
  <2>3. ~Executes(s, Advance(s))
    BY <1>2 DEF Publishes, Executes
  <2> DEFINE x == [type |-> "PublishInstall"]
  <2>4. Advance(s) = Effect(r, x) /\ x \in Effects
    BY <1>2, <2>1 DEF Publishes
  <2>5. r \in CreateState
    BY <2>2
  <2> HIDE DEF r, x
  <2>6. /\ Advance(s) \in CreateState
        /\ Advance(s).effects = r.effects \cup {x}
        /\ Advance(s).prepared = r.prepared /\ Advance(s).temporary = r.temporary
        /\ Advance(s).wanted = r.wanted /\ Advance(s).completed = r.completed
        /\ Advance(s).next = r.next /\ Advance(s).result = r.result
        /\ Advance(s).itemRunning = r.itemRunning /\ Advance(s).publishing = r.publishing
    BY <2>4, <2>5, EffectFields
  <2> QED
    BY <2>2, <2>3, <2>6 DEF x
<1>3. CASE Executes(s, Advance(s))
  <2>1. [type |-> "ExecuteItem", index |-> s.next] \in Effects
    BY DEF Effects, CreateState
  <2> DEFINE r == [s EXCEPT !.itemRunning = TRUE]
  <2>2. /\ r \in CreateState
        /\ r.prepared = s.prepared /\ r.temporary = s.temporary
        /\ r.wanted = s.wanted /\ r.completed = s.completed
        /\ r.next = s.next /\ r.result = s.result
        /\ r.itemRunning /\ r.publishing = s.publishing /\ r.effects = s.effects
    BY DEF CreateState
  <2>3. ~Publishes(s, Advance(s))
    BY <1>3 DEF Publishes, Executes
  <2> DEFINE x == [type |-> "ExecuteItem", index |-> s.next]
  <2>4. Advance(s) = Effect(r, x) /\ x \in Effects
    BY <1>3, <2>1 DEF Executes
  <2>5. r \in CreateState
    BY <2>2
  <2> HIDE DEF r, x
  <2>6. /\ Advance(s) \in CreateState
        /\ Advance(s).effects = r.effects \cup {x}
        /\ Advance(s).prepared = r.prepared /\ Advance(s).temporary = r.temporary
        /\ Advance(s).wanted = r.wanted /\ Advance(s).completed = r.completed
        /\ Advance(s).next = r.next /\ Advance(s).result = r.result
        /\ Advance(s).itemRunning = r.itemRunning /\ Advance(s).publishing = r.publishing
    BY <2>4, <2>5, EffectFields
  <2> QED
    BY <2>2, <2>3, <2>6 DEF x
<1> QED
  BY <1>1, <1>2, <1>3, AdvanceCases

-----------------------------------------------------------------------------
(* The answers of a task.                                                  *)

(* Progress is a message.                                                  *)
LEMMA ChatterMessages == Chatter \subseteq Messages
BY DEF Messages

(* An end alone, after one message or after two is an answer.              *)
LEMMA AnswerOne ==
  ASSUME NEW e, NEW m, EndOf(e, m)
  PROVE  Answer(e, <<m>>)
BY DEF Answer, EndOf

(* An end after one message of progress.                                   *)
LEMMA AnswerTwo ==
  ASSUME NEW e, NEW m, NEW p \in Chatter, EndOf(e, m)
  PROVE  Answer(e, <<p, m>>)
<1>1. m \in Messages /\ p \in Messages
  BY ChatterMessages DEF EndOf
<1>2. <<p, m>> \in Seq(Messages) /\ Len(<<p, m>>) = 2 /\ <<p, m>> # <<>>
  BY <1>1
<1> QED
  BY <1>2 DEF Answer

(* An end after two messages of progress.                                  *)
LEMMA AnswerThree ==
  ASSUME NEW e, NEW m, NEW p \in Chatter, NEW q \in Chatter, EndOf(e, m)
  PROVE  Answer(e, <<p, q, m>>)
<1>1. m \in Messages /\ p \in Messages /\ q \in Messages
  BY ChatterMessages DEF EndOf
<1>2. <<p, q, m>> \in Seq(Messages) /\ Len(<<p, q, m>>) = 3 /\ <<p, q, m>> # <<>>
  BY <1>1
<1> QED
  BY <1>2 DEF Answer

(* Progress may come before any answer.                                    *)
LEMMA AnswerConcat ==
  ASSUME NEW e, NEW c \in Seq(Chatter), NEW a, Answer(e, a)
  PROVE  Answer(e, c \o a)
<1>1. a \in Seq(Messages) /\ c \in Seq(Messages) /\ a # <<>>
  BY ChatterMessages, SeqMonotonic DEF Answer
<1>2. /\ c \o a \in Seq(Messages)
      /\ Len(c \o a) = Len(c) + Len(a)
      /\ \A i \in 1 .. Len(c \o a) :
           (c \o a)[i] = IF i <= Len(c) THEN c[i] ELSE a[i - Len(c)]
  BY <1>1, ConcatProperties
<1>3. Len(a) \in Nat \ {0} /\ Len(c) \in Nat
  BY <1>1, EmptySeq, LenProperties
<1>4. ASSUME NEW i \in 1 .. (Len(c \o a) - 1) PROVE (c \o a)[i] \in Chatter
  <2>1. CASE i <= Len(c)
    BY <1>2, <1>3, <2>1, ElementOfSeq
  <2>2. CASE ~(i <= Len(c))
    <3>1. i - Len(c) \in 1 .. (Len(a) - 1)
      BY <1>2, <1>3, <2>2
    <3> QED
      BY <1>2, <1>3, <2>2, <3>1 DEF Answer
  <2> QED
    BY <2>1, <2>2
<1>5. (c \o a)[Len(c \o a)] = a[Len(a)]
  BY <1>2, <1>3
<1>6. c \o a # <<>>
  BY <1>2, <1>3, EmptySeq
<1> QED
  BY <1>2, <1>4, <1>5, <1>6 DEF Answer

(* An end after any progress is an answer.                                 *)
LEMMA AnswerAppend ==
  ASSUME NEW e, NEW c \in Seq(Chatter), NEW m, EndOf(e, m)
  PROVE  Answer(e, Append(c, m))
<1>1. m \in Messages /\ c \in Seq(Messages)
  BY ChatterMessages, SeqMonotonic DEF EndOf
<1>2. Append(c, m) = c \o <<m>>
  BY <1>1, AppendIsConcat
<1> QED
  BY <1>2, AnswerOne, AnswerConcat

(* What is said of an attempt, and of another holder of a lock.            *)
LEMMA AttemptType ==
  ASSUME NEW t \in Target, NEW ty \in Kinds
  PROVE  Attempt(t, ty) \in Seq(Chatter)
<1>1. Progress(t, Started(ty)) \in Chatter /\ Progress(t, Progressed) \in Chatter
  BY DEF Progress, Chatter, Started, Progressed, Events
<1>2. <<Progress(t, Started(ty))>> \in Seq(Chatter)
  BY <1>1
<1>3. (IF t \in Large THEN <<Progress(t, Progressed)>> ELSE <<>>) \in Seq(Chatter)
  BY <1>1, EmptySeq
<1> QED
  BY <1>2, <1>3, ConcatProperties DEF Attempt

(* A line of a lock file is the status of an attempt of its target or of   *)
(* an item of the plan, or of what the target was found in (observe_holder)*)
LEMMA LineFields ==
  ASSUME plan \in Plans, NEW lock \in Target, NEW m \in Lines(lock)
  PROVE  \E t \in Target, s \in Status :
           /\ m = Observation(t, s) /\ s.ty \in Kinds
           /\ s.tried = 0 => s.st = "Completed"
           /\ lock \in Dl => t = lock
<1>1. Held(lock) \in Kinds /\ "Unpack" \in Kinds
  BY DEF Held, Kinds
<1>2. ASSUME NEW ty \in Kinds, NEW s \in Attempted(ty)
      PROVE  s \in Status /\ s.ty \in Kinds /\ s.tried # 0
  <2>1. s \in [ty : Kinds, st : {"Running"} \cup Terminal, tried : Nat] /\ s.tried # 0
    BY BoundsAssumption DEF Attempted
  <2> QED
    BY <2>1 DEF Status, Kinds
<1>3. ASSUME NEW s, s = Reduced(Cached(Held(lock)), NoStatus)
      PROVE  s \in Status /\ s.ty \in Kinds /\ s.st = "Completed"
  <2>1. s = [ty |-> Held(lock), st |-> "Completed", tried |-> 0]
    BY <1>3 DEF Reduced, Cached
  <2> QED
    BY <1>1, <2>1 DEF Status, Kinds, Terminal
<1>4. CASE \E s \in Attempted(Held(lock)) \cup {Reduced(Cached(Held(lock)), NoStatus)} :
             m = Observation(lock, s)
  BY <1>1, <1>2, <1>3, <1>4
<1>5. CASE \E d \in {x \in Keys \cap Archives : lock = PlanKey}, s \in Attempted("Unpack") :
             m = Observation(d, s)
  <2>1. PICK d \in {x \in Keys \cap Archives : lock = PlanKey}, s \in Attempted("Unpack") :
          m = Observation(d, s)
    BY <1>5
  <2>2. lock \notin Dl /\ d \in Target
    BY ItemsAssumption, PlanKeyAssumption DEF Target
  <2> QED
    BY <1>1, <1>2, <2>1, <2>2
<1> QED
  BY <1>4, <1>5 DEF Lines

(* What is followed of other holders is lines of their lock file.          *)
LEMMA ObservedType ==
  ASSUME plan \in Plans, NEW lock \in Target, NEW a \in ObservedOf(lock)
  PROVE  a \in Seq(Chatter) /\ \A k \in DOMAIN a : a[k] \in Lines(lock)
<1>1. Lines(lock) \subseteq Chatter
  BY LineFields DEF Chatter, Observation
<1>2. CASE a = <<>>
  BY <1>2
<1>3. ASSUME NEW n \in 0 .. MaxSeen, a \in [1 .. n -> Lines(lock)]
      PROVE  a \in Seq(Chatter) /\ \A k \in DOMAIN a : a[k] \in Lines(lock)
  <2>1. n \in Nat /\ a \in [1 .. n -> Chatter]
    BY <1>1, <1>3, BoundsAssumption
  <2> QED
    BY <1>3, <2>1, SeqDef
<1> QED
  BY <1>2, <1>3 DEF ObservedOf

(* A download that had to wait or to transfer (download).                  *)
LEMMA DownloadTriedShape ==
  ASSUME NEW e \in Effects, e.type = "Download", NEW a \in DownloadTried(e.key)
  PROVE  Answer(e, a)
<1> DEFINE d == e.key
           attempt == Attempt(d, "Download")
<1>1. d \in Dl /\ d \in Target /\ "Download" \in Kinds
  BY DEF Effects, Emissions, SetupEffects, FinishEffects, Target, Kinds
<1>2. \A ok \in BOOLEAN : EndOf(e, Downloaded(d, ok))
  BY <1>1 DEF EndOf, Ends, Messages, Downloaded
<1>3. /\ Progress(d, Started("Download")) \in Chatter
      /\ Progress(d, Completed) \in Chatter /\ Progress(d, Failed) \in Chatter
  BY <1>1 DEF Progress, Chatter, Started, Completed, Failed, Events
<1>4. attempt \in Seq(Chatter)
  BY <1>1, AttemptType
<1>5. \/ \E ok \in BOOLEAN : a = <<Downloaded(d, ok)>>
      \/ a = <<Progress(d, Started("Download")), Progress(d, Failed), Downloaded(d, FALSE)>>
      \/ a = attempt \o <<Progress(d, Completed), Downloaded(d, TRUE)>>
      \/ a = attempt \o <<Progress(d, Failed), Downloaded(d, FALSE)>>
      \/ a = Append(attempt, Downloaded(d, FALSE))
  BY DEF DownloadTried
<1> HIDE DEF d, attempt
<1> QED
  BY <1>2, <1>3, <1>4, <1>5, AnswerOne, AnswerTwo, AnswerThree, AnswerConcat, AnswerAppend

(* A download, found or not.                                               *)
LEMMA DownloadShape ==
  ASSUME NEW e \in Effects, e.type = "Download", plan \in Plans,
         NEW a \in DownloadAnswers(e.key)
  PROVE  Answer(e, a)
<1> DEFINE d == e.key
<1>1. d \in Dl /\ d \in Target /\ "Download" \in Kinds
  BY DEF Effects, Emissions, SetupEffects, FinishEffects, Target, Kinds
<1>2. CASE a = DownloadFound(d)
  <2>1. EndOf(e, Downloaded(d, TRUE)) /\ Progress(d, Cached("Download")) \in Chatter
    BY <1>1 DEF EndOf, Ends, Messages, Downloaded, Progress, Chatter, Cached, Events
  <2> QED
    BY <1>2, <2>1, AnswerTwo DEF DownloadFound
<1>3. CASE a # DownloadFound(d)
  <2>1. PICK seen \in ObservedOf(d), x \in DownloadTried(d) : a = seen \o x
    BY <1>3 DEF DownloadAnswers
  <2>2. seen \in Seq(Chatter)
    BY <1>1, ObservedType
  <2> QED
    BY <2>1, <2>2, DownloadTriedShape, AnswerConcat
<1> QED
  BY <1>2, <1>3

(* An item, copied or unpacked (execute_item).                             *)
LEMMA ItemShape ==
  ASSUME NEW e \in Effects, e.type = "ExecuteItem", plan \in Plans,
         e.index \in DOMAIN plan, NEW a \in ExecuteAnswers(e.index)
  PROVE  Answer(e, a)
<1> DEFINE i == e.index
           finished(ok) == [type |-> "ItemFinished", index |-> i, ok |-> ok]
           said(ok) == Progress(plan[i], IF ok THEN Completed ELSE Failed)
           attempt == Attempt(plan[i], "Unpack")
<1>1. i \in Nat /\ plan[i] \in Target /\ "Unpack" \in Kinds
  BY PlansAssumption, ElementOfSeq, LenProperties DEF Target, Kinds
<1>2. \A ok \in BOOLEAN : EndOf(e, finished(ok))
  BY <1>1 DEF EndOf, Ends, Messages
<1>3. \A ok \in BOOLEAN : said(ok) \in Chatter
  BY <1>1 DEF Progress, Chatter, Completed, Failed, Events
<1>4. attempt \in Seq(Chatter)
  BY <1>1, AttemptType
<1>5. \/ a = <<finished(FALSE)>>
      \/ \E ok \in BOOLEAN : a = <<finished(ok)>> \/ a = attempt \o <<said(ok), finished(ok)>>
  BY DEF ExecuteAnswers
<1> HIDE DEF finished, said, attempt
<1> QED
  BY <1>2, <1>3, <1>4, <1>5, AnswerOne, AnswerTwo, AnswerConcat

(* The install lock, with or without waiting (acquire_install).            *)
LEMMA InstallShape ==
  ASSUME NEW e \in Effects, e.type = "AcquireInstall", plan \in Plans,
         NEW a \in InstallAnswers
  PROVE  Answer(e, a)
<1> DEFINE acquired(cached, waited) ==
             [type |-> "InstallAcquired", cached |-> cached, waited |-> waited]
<1>1. PlanKey \in Target
  BY DEF Target
<1>2. /\ \A c, w \in BOOLEAN : EndOf(e, acquired(c, w))
      /\ EndOf(e, Event("EffectFailed"))
  BY DEF EndOf, Ends, Messages, Event
<1> DEFINE lasts == {acquired(cached, TRUE) : cached \in BOOLEAN} \cup {Event("EffectFailed")}
           atOnce == {<<acquired(cached, FALSE)>> : cached \in BOOLEAN}
<1>3. \/ \E seen \in ObservedOf(PlanKey), m \in lasts : a = Append(seen, m)
      \/ a \in atOnce
  <2>1. InstallAnswers =
          {Append(seen, m) : seen \in ObservedOf(PlanKey), m \in lasts}
          \cup atOnce
    BY DEF InstallAnswers
  <2> HIDE DEF lasts, atOnce
  <2> QED
    BY <2>1
<1> HIDE DEF acquired
<1>4. ObservedOf(PlanKey) \subseteq Seq(Chatter)
  BY <1>1, ObservedType
<1>5. /\ \A m \in lasts : EndOf(e, m)
      /\ \A x \in atOnce : Answer(e, x)
  BY <1>2, AnswerOne
<1> HIDE DEF lasts, atOnce
<1> QED
  BY <1>3, <1>4, <1>5, AnswerAppend

(* Every answer of an effect ends with the end of the effect, after        *)
(* progress only.                                                          *)
LEMMA AnswersShape ==
  ASSUME NEW e \in Effects, plan \in Plans,
         e.type = "ExecuteItem" => e.index \in DOMAIN plan, NEW a \in Answers(e)
  PROVE  Answer(e, a)
<1>1. CASE e.type = "Download"
  BY <1>1, DownloadShape DEF Answers
<1>2. CASE e.type = "ExecuteItem"
  BY <1>2, ItemShape DEF Answers
<1>3. CASE e.type = "AcquireInstall"
  BY <1>3, InstallShape DEF Answers
<1>4. CASE e.type \in (SetupEffects \ {"AcquireInstall"}) \cup {"PrepareInstall"}
                      \cup FinishEffects
  <2>1. \E m : a = <<m>> /\ EndOf(e, m)
    BY <1>4 DEF Answers, SetupEffects, FinishEffects, EndOf, Ends, Messages, Event, Result
  <2> QED
    BY <2>1, AnswerOne
<1>5. CASE e.type \in Emissions
  <2>1. e.target \in Target
    BY <1>5 DEF Effects, Emissions, SetupEffects, FinishEffects
  <2>2. \E m : a = <<m>> /\ EndOf(e, m)
    BY <1>5, <2>1 DEF Answers, Emissions, EndOf, Ends, Messages, Told, Applied
  <2> QED
    BY <2>2, AnswerOne
<1> QED
  BY <1>1, <1>2, <1>3, <1>4, <1>5 DEF Effects

(* The first message of an answer ends it or leaves an answer.             *)
LEMMA AnswerHead ==
  ASSUME NEW e, NEW a, Answer(e, a)
  PROVE  /\ Head(a) \in Messages /\ Len(a) \in Nat
         /\ Len(a) = 1 => EndOf(e, Head(a))
         /\ Len(a) # 1 => Head(a) \in Chatter /\ Answer(e, Tail(a)) /\ Tail(a) # <<>>
<1>1. /\ a \in Seq(Messages) /\ a # <<>> /\ Len(a) \in Nat \ {0}
      /\ Head(a) = a[1] /\ Head(a) \in Messages
  BY EmptySeq, LenProperties, HeadTailProperties, ElementOfSeq DEF Answer
<1>2. CASE Len(a) = 1
  BY <1>1, <1>2 DEF Answer
<1>3. CASE Len(a) # 1
  <2>1. Head(a) \in Chatter
    <3> DEFINE n == Len(a)
    <3>1. n \in Nat \ {0} /\ n # 1
      BY <1>1, <1>3
    <3> HIDE DEF n
    <3>2. 1 \in 1 .. (n - 1)
      BY <3>1
    <3> QED
      BY <1>1, <3>2 DEF Answer, n
  <2>2. /\ Tail(a) \in Seq(Messages) /\ Len(Tail(a)) = Len(a) - 1
        /\ \A i \in 1 .. Len(Tail(a)) : Tail(a)[i] = a[i + 1]
    BY <1>1, HeadTailProperties
  <2>3. Tail(a) # <<>>
    BY <1>1, <1>3, <2>2
  <2>4. \A i \in 1 .. (Len(Tail(a)) - 1) : Tail(a)[i] \in Chatter
    <3> TAKE i \in 1 .. (Len(Tail(a)) - 1)
    <3>1. i \in 1 .. Len(Tail(a)) /\ i + 1 \in 1 .. (Len(a) - 1)
      BY <1>1, <2>2
    <3> QED
      BY <2>2, <3>1 DEF Answer
  <2>5. Tail(a)[Len(Tail(a))] = a[Len(a)]
    BY <1>1, <1>3, <2>2
  <2> QED
    BY <2>1, <2>2, <2>3, <2>4, <2>5 DEF Answer
<1> QED
  BY <1>1, <1>2, <1>3

-----------------------------------------------------------------------------
(* The channel: one message more, one message heard.                       *)

(* One message more.                                                       *)
LEMMA QueueAppend ==
  ASSUME queue \in Seq(Messages), NEW m \in Messages, queue' = Append(queue, m)
  PROVE  /\ queue' \in Seq(Messages)
         /\ Queued' = Queued \cup {m}
         /\ \A types : Once(types) /\ (m.type \in types => Answered(types) = {}) =>
                         Once(types)'
<1>1. /\ queue' \in Seq(Messages) /\ Len(queue) \in Nat
      /\ DOMAIN queue = 1 .. Len(queue) /\ DOMAIN queue' = 1 .. (Len(queue) + 1)
      /\ \A i \in 1 .. Len(queue) : queue'[i] = queue[i]
      /\ queue'[Len(queue) + 1] = m
  BY AppendProperties, LenProperties
<1>2. Queued' = Queued \cup {m}
  BY <1>1 DEF Queued
<1>3. ASSUME NEW types, Once(types), m.type \in types => Answered(types) = {}
      PROVE  Once(types)'
  <2> SUFFICES ASSUME NEW i \in DOMAIN queue', NEW j \in DOMAIN queue',
                      queue'[i].type \in types, queue'[j].type \in types
               PROVE  i = j
    BY DEF Once
  <2>1. CASE i \in DOMAIN queue /\ j \in DOMAIN queue
    BY <1>1, <1>3, <2>1 DEF Once
  <2>2. CASE i = Len(queue) + 1 \/ j = Len(queue) + 1
    <3>1. Answered(types) = {}
      BY <1>1, <1>3, <2>2
    <3>2. \A k \in DOMAIN queue : queue'[k].type \notin types
      BY <1>1, <3>1 DEF Answered, Queued
    <3> QED
      BY <1>1, <3>2
  <2> QED
    BY <1>1, <2>1, <2>2
<1> QED
  BY <1>1, <1>2, <1>3

(* One message heard.                                                      *)
LEMMA QueueTail ==
  ASSUME queue \in Seq(Messages), queue # <<>>, queue' = Tail(queue)
  PROVE  /\ queue' \in Seq(Messages)
         /\ Head(queue) \in Messages /\ Head(queue) \in Queued
         /\ Queued' \subseteq Queued
         /\ \A types : Once(types) => Once(types)'
         /\ \A types : Once(types) /\ Head(queue).type \in types => Answered(types)' = {}
<1>1. /\ queue' \in Seq(Messages) /\ Len(queue) \in Nat \ {0}
      /\ DOMAIN queue = 1 .. Len(queue) /\ DOMAIN queue' = 1 .. (Len(queue) - 1)
      /\ \A i \in DOMAIN queue' : queue'[i] = queue[i + 1]
      /\ Head(queue) = queue[1] /\ Head(queue) \in Messages
  BY EmptySeq, HeadTailProperties, LenProperties, ElementOfSeq
<1>2. \A i \in DOMAIN queue' : i + 1 \in DOMAIN queue /\ i + 1 # 1
  BY <1>1
<1>3. Head(queue) \in Queued /\ 1 \in DOMAIN queue
  BY <1>1 DEF Queued
<1>4. Queued' \subseteq Queued
  BY <1>1, <1>2 DEF Queued
<1>5. ASSUME NEW types, Once(types) PROVE Once(types)'
  <2> SUFFICES ASSUME NEW i \in DOMAIN queue', NEW j \in DOMAIN queue',
                      queue'[i].type \in types, queue'[j].type \in types
               PROVE  i = j
    BY DEF Once
  <2>1. i + 1 = j + 1
    BY <1>1, <1>2, <1>5 DEF Once
  <2> QED
    BY <1>1, <2>1
<1>6. ASSUME NEW types, Once(types), Head(queue).type \in types
      PROVE  Answered(types)' = {}
  <2>1. \A i \in DOMAIN queue' : queue'[i].type \notin types
    BY <1>1, <1>2, <1>3, <1>6 DEF Once
  <2> QED
    BY <2>1 DEF Answered, Queued
<1> QED
  BY <1>1, <1>3, <1>4, <1>5, <1>6

-----------------------------------------------------------------------------
(* What a step leaves alone.                                               *)

Unmoved ==
  /\ state'.prepared = state.prepared /\ state'.temporary = state.temporary
  /\ state'.wanted = state.wanted /\ state'.completed = state.completed
  /\ state'.next = state.next /\ state'.itemRunning = state.itemRunning
  /\ state'.publishing = state.publishing

(* A step that only carries progress, fails the call, or ends an emission. *)
Calm ==
  /\ UNCHANGED <<plan, world>>
  /\ Unmoved
  /\ state'.result = state.result \/ state'.result = "err" \/ world.registered
  /\ \A e \in Running' : e \in Running \/ e.type \in Emissions
  /\ \A m \in Queued' : m \in Queued \/ m.type \in Side

(* Emissions and their answers are of no other kind.                       *)
LEMMA EmissionsApart ==
  /\ Emissions \cap (SetupEffects \cup FinishEffects
                     \cup {"Download", "PrepareInstall", "ExecuteItem"}) = {}
  /\ Side \cap (SetupMessages \cup FinishMessages
                \cup {"DownloadFinished", "InstallPrepared", "ItemFinished"}) = {}
BY DEF Emissions, SetupEffects, FinishEffects, Side, SetupMessages, FinishMessages

(* What may run and be heard of is the same after it.                      *)
LEMMA CalmOnly ==
  ASSUME NEW effects, NEW messages, Calm, Only(effects, messages)
  PROVE  Only(effects, messages)'
BY DEF Calm, Only

(* No other effect runs and nothing else is heard of.                      *)
LEMMA CalmDoing ==
  ASSUME Calm
  PROVE  /\ \A types : types \cap Emissions = {} => Doing(types)' \subseteq Doing(types)
         /\ \A types : types \cap Side = {} => Answered(types)' \subseteq Answered(types)
BY DEF Calm, Doing, Answered

(* It keeps every part of the invariant.                                   *)
LEMMA CalmStill ==
  ASSUME Calm, SetupInv, DownloadInv, StageInv, ItemInv, FinishInv, PhaseInv
  PROVE  SetupInv' /\ DownloadInv' /\ StageInv' /\ ItemInv' /\ FinishInv' /\ PhaseInv'
<1>1. /\ Doing(SetupEffects)' \subseteq Doing(SetupEffects)
      /\ Doing(FinishEffects)' \subseteq Doing(FinishEffects)
      /\ Doing({"Download"})' \subseteq Doing({"Download"})
      /\ Doing({"PrepareInstall"})' \subseteq Doing({"PrepareInstall"})
      /\ Doing({"ExecuteItem"})' \subseteq Doing({"ExecuteItem"})
      /\ Answered(SetupMessages)' \subseteq Answered(SetupMessages)
      /\ Answered(FinishMessages)' \subseteq Answered(FinishMessages)
      /\ Answered({"DownloadFinished"})' \subseteq Answered({"DownloadFinished"})
      /\ Answered({"InstallPrepared"})' \subseteq Answered({"InstallPrepared"})
      /\ Answered({"ItemFinished"})' \subseteq Answered({"ItemFinished"})
  BY CalmDoing, EmissionsApart
<1>2. /\ UNCHANGED <<plan, world>> /\ Unmoved /\ Keys' = Keys
      /\ state'.result = "ok" => state.result = "ok" \/ world.registered
  BY DEF Calm, Keys
<1>3. SetupInv'
  <2>1. ~state.prepared => Only(SetupEffects, SetupMessages)'
    BY CalmOnly DEF SetupInv
  <2>2. \A m \in Queued' :
          m.type \in {"RequestLockAcquired", "Prepared", "InstallAcquired"} => m \in Queued
    BY DEF Calm, Side
  <2> QED
    BY <1>1, <1>2, <2>1, <2>2 DEF SetupInv, Unmoved
<1>4. DownloadInv'
  BY <1>1, <1>2 DEF DownloadInv, Unmoved
<1>5. StageInv'
  BY <1>1, <1>2 DEF StageInv, Unmoved
<1>6. ItemInv'
  BY <1>1, <1>2 DEF ItemInv, Unmoved
<1>7. FinishInv'
  <2>1. \A m \in Queued' : m.type \in {"Published", "Registered"} => m \in Queued
    BY DEF Calm, Side
  <2> QED
    BY <1>1, <1>2, <2>1 DEF FinishInv, Unmoved
<1>8. PhaseInv'
  BY <1>2, CalmOnly DEF PhaseInv, Unmoved
<1> QED
  BY <1>3, <1>4, <1>5, <1>6, <1>7, <1>8

(* The reducer's next state is stored, and its effects are started.        *)
Begun(s, others) ==
  /\ state' \in CreateState /\ state'.effects = {}
  /\ state'.prepared = s.prepared /\ state'.temporary = s.temporary
  /\ state'.wanted = s.wanted /\ state'.completed = s.completed
  /\ state'.next = s.next /\ state'.itemRunning = s.itemRunning
  /\ state'.publishing = s.publishing /\ state'.result = s.result
  /\ tasks' \subseteq Tasks
  /\ \A t \in tasks' : t.left # <<>> => Answer(t.effect, t.left)
  /\ Running' = {t.effect : t \in others} \cup s.effects
  /\ UNCHANGED <<plan, returned, sent, world>>

(* So it is whatever the reducer answered.                                 *)
LEMMA BecomeStarts ==
  ASSUME Types, NEW s \in CreateState, NEW others \in SUBSET tasks, Become(s, others)
  PROVE  Begun(s, others)
<1>1. state' = [s EXCEPT !.effects = {}]
  BY DEF Become
<1>2. /\ state' \in CreateState /\ state'.effects = {}
      /\ state'.prepared = s.prepared /\ state'.temporary = s.temporary
      /\ state'.wanted = s.wanted /\ state'.completed = s.completed
      /\ state'.next = s.next /\ state'.itemRunning = s.itemRunning
      /\ state'.publishing = s.publishing /\ state'.result = s.result
  BY <1>1 DEF CreateState
<1>3. s.effects \subseteq Effects
  BY DEF CreateState
<1>4. tasks' = others \cup {[effect |-> e, left |-> <<>>] : e \in s.effects}
  BY DEF Become
<1>5. \A e \in s.effects : [effect |-> e, left |-> <<>>] \in Tasks
  BY <1>3, EmptySeq DEF Tasks
<1>6. /\ tasks' \subseteq Tasks
      /\ \A t \in tasks' : t.left # <<>> => Answer(t.effect, t.left)
  BY <1>4, <1>5 DEF Types
<1>7. Running' = {t.effect : t \in others} \cup s.effects
  <2> DEFINE new == {[effect |-> e, left |-> <<>>] : e \in s.effects}
  <2>1. {t.effect : t \in new} = s.effects
    <3>1. \A e \in s.effects : [effect |-> e, left |-> <<>>].effect = e
      OBVIOUS
    <3> QED
      BY <3>1
  <2> HIDE DEF new
  <2>2. Running' = {t.effect : t \in others \cup new}
    BY <1>4 DEF Running, new
  <2> QED
    BY <2>1, <2>2
<1> QED
  BY <1>2, <1>6, <1>7 DEF Begun, Become

(* No effect it starts has a rival.                                        *)
LEMMA BecomeLone ==
  ASSUME NEW s, NEW others \in SUBSET tasks, Become(s, others), Lone,
         \A e, f \in s.effects : Rival(e, f) => e = f,
         \A e \in s.effects, t \in others : ~Rival(e, t.effect) /\ ~Rival(t.effect, e)
  PROVE  Lone'
<1>1. tasks' = others \cup {[effect |-> e, left |-> <<>>] : e \in s.effects}
  BY DEF Become
<1> SUFFICES ASSUME NEW t \in tasks', NEW u \in tasks', Rival(t.effect, u.effect)
             PROVE  t = u
  BY DEF Lone
<1>2. CASE t \in others /\ u \in others
  BY <1>2 DEF Lone
<1>3. ASSUME NEW e \in s.effects, t = [effect |-> e, left |-> <<>>], u \in others
      PROVE  FALSE
  BY <1>3
<1>4. ASSUME NEW e \in s.effects, u = [effect |-> e, left |-> <<>>], t \in others
      PROVE  FALSE
  BY <1>4
<1>5. ASSUME NEW e \in s.effects, NEW f \in s.effects,
             t = [effect |-> e, left |-> <<>>], u = [effect |-> f, left |-> <<>>]
      PROVE  t = u
  BY <1>5
<1> QED
  BY <1>1, <1>2, <1>3, <1>4, <1>5

-----------------------------------------------------------------------------
(* A step of a task.                                                       *)

Continues(t, m) ==
  /\ m \in Chatter
  /\ \E u \in Tasks : /\ u.effect = t.effect /\ u.left # <<>> /\ Answer(u.effect, u.left)
                      /\ tasks' = (tasks \ {t}) \cup {u}
Finishes(t, m) == EndOf(t.effect, m) /\ tasks' = tasks \ {t}

(* A task says something on the way, or ends its effect.                   *)
LEMMA TaskStep ==
  ASSUME Types, ItemInv, NEW t \in tasks, RunTask(t)
  PROVE  /\ \E m \in Messages : /\ queue' = Append(queue, m) /\ world' = Done(m)
                                /\ Continues(t, m) \/ Finishes(t, m)
         /\ UNCHANGED <<plan, state, returned, faults>>
         /\ sent' \in [Target -> Status]
<1>1. /\ t \in Tasks /\ t.effect \in Effects /\ t.left \in Seq(Messages)
      /\ t.effect \in Running
  BY DEF Types, Tasks, Running
<1>2. PICK a \in (IF t.left = <<>> THEN Answers(t.effect) ELSE {t.left}) :
        /\ queue' = Append(queue, Head(a))
        /\ tasks' = (tasks \ {t}) \cup
                      (IF Len(a) = 1 THEN {} ELSE {[t EXCEPT !.left = Tail(a)]})
        /\ world' = Done(Head(a))
  BY DEF RunTask
<1>3. Answer(t.effect, a)
  <2>1. CASE t.left = <<>>
    <3>1. t.effect.type = "ExecuteItem" => t.effect.index \in DOMAIN plan
      BY <1>1 DEF ItemInv, Doing
    <3> QED
      BY <1>1, <1>2, <2>1, <3>1, AnswersShape DEF Types
  <2>2. CASE t.left # <<>>
    BY <1>2, <2>2 DEF Types
  <2> QED
    BY <2>1, <2>2
<1>4. Continues(t, Head(a)) \/ Finishes(t, Head(a))
  <2>1. CASE Len(a) = 1
    BY <1>2, <1>3, <2>1, AnswerHead DEF Finishes
  <2>2. CASE Len(a) # 1
    <3> DEFINE u == [t EXCEPT !.left = Tail(a)]
    <3>1. Head(a) \in Chatter /\ Answer(t.effect, Tail(a)) /\ Tail(a) # <<>>
      BY <1>3, <2>2, AnswerHead
    <3>2. u \in Tasks /\ u.effect = t.effect /\ u.left = Tail(a)
      BY <1>1, <3>1 DEF Tasks, Answer
    <3>3. tasks' = (tasks \ {t}) \cup {u}
      BY <1>2, <2>2
    <3> HIDE DEF u
    <3> QED
      BY <3>1, <3>2, <3>3 DEF Continues
  <2> QED
    BY <2>1, <2>2
<1>5. Head(a) \in Messages
  BY <1>3, AnswerHead
<1>6. sent' \in [Target -> Status]
  <2>1. Emitting(t) => t.effect.target \in Target /\ t.effect.status \in Status
    BY <1>1 DEF Emitting, Effects, SetupEffects, FinishEffects
  <2> QED
    BY <2>1 DEF RunTask, Types
<1> QED
  BY <1>2, <1>4, <1>5, <1>6 DEF RunTask

(* The world stays a world.                                                *)
World == [fetched : SUBSET Dl, staged : BOOLEAN, executed : Nat,
          published : BOOLEAN, registered : BOOLEAN]

(* What a message says was done leaves a world; most say nothing.          *)
LEMMA DoneType ==
  ASSUME world \in World, NEW m \in Messages
  PROVE  /\ Done(m) \in World
         /\ m.type \in Side \cup {"RequestLockAcquired", "EffectFailed", "Prepared"} =>
              Done(m) = world
<1>1. CASE m.type \in Side \cup {"RequestLockAcquired", "EffectFailed", "Prepared"}
  BY <1>1 DEF Done, Side
<1>2. CASE m.type = "InstallAcquired"
  <2>1. m.cached \in BOOLEAN
    BY <1>2 DEF Messages, Chatter, Told
  <2> QED
    BY <1>2, <2>1 DEF Done, World, Side
<1>3. CASE m.type = "DownloadFinished"
  <2>1. m.key \in Dl /\ m.ok \in BOOLEAN
    BY <1>3 DEF Messages, Chatter, Told
  <2> QED
    BY <1>3, <2>1 DEF Done, World, Side
<1>4. CASE m.type \in {"InstallPrepared", "ItemFinished", "Published", "Registered"}
  <2>1. m.ok \in BOOLEAN
    BY <1>4 DEF Messages, Chatter, Told
  <2> QED
    BY <1>4, <2>1 DEF Done, World, Side
<1> QED
  BY <1>1, <1>2, <1>3, <1>4 DEF Messages, Chatter, Told, Side

(* A step of a task keeps the types.                                       *)
LEMMA TaskTypes ==
  ASSUME Types, ItemInv, NEW t \in tasks, RunTask(t)
  PROVE  Types'
<1>1. PICK m \in Messages : /\ queue' = Append(queue, m) /\ world' = Done(m)
                            /\ Continues(t, m) \/ Finishes(t, m)
  BY TaskStep
<1>2. /\ UNCHANGED <<plan, state, returned, faults>> /\ sent' \in [Target -> Status]
  BY TaskStep
<1>3. queue' \in Seq(Messages)
  BY <1>1, QueueAppend DEF Types
<1>4. world' \in World
  BY <1>1, DoneType DEF Types, World
<1>5. /\ tasks' \subseteq Tasks
      /\ \A u \in tasks' : u.left # <<>> => Answer(u.effect, u.left)
  BY <1>1 DEF Types, Continues, Finishes
<1> QED
  BY <1>2, <1>3, <1>4, <1>5 DEF Types, World

(* Progress on the way: nothing else changes.                              *)
LEMMA TaskContinues ==
  ASSUME Types, LoneInv, NEW t \in tasks, NEW m \in Messages,
         queue' = Append(queue, m), world' = Done(m), Continues(t, m),
         UNCHANGED <<plan, state, returned, faults>>
  PROVE  Calm /\ LoneInv'
<1>1. PICK u \in Tasks : u.effect = t.effect /\ tasks' = (tasks \ {t}) \cup {u}
  BY DEF Continues
<1>2. m.type \in Side
  BY DEF Continues, Chatter, Side
<1>3. Running' \subseteq Running
  BY <1>1 DEF Running
<1>4. world' = world /\ Queued' = Queued \cup {m}
  BY <1>2, DoneType, QueueAppend DEF Types, World
<1>5. Calm
  BY <1>2, <1>3, <1>4 DEF Calm, Unmoved
<1>6. Lone'
  BY <1>1 DEF LoneInv, Lone
<1>7. Once(SetupMessages)' /\ Once({"ItemFinished"})' /\ Once(FinishMessages)'
  BY <1>2, QueueAppend, EmissionsApart DEF LoneInv, Types
<1> QED
  BY <1>5, <1>6, <1>7 DEF LoneInv

(* The end of a task: its effect no longer runs, nor does a rival.         *)
LEMMA TaskEnds ==
  ASSUME Types, LoneInv, NEW t \in tasks, tasks' = tasks \ {t}
  PROVE  /\ Running' \subseteq Running /\ Lone' /\ t.effect \in Running
         /\ \A e \in Running' : ~Rival(e, t.effect)
BY DEF Running, LoneInv, Lone

(* How each effect ends.                                                   *)
LEMMA EndTypes ==
  ASSUME NEW e \in Effects, NEW m, EndOf(e, m)
  PROVE  /\ e.type \in SetupEffects => m.type \in SetupMessages
         /\ e.type = "Download" => m.type = "DownloadFinished"
         /\ e.type = "PrepareInstall" => m.type = "InstallPrepared"
         /\ e.type = "ExecuteItem" => m.type = "ItemFinished"
         /\ e.type = "PublishInstall" => m.type = "Published"
         /\ e.type = "Register" => m.type = "Registered"
         /\ e.type \in Emissions => m.type \in Side
         /\ m.type \in SetupMessages => e.type \in SetupEffects
         /\ m.type = "ItemFinished" => e.type = "ExecuteItem"
         /\ m.type \in FinishMessages => e.type \in FinishEffects
<1> USE DEF EndOf, SetupEffects, SetupMessages, FinishEffects, FinishMessages, Emissions,
            Side
<1>1. CASE e.type = "AcquireRequestLock"
  BY <1>1 DEF Ends
<1>2. CASE e.type \in {"PersistRequest", "Prepare"}
  BY <1>2 DEF Ends
<1>3. CASE e.type = "AcquireInstall"
  BY <1>3 DEF Ends
<1>4. CASE e.type = "Download"
  BY <1>4 DEF Ends
<1>5. CASE e.type = "PrepareInstall"
  BY <1>5 DEF Ends
<1>6. CASE e.type = "ExecuteItem"
  BY <1>6 DEF Ends
<1>7. CASE e.type = "PublishInstall"
  BY <1>7 DEF Ends
<1>8. CASE e.type = "Register"
  BY <1>8 DEF Ends
<1>9. CASE e.type \in Emissions
  BY <1>9 DEF Ends
<1> QED
  BY <1>1, <1>2, <1>3, <1>4, <1>5, <1>6, <1>7, <1>8, <1>9 DEF Effects

(* What the end of any task leaves true.                                   *)
Ended(t, m) ==
  /\ Types /\ Inv /\ t \in tasks /\ m \in Messages /\ EndOf(t.effect, m)
  /\ tasks' = tasks \ {t} /\ queue' = Append(queue, m) /\ world' = Done(m)
  /\ UNCHANGED <<plan, state, returned, faults>>

(* In short: one message more, one effect less, the reducer's state as is. *)
LEMMA EndedFrame ==
  ASSUME NEW t, NEW m, Ended(t, m)
  PROVE  /\ Running' \subseteq Running /\ t.effect \in Running /\ t.effect \in Effects
         /\ \A e \in Running' : ~Rival(e, t.effect)
         /\ Queued' = Queued \cup {m} /\ world \in World
         /\ \A types : Doing(types)' \subseteq Doing(types)
         /\ \A types : m.type \notin types => Answered(types)' = Answered(types)
         /\ Unmoved /\ Keys' = Keys /\ ReturnInv' /\ LoneInv'
<1>1. /\ Running' \subseteq Running /\ Lone' /\ t.effect \in Running
      /\ \A e \in Running' : ~Rival(e, t.effect)
  BY TaskEnds DEF Ended, Inv
<1>2. /\ Queued' = Queued \cup {m} /\ world \in World /\ t.effect \in Effects
      /\ \A types : Once(types) /\ (m.type \in types => Answered(types) = {}) => Once(types)'
  BY QueueAppend DEF Ended, Types, World, Tasks
<1>3. Unmoved /\ Keys' = Keys
  BY DEF Ended, Unmoved, Keys
<1>4. ReturnInv'
  BY DEF Ended, Inv, ReturnInv
<1>5. LoneInv'
  <2>1. m.type \in SetupMessages => t.effect.type \in SetupEffects
    BY <1>2, EndTypes DEF Ended
  <2>2. m.type = "ItemFinished" => t.effect.type = "ExecuteItem"
    BY <1>2, EndTypes DEF Ended
  <2>3. m.type \in FinishMessages => t.effect.type \in FinishEffects
    BY <1>2, EndTypes DEF Ended
  <2>4. m.type \in SetupMessages => Answered(SetupMessages) = {}
    BY <1>1, <2>1 DEF Ended, Inv, SetupInv, Doing
  <2>5. m.type \in {"ItemFinished"} => Answered({"ItemFinished"}) = {}
    BY <1>1, <2>2 DEF Ended, Inv, ItemInv, Doing
  <2>6. m.type \in FinishMessages => Answered(FinishMessages) = {}
    BY <1>1, <2>3 DEF Ended, Inv, FinishInv, Doing
  <2> QED
    BY <1>1, <1>2, <2>4, <2>5, <2>6 DEF Ended, Inv, LoneInv
<1>6. /\ \A types : Doing(types)' \subseteq Doing(types)
      /\ \A types : m.type \notin types => Answered(types)' = Answered(types)
  BY <1>1, <1>2 DEF Doing, Answered
<1> QED
  BY <1>1, <1>2, <1>3, <1>4, <1>5, <1>6

(* The setup: a lock that is taken or a plan that is read.                 *)
LEMMA SetupEnds ==
  ASSUME NEW t, NEW m, Ended(t, m), t.effect.type \in SetupEffects
  PROVE  /\ Inv'
         /\ world.fetched = {} /\ ~world.staged /\ ~world.published
         /\ world' = world \/ world' = [world EXCEPT !.published = TRUE]
<1>1. m.type \in SetupMessages
  BY EndedFrame, EndTypes DEF Ended
<1>2. t.effect \in Doing(SetupEffects)
  BY EndedFrame DEF Doing
<1>3. /\ ~state.prepared /\ ~world.published /\ Only(SetupEffects, SetupMessages)
      /\ ~state.temporary /\ ~state.itemRunning /\ ~state.publishing
      /\ state.wanted = {} /\ state.completed = {} /\ state.next = 1
      /\ world.fetched = {} /\ ~world.staged /\ world.executed = 0 /\ ~world.registered
      /\ Answered(SetupMessages) = {} /\ state.result # "ok"
  BY <1>2 DEF Ended, Inv, SetupInv, FinishInv
<1>4. Doing(SetupEffects)' = {}
  BY EndedFrame DEF Doing, Rival
<1>5. /\ world'.fetched = {} /\ ~world'.staged /\ world'.executed = 0
      /\ ~world'.registered
      /\ m.type = "InstallAcquired" => world'.published = m.cached
      /\ m.type # "InstallAcquired" => ~world'.published
      /\ world' = world \/ world' = [world EXCEPT !.published = TRUE]
  <2>1. CASE m.type = "InstallAcquired"
    <3>1. m.cached \in BOOLEAN
      BY <2>1 DEF Ended, Messages, Chatter, Told
    <3>2. world' = [world EXCEPT !.published = m.cached]
      BY <2>1 DEF Ended, Done
    <3>3. ~m.cached => world' = world
      BY <1>3, <3>1, <3>2, EndedFrame DEF World
    <3> QED
      BY <1>3, <2>1, <3>1, <3>2, <3>3, EndedFrame DEF World
  <2>2. CASE m.type # "InstallAcquired"
    <3>1. world' = world
      BY <1>1, <2>2, DoneType, EndedFrame DEF Ended, SetupMessages
    <3> QED
      BY <1>3, <2>2, <3>1
  <2> QED
    BY <2>1, <2>2
<1>6. Only(SetupEffects, SetupMessages)'
  BY <1>1, <1>3, EndedFrame DEF Only
<1>7. \A x \in Queued : x.type \notin SetupMessages
  BY <1>3 DEF Answered
<1>8. SetupInv'
  <2>1. \A x \in Queued' : x.type \in SetupMessages => x = m
    BY <1>7, EndedFrame
  <2> QED
    BY <1>3, <1>4, <1>5, <1>6, <2>1, EndedFrame DEF SetupInv, Unmoved, SetupMessages
<1>9. /\ \A x \in Queued' : x.type \in SetupMessages \cup Side
      /\ \A e \in Running' : e.type \in Emissions
  BY <1>4, <1>6 DEF Only, Doing
<1>10. /\ Answered({"DownloadFinished"})' = {} /\ Answered({"InstallPrepared"})' = {}
       /\ Answered({"ItemFinished"})' = {} /\ Answered(FinishMessages)' = {}
       /\ Doing({"Download"})' = {} /\ Doing({"PrepareInstall"})' = {}
       /\ Doing({"ExecuteItem"})' = {} /\ Doing(FinishEffects)' = {}
  BY <1>9 DEF Answered, Doing, SetupMessages, Side, FinishMessages, Emissions, FinishEffects
<1>11. DownloadInv'
  BY <1>3, <1>5, <1>10, EndedFrame DEF DownloadInv, Unmoved
<1>12. StageInv'
  BY <1>3, <1>5, <1>10, EndedFrame DEF StageInv, Unmoved
<1>13. ItemInv'
  <2>1. plan' = plan /\ ItemInv
    BY DEF Ended, Inv
  <2> QED
    BY <1>3, <1>5, <1>10, <2>1, EndedFrame DEF ItemInv, Unmoved
<1>14. FinishInv'
  <2>1. \A x \in Queued' : x.type \notin {"Published", "Registered"}
    BY <1>9 DEF SetupMessages, Side
  <2>2. state' = state
    BY DEF Ended
  <2> QED
    BY <1>3, <1>10, <2>1, <2>2, EndedFrame DEF FinishInv, Unmoved
<1>15. PhaseInv'
  BY <1>3, EndedFrame DEF PhaseInv, Unmoved
<1> QED
  BY <1>3, <1>5, <1>8, <1>11, <1>12, <1>13, <1>14, <1>15, EndedFrame DEF Inv

(* What the setup does to the world: nothing, or find the installation.    *)
LEMMA SetupReuses ==
  ASSUME NEW t, NEW m, Ended(t, m), t.effect.type \in SetupEffects
  PROVE  Inv' /\ (world' = world \/ Build!Reuse)
<1>1. /\ Inv' /\ world.fetched = {} /\ ~world.staged /\ ~world.published
      /\ world' = world \/ world' = [world EXCEPT !.published = TRUE]
      /\ world \in World
  BY SetupEnds, EndedFrame
<1>2. CASE world' = [world EXCEPT !.published = TRUE]
  BY <1>1, <1>2 DEF Build!Reuse, World
<1> QED
  BY <1>1, <1>2

(* A build effect runs in the build phase, before anything is published.   *)
LEMMA Building ==
  ASSUME Inv, NEW e \in Running, e.type \in {"Download", "PrepareInstall", "ExecuteItem"}
  PROVE  /\ state.prepared /\ ~state.publishing /\ ~world.published /\ ~world.registered
         /\ Only({"Download", "PrepareInstall", "ExecuteItem"},
                 {"DownloadFinished", "InstallPrepared", "ItemFinished"})
         /\ Doing(FinishEffects) = {}
         /\ \A m \in Queued : m.type \notin FinishMessages \cup SetupMessages
<1>1. e.type \notin SetupEffects \cup FinishEffects \cup Emissions
  BY DEF SetupEffects, FinishEffects, Emissions
<1>2. /\ state.prepared /\ ~state.publishing /\ ~world.published /\ ~world.registered
      /\ Only({"Download", "PrepareInstall", "ExecuteItem"},
              {"DownloadFinished", "InstallPrepared", "ItemFinished"})
  BY <1>1 DEF Inv, SetupInv, PhaseInv, Only, FinishEffects
<1>3. Doing(FinishEffects) = {}
  BY <1>2 DEF Only, Doing, FinishEffects, Emissions
<1>4. \A m \in Queued : m.type \notin FinishMessages \cup SetupMessages
  BY <1>2 DEF Only, FinishMessages, SetupMessages, Side
<1> QED
  BY <1>2, <1>3, <1>4

(* What the end of a build effect leaves of the other invariants.          *)
LEMMA BuildingStill ==
  ASSUME NEW t, NEW m, Ended(t, m),
         t.effect.type \in {"Download", "PrepareInstall", "ExecuteItem"},
         world'.published = world.published, world'.registered = world.registered
  PROVE  SetupInv' /\ FinishInv' /\ PhaseInv'
<1>1. /\ state.prepared /\ ~state.publishing /\ ~world.published /\ ~world.registered
      /\ Only({"Download", "PrepareInstall", "ExecuteItem"},
              {"DownloadFinished", "InstallPrepared", "ItemFinished"})
      /\ Doing(FinishEffects) = {}
      /\ \A x \in Queued : x.type \notin FinishMessages \cup SetupMessages
  BY EndedFrame, Building DEF Ended
<1>2. m.type \in {"DownloadFinished", "InstallPrepared", "ItemFinished"}
  BY EndedFrame, EndTypes DEF Ended
<1>3. m.type \notin FinishMessages \cup SetupMessages
  BY <1>2 DEF FinishMessages, SetupMessages
<1>4. SetupInv'
  BY <1>1, <1>3, EndedFrame DEF Ended, Inv, SetupInv, Unmoved
<1>5. Only({"Download", "PrepareInstall", "ExecuteItem"},
           {"DownloadFinished", "InstallPrepared", "ItemFinished"})'
  BY <1>1, <1>2, EndedFrame DEF Only
<1>6. PhaseInv'
  BY <1>1, <1>5, EndedFrame DEF PhaseInv, Unmoved
<1>7. /\ Doing(FinishEffects)' = {} /\ state' = state
      /\ \A x \in Queued' : x.type \notin FinishMessages
  BY <1>1, <1>3, EndedFrame DEF Ended
<1>8. FinishInv'
  BY <1>1, <1>7 DEF Ended, Inv, FinishInv, FinishMessages
<1> QED
  BY <1>4, <1>6, <1>8

(* The end of a download: the object is there, or not.                     *)
LEMMA DownloadEnds ==
  ASSUME NEW t, NEW m, Ended(t, m), t.effect.type = "Download"
  PROVE  Inv' /\ (world' = world \/ Build!Fetch)
<1> DEFINE d == t.effect.key
<1>1. /\ m.type = "DownloadFinished" /\ m.key = d /\ m.ok \in BOOLEAN
      /\ m.type \notin {"InstallPrepared"} /\ m.type \notin {"ItemFinished"}
  BY EndedFrame, EndTypes DEF Ended, EndOf, Messages, Chatter, Told
<1>2. d \in Keys \ state.completed /\ d \in Dl
  BY EndedFrame DEF Ended, Inv, DownloadInv, Doing, Effects, SetupEffects, FinishEffects,
     Emissions
<1>3. ~world.published /\ ~world.registered
  BY EndedFrame, Building DEF Ended
<1>4. world' = [world EXCEPT !.fetched = IF m.ok THEN @ \cup {d} ELSE @]
  BY <1>1 DEF Ended, Done
<1>5. /\ world'.fetched = (IF m.ok THEN world.fetched \cup {d} ELSE world.fetched)
      /\ world'.staged = world.staged /\ world'.executed = world.executed
      /\ world'.published = world.published /\ world'.registered = world.registered
      /\ world'.fetched = world.fetched => world' = world
  <2>1. world \in World
    BY EndedFrame
  <2> QED
    BY <1>4, <2>1 DEF World
<1>6. SetupInv' /\ FinishInv' /\ PhaseInv'
  BY <1>5, BuildingStill
<1>7. DownloadInv'
  <2>1. \A x \in Queued' : x \in Queued \/ x = m
    BY EndedFrame
  <2>2. \A e \in Doing({"Download"})' : e \in Doing({"Download"}) /\ e.key # d
    BY EndedFrame DEF Doing, Rival
  <2>3. DownloadInv
    BY DEF Ended, Inv
  <2> QED
    BY <1>1, <1>2, <1>5, <2>1, <2>2, <2>3, EndedFrame DEF DownloadInv, Answered, Unmoved
<1>8. StageInv'
  BY <1>1, <1>5, EndedFrame DEF Ended, Inv, StageInv, Unmoved
<1>9. ItemInv'
  BY <1>1, <1>5, EndedFrame DEF Ended, Inv, ItemInv, Unmoved
<1>10. world' = world \/ Build!Fetch
  <2>1. PICK i \in DOMAIN plan : plan[i] = d
    BY <1>2 DEF Keys
  <2> QED
    BY <1>3, <1>5, <2>1 DEF Build!Fetch
<1> QED
  BY <1>6, <1>7, <1>8, <1>9, <1>10, EndedFrame DEF Inv

(* The end of the staging: the temporary root exists, or not.              *)
LEMMA StageEnds ==
  ASSUME NEW t, NEW m, Ended(t, m), t.effect.type = "PrepareInstall"
  PROVE  Inv' /\ (world' = world \/ Build!Stage)
<1>1. /\ m.type = "InstallPrepared" /\ m.ok \in BOOLEAN
      /\ m.type \notin {"DownloadFinished"} /\ m.type \notin {"ItemFinished"}
  BY EndedFrame, EndTypes DEF Ended, EndOf, Messages, Chatter, Told
<1>2. ~world.staged /\ ~world.published /\ ~world.registered
  BY EndedFrame, Building DEF Ended, Inv, StageInv, Doing
<1>3. /\ world'.staged = m.ok
      /\ world'.fetched = world.fetched /\ world'.executed = world.executed
      /\ world'.published = world.published /\ world'.registered = world.registered
      /\ ~m.ok => world' = world
  <2>1. world \in World
    BY EndedFrame
  <2>2. world' = [world EXCEPT !.staged = m.ok]
    BY <1>1 DEF Ended, Done
  <2> QED
    BY <1>2, <2>1, <2>2, <1>1 DEF World
<1>4. SetupInv' /\ FinishInv' /\ PhaseInv'
  BY <1>3, BuildingStill
<1>5. DownloadInv'
  BY <1>1, <1>3, EndedFrame DEF Ended, Inv, DownloadInv, Unmoved
<1>6. StageInv'
  <2>1. Doing({"PrepareInstall"})' = {}
    BY EndedFrame DEF Doing, Rival
  <2>2. \A x \in Answered({"InstallPrepared"})' : x = m \/ x \in Answered({"InstallPrepared"})
    BY EndedFrame DEF Answered
  <2> QED
    BY <1>2, <1>3, <2>1, <2>2, EndedFrame DEF Ended, Inv, StageInv, Unmoved
<1>7. ItemInv'
  BY <1>1, <1>3, EndedFrame DEF Ended, Inv, ItemInv, Unmoved
<1>8. world' = world \/ Build!Stage
  BY <1>1, <1>2, <1>3 DEF Build!Stage
<1> QED
  BY <1>4, <1>5, <1>6, <1>7, <1>8, EndedFrame DEF Inv

(* The end of an item: it is in the root, or not.                          *)
LEMMA ItemEnds ==
  ASSUME NEW t, NEW m, Ended(t, m), t.effect.type = "ExecuteItem"
  PROVE  Inv' /\ (world' = world \/ Build!Execute)
<1>1. /\ m.type = "ItemFinished" /\ m.ok \in BOOLEAN /\ m.index = t.effect.index
      /\ m.type \notin {"DownloadFinished"} /\ m.type \notin {"InstallPrepared"}
  BY EndedFrame, EndTypes DEF Ended, EndOf, Messages, Chatter, Told
<1>2. /\ t.effect.index = state.next /\ state.next \in DOMAIN plan
      /\ plan[state.next] \in state.completed
      /\ world.executed = state.next - 1 /\ state.itemRunning
      /\ Answered({"ItemFinished"}) = {} /\ world.staged
      /\ plan[state.next] \in world.fetched
  BY EndedFrame DEF Ended, Inv, ItemInv, StageInv, DownloadInv, Doing
<1>3. ~world.published /\ ~world.registered
  BY EndedFrame, Building DEF Ended
<1>4. Len(plan) \in Nat /\ DOMAIN plan = 1 .. Len(plan) /\ state.next \in Nat
  BY PlansAssumption, LenProperties DEF Ended, Types, CreateState
<1>5. /\ world'.executed = (IF m.ok THEN world.executed + 1 ELSE world.executed)
      /\ world'.fetched = world.fetched /\ world'.staged = world.staged
      /\ world'.published = world.published /\ world'.registered = world.registered
      /\ ~m.ok => world' = world
  <2>1. world \in World
    BY EndedFrame
  <2>2. world' = [world EXCEPT !.executed = IF m.ok THEN @ + 1 ELSE @]
    BY <1>1 DEF Ended, Done
  <2> QED
    BY <2>1, <2>2, <1>1 DEF World
<1>6. SetupInv' /\ FinishInv' /\ PhaseInv'
  BY <1>5, BuildingStill
<1>7. DownloadInv'
  BY <1>1, <1>5, EndedFrame DEF Ended, Inv, DownloadInv, Unmoved
<1>8. StageInv'
  BY <1>1, <1>5, EndedFrame DEF Ended, Inv, StageInv, Unmoved
<1>9. ItemInv'
  <2>1. Doing({"ExecuteItem"})' = {}
    BY EndedFrame DEF Doing, Rival
  <2>2. \A x \in Answered({"ItemFinished"})' : x = m
    BY <1>2, EndedFrame DEF Answered
  <2>3. world'.executed = IF m.ok THEN state.next ELSE state.next - 1
    BY <1>2, <1>4, <1>5
  <2>4. plan' = plan /\ ItemInv
    BY DEF Ended, Inv
  <2> QED
    BY <1>1, <1>2, <2>1, <2>2, <2>3, <2>4, EndedFrame DEF ItemInv, Unmoved
<1>10. world' = world \/ Build!Execute
  <2>1. world.executed + 1 = state.next /\ world.executed < Len(plan)
    BY <1>2, <1>4
  <2> QED
    BY <1>2, <1>3, <1>5, <2>1 DEF Build!Execute
<1> QED
  BY <1>6, <1>7, <1>8, <1>9, <1>10, EndedFrame DEF Inv

(* The end of the publication or of the registration.                      *)
LEMMA FinishEnds ==
  ASSUME NEW t, NEW m, Ended(t, m), t.effect.type \in FinishEffects
  PROVE  Inv' /\ (world' = world \/ Build!Publish \/ Build!Register)
<1>1. /\ m.type = (IF t.effect.type = "PublishInstall" THEN "Published" ELSE "Registered")
      /\ m.ok \in BOOLEAN
      /\ m.type \notin SetupMessages /\ m.type \notin {"DownloadFinished"}
      /\ m.type \notin {"InstallPrepared"} /\ m.type \notin {"ItemFinished"}
  BY EndedFrame, EndTypes DEF Ended, EndOf, Messages, Chatter, Told, FinishEffects,
     SetupMessages
<1>2. t.effect \in Doing(FinishEffects)
  BY EndedFrame DEF Doing
<1>3. /\ state.prepared /\ ~world.registered /\ Answered(FinishMessages) = {}
      /\ t.effect.type = "PublishInstall" => state.publishing /\ ~world.published
      /\ t.effect.type = "Register" => world.published
  <2>1. state.prepared
    BY <1>2 DEF Ended, Inv, SetupInv, Only, Doing, FinishEffects, SetupEffects, Emissions
  <2> QED
    BY <1>2, <2>1 DEF Ended, Inv, FinishInv
<1>4. /\ Doing(FinishEffects)' = {}
      /\ \A x \in Queued' : x.type \in FinishMessages => x = m
  BY <1>3, EndedFrame DEF Doing, Rival, Answered
<1>5. /\ world'.fetched = world.fetched /\ world'.staged = world.staged
      /\ world'.executed = world.executed
      /\ IF t.effect.type = "PublishInstall"
           THEN world'.published = m.ok /\ ~world'.registered
           ELSE world'.published /\ world'.registered = m.ok
      /\ ~m.ok => world' = world
  <2>1. world \in World
    BY EndedFrame
  <2>2. world' = (IF t.effect.type = "PublishInstall"
                    THEN [world EXCEPT !.published = m.ok]
                    ELSE [world EXCEPT !.registered = m.ok])
    BY <1>1 DEF Ended, Done
  <2> QED
    BY <2>1, <2>2, <1>1, <1>3 DEF World, FinishEffects
<1>6. /\ state.publishing =>
           /\ Only(FinishEffects, FinishMessages \cup {"DownloadFinished", "InstallPrepared"})
           /\ state.temporary /\ state.next = Len(plan) + 1 /\ ~state.itemRunning
      /\ ~state.publishing =>
           world.published /\ t.effect.type = "Register" /\ Only({"Register"}, {"Registered"})
  <2>1. ~Only({"Download", "PrepareInstall", "ExecuteItem"},
              {"DownloadFinished", "InstallPrepared", "ItemFinished"})
    BY EndedFrame DEF Only, FinishEffects, Emissions
  <2> QED
    BY <1>3, <2>1 DEF Ended, Inv, PhaseInv, FinishInv, FinishEffects
<1>7. SetupInv'
  BY <1>1, <1>3, EndedFrame DEF Ended, Inv, SetupInv, Unmoved
<1>8. DownloadInv'
  BY <1>1, <1>5, EndedFrame DEF Ended, Inv, DownloadInv, Unmoved
<1>9. StageInv'
  BY <1>1, <1>5, EndedFrame DEF Ended, Inv, StageInv, Unmoved
<1>10. ItemInv'
  BY <1>1, <1>5, EndedFrame DEF Ended, Inv, ItemInv, Unmoved
<1>11. FinishInv'
  <2>1. state' = state /\ plan' = plan /\ FinishInv
    BY DEF Ended, Inv
  <2>2. state.result = "ok" => FALSE
    BY <1>3 DEF Ended, Inv, FinishInv
  <2>3. \A x \in Queued' :
          /\ x.type = "Published" =>
               state.publishing /\ world'.published = x.ok /\ ~world'.registered
          /\ x.type = "Registered" => world'.published /\ world'.registered = x.ok
    BY <1>1, <1>3, <1>4, <1>5 DEF FinishMessages, FinishEffects
  <2> QED
    BY <1>4, <2>1, <2>2, <2>3 DEF FinishInv
<1>12. PhaseInv'
  <2>1. CASE state.publishing
    <3>1. Only(FinishEffects, FinishMessages \cup {"DownloadFinished", "InstallPrepared"})'
      BY <1>1, <1>6, <2>1, EndedFrame DEF Only, FinishMessages
    <3> QED
      BY <2>1, <3>1, EndedFrame DEF PhaseInv, Unmoved
  <2>2. CASE ~state.publishing
    <3>1. Only({"Register"}, {"Registered"})'
      BY <1>1, <1>6, <2>2, EndedFrame DEF Only
    <3>2. world'.published
      BY <1>5, <1>6, <2>2
    <3> QED
      BY <2>2, <3>1, <3>2, EndedFrame DEF PhaseInv, Unmoved
  <2> QED
    BY <2>1, <2>2
<1>13. world' = world \/ Build!Publish \/ Build!Register
  <2>1. CASE ~m.ok
    BY <2>1, <1>5
  <2>2. CASE m.ok /\ t.effect.type = "PublishInstall"
    <3>1. /\ world.staged /\ ~world.published /\ world.executed = Len(plan)
          /\ world'.published
      <4>1. Len(plan) \in Nat
        BY PlansAssumption, LenProperties DEF Ended, Types
      <4>2. world.staged /\ world.executed = state.next - 1
        BY <1>3, <1>6, <2>2 DEF Ended, Inv, StageInv, ItemInv
      <4>3. m.ok = TRUE
        BY <1>1, <2>2
      <4>4. world'.published = m.ok
        BY <1>5, <2>2
      <4>5. world'.published
        BY <4>3, <4>4
      <4> QED
        BY <1>3, <1>6, <2>2, <4>1, <4>2, <4>5
    <3>2. world'.registered = world.registered
      <4>1. world' = [world EXCEPT !.published = m.ok]
        BY <1>1, <2>2 DEF Ended, Done
      <4> QED
        BY <4>1, EndedFrame DEF World
    <3> QED
      BY <1>5, <3>1, <3>2 DEF Build!Publish
  <2>3. CASE m.ok /\ t.effect.type = "Register"
    BY <1>1, <1>3, <1>5, <2>3 DEF Build!Register
  <2> QED
    BY <1>1, <2>1, <2>2, <2>3 DEF FinishEffects
<1> QED
  BY <1>7, <1>8, <1>9, <1>10, <1>11, <1>12, <1>13, EndedFrame DEF Inv

(* The end of an emission.                                                 *)
LEMMA EmissionEnds ==
  ASSUME Types, Inv, NEW t \in tasks, t.effect.type \in Emissions, NEW m \in Messages,
         m.type \in Side, tasks' = tasks \ {t}, queue' = Append(queue, m), world' = world,
         UNCHANGED <<plan, state, returned>>
  PROVE  Inv'
<1>1. Running' \subseteq Running /\ Lone'
  BY TaskEnds DEF Inv
<1>2. /\ Queued' = Queued \cup {m}
      /\ \A types : Once(types) /\ (m.type \in types => Answered(types) = {}) => Once(types)'
  BY QueueAppend DEF Types
<1>3. Calm
  BY <1>1, <1>2 DEF Calm, Unmoved
<1>4. LoneInv'
  BY <1>1, <1>2, EmissionsApart DEF Inv, LoneInv
<1>5. ReturnInv'
  BY DEF Inv, ReturnInv
<1> QED
  BY <1>3, <1>4, <1>5, CalmStill DEF Inv

(* Every step of a task keeps the invariant, and does to the world what a  *)
(* create call may do.                                                     *)
BuildStep ==
  \/ world' = world
  \/ Build!Reuse \/ Build!Fetch \/ Build!Stage \/ Build!Execute \/ Build!Publish
  \/ Build!Register

(* A step of a task, on its way or at its end (spawn, run_effect).         *)
LEMMA TaskInv ==
  ASSUME Types, Inv, NEW t \in tasks, RunTask(t)
  PROVE  Inv' /\ BuildStep
<1>1. PICK m \in Messages : /\ queue' = Append(queue, m) /\ world' = Done(m)
                            /\ Continues(t, m) \/ Finishes(t, m)
  BY TaskStep DEF Inv
<1>2. UNCHANGED <<plan, state, returned, faults>>
  BY DEF RunTask
<1>3. ReturnInv'
  BY <1>2 DEF Inv, ReturnInv
<1>4. CASE Continues(t, m)
  <2>1. Calm /\ LoneInv'
    BY <1>1, <1>2, <1>4, TaskContinues DEF Inv
  <2> QED
    BY <2>1, <1>3, CalmStill DEF Inv, Calm, BuildStep
<1>5. CASE Finishes(t, m)
  <2>1. Ended(t, m) /\ t.effect \in Effects
    BY <1>1, <1>2, <1>5 DEF Ended, Finishes, Types, Tasks
  <2>2. CASE t.effect.type \in SetupEffects
    BY <2>1, <2>2, SetupReuses DEF BuildStep
  <2>3. CASE t.effect.type = "Download"
    BY <2>1, <2>3, DownloadEnds DEF BuildStep
  <2>4. CASE t.effect.type = "PrepareInstall"
    BY <2>1, <2>4, StageEnds DEF BuildStep
  <2>5. CASE t.effect.type = "ExecuteItem"
    BY <2>1, <2>5, ItemEnds DEF BuildStep
  <2>6. CASE t.effect.type \in FinishEffects
    BY <2>1, <2>6, FinishEnds DEF BuildStep
  <2>7. CASE t.effect.type \in Emissions
    <3>1. m.type \in Side /\ tasks' = tasks \ {t}
      BY <2>1, <2>7, EndTypes DEF Ended
    <3>2. world' = world
      BY <1>1, <3>1, DoneType DEF Types, World
    <3> QED
      BY <1>1, <1>2, <2>7, <3>1, <3>2, EmissionEnds DEF BuildStep
  <2> QED
    BY <2>1, <2>2, <2>3, <2>4, <2>5, <2>6, <2>7 DEF Effects
<1> QED
  BY <1>1, <1>4, <1>5

(* A status that cannot be written.                                        *)
LEMMA FailEmissionInv ==
  ASSUME Types, Inv, NEW t \in tasks, FailEmission(t)
  PROVE  Types' /\ Inv'
<1> DEFINE m == Applied(t.effect.target, FALSE)
<1>1. t.effect \in Effects /\ t.effect.type \in Emissions
  BY DEF Types, Tasks, FailEmission, Emissions
<1>2. m \in Messages /\ m.type \in Side
  BY <1>1 DEF Applied, Messages, Told, Side, Effects, Emissions, SetupEffects, FinishEffects
<1>3. /\ queue' = Append(queue, m) /\ tasks' = tasks \ {t}
      /\ UNCHANGED <<plan, state, returned, sent, world>>
      /\ faults < MaxFaults /\ faults' = faults + 1
  BY DEF FailEmission, Fault
<1> HIDE DEF m
<1>4. Inv'
  BY <1>1, <1>2, <1>3, EmissionEnds
<1>5. queue' \in Seq(Messages)
  BY <1>2, <1>3, QueueAppend DEF Types
<1>6. faults' \in 0 .. MaxFaults
  BY <1>3, BoundsAssumption DEF Types
<1>7. Types'
  BY <1>3, <1>5, <1>6 DEF Types
<1> QED
  BY <1>4, <1>7

-----------------------------------------------------------------------------
(* A step of the reducer.                                                  *)

(* Emissions have no rivals.                                               *)
LEMMA RivalApart ==
  ASSUME NEW e, NEW f, e.type \in Emissions
  PROVE  ~Rival(e, f) /\ ~Rival(f, e)
BY EmissionsApart DEF Rival

(* The reducer's answer keeps the types.                                   *)
LEMMA BecomeTypes ==
  ASSUME Types, NEW s \in CreateState, NEW others \in SUBSET tasks, Become(s, others),
         queue' \in Seq(Messages), faults' \in 0 .. MaxFaults
  PROVE  Types'
<1>1. Begun(s, others)
  BY BecomeStarts
<1> QED
  BY <1>1 DEF Begun, Types

(* A message is heard.                                                     *)
LEMMA ReceiveFrame ==
  ASSUME Types, Inv, NEW type, Receive(type)
  PROVE  /\ Head(queue) \in Messages /\ Head(queue) \in Queued /\ Head(queue).type = type
         /\ ~returned /\ faults' = faults /\ queue' \in Seq(Messages)
         /\ Queued' \subseteq Queued
         /\ Once(SetupMessages)' /\ Once({"ItemFinished"})' /\ Once(FinishMessages)'
         /\ type \in SetupMessages =>
              Doing(SetupEffects) = {} /\ Answered(SetupMessages)' = {}
         /\ type = "ItemFinished" =>
              Doing({"ExecuteItem"}) = {} /\ Answered({"ItemFinished"})' = {}
         /\ type \in FinishMessages =>
              Doing(FinishEffects) = {} /\ Answered(FinishMessages)' = {}
<1>1. /\ queue \in Seq(Messages) /\ queue # <<>> /\ queue' = Tail(queue)
      /\ Head(queue).type = type /\ ~returned /\ faults' = faults
  BY DEF Types, Receive
<1>2. /\ queue' \in Seq(Messages) /\ Head(queue) \in Messages /\ Head(queue) \in Queued
      /\ Queued' \subseteq Queued
      /\ \A types : Once(types) => Once(types)'
      /\ \A types : Once(types) /\ Head(queue).type \in types => Answered(types)' = {}
  BY <1>1, QueueTail
<1>3. /\ type \in SetupMessages => Doing(SetupEffects) = {}
      /\ type = "ItemFinished" => Doing({"ExecuteItem"}) = {}
      /\ type \in FinishMessages => Doing(FinishEffects) = {}
  BY <1>1, <1>2 DEF Inv, SetupInv, ItemInv, FinishInv, Answered
<1> QED
  BY <1>1, <1>2, <1>3 DEF Inv, LoneInv

(* The reducer only carries progress or fails the call.                    *)
LEMMA CalmBecome ==
  ASSUME Types, Inv, NEW s, Kept(state, s), NEW others \in SUBSET tasks,
         Become(s, others), ~returned, queue' \in Seq(Messages),
         faults' \in 0 .. MaxFaults, Queued' \subseteq Queued,
         Once(SetupMessages)', Once({"ItemFinished"})', Once(FinishMessages)'
  PROVE  Types' /\ Inv'
<1>1. s \in CreateState /\ \A e \in s.effects : e.type \in Emissions
  BY DEF Kept, Types
<1>2. Begun(s, others)
  BY <1>1, BecomeStarts
<1>3. Types'
  BY <1>1, BecomeTypes
<1>4. Lone'
  <2>1. \A e, f \in s.effects : Rival(e, f) => e = f
    BY <1>1, RivalApart
  <2>2. \A e \in s.effects, t \in others : ~Rival(e, t.effect) /\ ~Rival(t.effect, e)
    BY <1>1, RivalApart
  <2> QED
    BY <2>1, <2>2, BecomeLone DEF Inv, LoneInv
<1>5. \A e \in Running' : e \in Running \/ e.type \in Emissions
  BY <1>1, <1>2 DEF Begun, Running
<1>6. Calm
  BY <1>2, <1>5 DEF Calm, Unmoved, Begun, Kept
<1>7. ReturnInv'
  BY <1>2 DEF Begun, ReturnInv
<1> QED
  BY <1>3, <1>4, <1>6, <1>7, CalmStill DEF Inv, LoneInv

(* A message only carries progress or fails the call.                      *)
LEMMA CalmReceive ==
  ASSUME Types, Inv, NEW type, Receive(type), NEW s, Kept(state, s), Become(s, tasks)
  PROVE  Types' /\ Inv'
<1>1. faults' \in 0 .. MaxFaults
  BY ReceiveFrame DEF Types
<1> QED
  BY <1>1, ReceiveFrame, CalmBecome

(* The target and the event of a progress message.                         *)
LEMMA SideTypes ==
  ASSUME NEW m \in Messages, m.type \in Side
  PROVE  /\ m.target \in Target
         /\ m.type = "Progress" => m.event \in Events
         /\ m.type = "ObservedStatus" => Observed(m.status) \in Events
BY DEF Messages, Chatter, Told, Side, Observed, Events

(* An emission that ended.                                                 *)
LEMMA IdleKept ==
  ASSUME NEW s \in CreateState, NEW t
  PROVE  Kept(s, [s EXCEPT !.busy = @ \ {t}])
BY DEF Kept, CreateState

(* Progress, the end of an emission, a lock that is not to be had.         *)
LEMMA ProgressInv ==
  ASSUME Types, Inv, ProgressEvent \/ ObservedStatus \/ ProgressApplied \/ StatusForwarded
                     \/ EffectFailed
  PROVE  Types' /\ Inv'
<1> DEFINE m == Head(queue)
           idle == [state EXCEPT !.busy = @ \ {m.target}]
<1>0. state \in CreateState
  BY DEF Types
<1>1. CASE ProgressEvent
  <2>1. Receive("Progress")
    BY <1>1 DEF ProgressEvent
  <2>2. m.target \in Target /\ m.event \in Events
    BY <2>1, ReceiveFrame, SideTypes DEF Side
  <2> QED
    BY <1>0, <1>1, <2>1, <2>2, EnqueueKept, CalmReceive DEF ProgressEvent
<1>2. CASE ObservedStatus
  <2>1. Receive("ObservedStatus")
    BY <1>2 DEF ObservedStatus
  <2>2. m.target \in Target /\ Observed(m.status) \in Events
    BY <2>1, ReceiveFrame, SideTypes DEF Side
  <2> QED
    BY <1>0, <1>2, <2>1, <2>2, EnqueueKept, CalmReceive DEF ObservedStatus
<1>3. CASE ProgressApplied
  <2>1. Receive("ProgressApplied")
    BY <1>3 DEF ProgressApplied
  <2>2. m.target \in Target
    BY <2>1, ReceiveFrame, SideTypes DEF Side
  <2> DEFINE s == IF m.ok THEN idle ELSE FailCreate(idle)
  <2>3. idle \in CreateState /\ Kept(state, idle)
    BY <1>0, IdleKept DEF Kept
  <2>4. Kept(state, s) /\ s \in CreateState
    <3> HIDE DEF idle
    <3> QED
      BY <2>3, FailKept, KeptTrans DEF Kept
  <2>5. Become(Pump(s, m.target), tasks)
    BY <1>3 DEF ProgressApplied
  <2> HIDE DEF s
  <2> QED
    BY <2>1, <2>2, <2>4, <2>5, PumpKept, KeptTrans, CalmReceive
<1>4. CASE StatusForwarded
  <2>1. Receive("StatusForwarded")
    BY <1>4 DEF StatusForwarded
  <2>2. m.target \in Target
    BY <2>1, ReceiveFrame, SideTypes DEF Side
  <2>3. idle \in CreateState /\ Kept(state, idle)
    BY <1>0, IdleKept DEF Kept
  <2>4. Become(Pump(idle, m.target), tasks)
    BY <1>4 DEF StatusForwarded
  <2> HIDE DEF idle
  <2> QED
    BY <2>1, <2>2, <2>3, <2>4, PumpKept, KeptTrans, CalmReceive
<1>5. CASE EffectFailed
  BY <1>0, <1>5, FailKept, CalmReceive DEF EffectFailed
<1> QED
  BY <1>1, <1>2, <1>3, <1>4, <1>5

(* A task that panics.                                                     *)
LEMMA PanicInv ==
  ASSUME Types, Inv, NEW t \in tasks, JoinPanic(t)
  PROVE  Types' /\ Inv'
<1>1. /\ ~returned /\ faults < MaxFaults /\ faults' = faults + 1 /\ queue' = queue
      /\ Become(FailCreate(state), tasks \ {t})
  BY DEF JoinPanic, Fault
<1>2. Kept(state, FailCreate(state))
  BY FailKept DEF Types
<1>3. faults' \in 0 .. MaxFaults
  BY <1>1, BoundsAssumption DEF Types
<1>4. Queued' = Queued /\ queue' \in Seq(Messages)
  BY <1>1 DEF Queued, Types
<1>5. Once(SetupMessages)' /\ Once({"ItemFinished"})' /\ Once(FinishMessages)'
  BY <1>1 DEF Inv, LoneInv, Once
<1> QED
  BY <1>1, <1>2, <1>3, <1>4, <1>5, CalmBecome

(* Before the install lock is there only the setup runs, and nothing has   *)
(* happened.                                                               *)
LEMMA SettingUp ==
  ASSUME Types, Inv, NEW type \in SetupMessages, type # "EffectFailed", Receive(type)
  PROVE  /\ ~state.prepared /\ ~state.temporary /\ ~state.itemRunning /\ ~state.publishing
         /\ state.wanted = {} /\ state.completed = {} /\ state.next = 1
         /\ world.fetched = {} /\ ~world.staged /\ world.executed = 0 /\ ~world.registered
         /\ state.result # "ok"
         /\ type # "InstallAcquired" => ~world.published
         /\ type = "InstallAcquired" => world.published = Head(queue).cached
         /\ \A e \in Running : e.type \in Emissions
         /\ \A m \in Queued' : m.type \in Side
<1>1. /\ Head(queue) \in Queued /\ Head(queue).type = type
      /\ Doing(SetupEffects) = {} /\ Answered(SetupMessages)' = {}
      /\ Queued' \subseteq Queued
  BY ReceiveFrame
<1>2. ~state.prepared
  BY <1>1 DEF Inv, SetupInv, Answered
<1>3. /\ Only(SetupEffects, SetupMessages) /\ ~world.registered
  BY <1>2 DEF Inv, SetupInv
<1>4. /\ \A e \in Running : e.type \in Emissions
      /\ \A m \in Queued' : m.type \in Side
  BY <1>1, <1>3 DEF Only, Doing, Answered
<1> QED
  BY <1>1, <1>2, <1>3, <1>4 DEF Inv, SetupInv, FinishInv, SetupMessages

(* The next step of the setup.                                             *)
LEMMA SetupContinues ==
  ASSUME Types, Inv, NEW type \in {"RequestLockAcquired", "Prepared"}, Receive(type),
         NEW next \in SetupEffects, Become(Effect(state, [type |-> next]), tasks)
  PROVE  Types' /\ Inv'
<1> DEFINE x == [type |-> next]
           s == Effect(state, x)
<1>1. x \in Effects /\ x.type = next
  BY DEF Effects
<1>2. /\ s \in CreateState /\ s.effects = {x}
      /\ s.prepared = state.prepared /\ s.temporary = state.temporary
      /\ s.wanted = state.wanted /\ s.completed = state.completed
      /\ s.next = state.next /\ s.itemRunning = state.itemRunning
      /\ s.publishing = state.publishing /\ s.result = state.result
  <2>1. /\ state \in CreateState /\ state.effects = {}
    BY DEF Types
  <2> HIDE DEF x
  <2>2. s \in CreateState /\ s = [state EXCEPT !.effects = {x}]
    BY <1>1, <2>1, EffectType
  <2> HIDE DEF s
  <2> QED
    BY <2>1, <2>2 DEF CreateState
<1> HIDE DEF x, s
<1>3. Begun(s, tasks)
  BY <1>2, BecomeStarts DEF s, x
<1>4. Types'
  <2>1. queue' \in Seq(Messages) /\ faults' \in 0 .. MaxFaults
    BY ReceiveFrame DEF Types
  <2> QED
    BY <1>2, <2>1, BecomeTypes DEF s, x
<1>5. type \in SetupMessages /\ type # "EffectFailed" /\ type # "InstallAcquired"
  BY DEF SetupMessages
<1>6. /\ \A e \in Running : e.type \in Emissions
      /\ \A m \in Queued' : m.type \in Side
      /\ ~world.published /\ ~state.prepared
  BY <1>5, SettingUp
<1>7. Running' = Running \cup {x}
  BY <1>2, <1>3 DEF Begun, Running
<1>8. LoneInv'
  <2>1. \A t \in tasks : ~Rival(x, t.effect) /\ ~Rival(t.effect, x)
    BY <1>6, RivalApart DEF Running
  <2>2. Lone'
    BY <1>2, <2>1, BecomeLone DEF Inv, LoneInv, s, x
  <2> QED
    BY <2>2, ReceiveFrame DEF LoneInv
<1>9. /\ Doing({"Download"})' = {} /\ Doing({"PrepareInstall"})' = {}
      /\ Doing({"ExecuteItem"})' = {} /\ Doing(FinishEffects)' = {}
      /\ Answered({"DownloadFinished"})' = {} /\ Answered({"InstallPrepared"})' = {}
      /\ Answered({"ItemFinished"})' = {} /\ Answered(FinishMessages)' = {}
      /\ Answered(SetupMessages)' = {}
      /\ Only(SetupEffects, SetupMessages)'
  BY <1>1, <1>6, <1>7 DEF Doing, Answered, Only, SetupEffects, FinishEffects, Emissions, Side,
     SetupMessages, FinishMessages
<1>10. /\ UNCHANGED <<plan, world, returned>> /\ Unmoved /\ Keys' = Keys
       /\ state'.result = state.result
  BY <1>2, <1>3 DEF Begun, Unmoved, Keys
<1>11. SetupInv'
  <2>1. \A m \in Queued' : m.type \notin {"RequestLockAcquired", "Prepared", "InstallAcquired"}
    BY <1>6 DEF Side
  <2> QED
    BY <1>5, <1>6, <1>9, <1>10, <2>1, SettingUp DEF SetupInv, Unmoved
<1>12. DownloadInv' /\ StageInv' /\ ItemInv'
  BY <1>9, <1>10 DEF Inv, DownloadInv, StageInv, ItemInv, Unmoved
<1>13. FinishInv'
  <2>1. \A m \in Queued' : m.type \notin {"Published", "Registered"}
    BY <1>6 DEF Side
  <2> QED
    BY <1>9, <1>10, <2>1 DEF Inv, FinishInv, Unmoved
<1>14. PhaseInv' /\ ReturnInv'
  BY <1>6, <1>10, ReceiveFrame DEF PhaseInv, ReturnInv, Unmoved
<1> QED
  BY <1>4, <1>8, <1>11, <1>12, <1>13, <1>14 DEF Inv

(* The request lock is there; the plan is read (Prepared).                 *)
LEMMA SetupInvStep ==
  ASSUME Types, Inv, RequestLockAcquired \/ Prepared
  PROVE  Types' /\ Inv'
<1>1. CASE RequestLockAcquired
  BY <1>1, SetupContinues DEF RequestLockAcquired, SetupEffects
<1>2. CASE Prepared /\ Head(queue).ok
  BY <1>2, SetupContinues DEF Prepared, SetupEffects
<1>3. CASE Prepared /\ ~Head(queue).ok
  BY <1>3, CalmReceive, FailKept DEF Prepared, Types
<1> QED
  BY <1>1, <1>2, <1>3

(* The install lock is there and so is the installation: the call only     *)
(* registers it.                                                           *)
LEMMA InstallFound ==
  ASSUME Types, Inv, Receive("InstallAcquired"), Head(queue).cached,
         NEW s \in CreateState, NEW r \in CreateState,
         state.prepared = FALSE,
         r.prepared, r.temporary = state.temporary, r.wanted = state.wanted,
         r.completed = state.completed, r.next = state.next,
         r.itemRunning = state.itemRunning, r.publishing = state.publishing,
         r.effects = {}, r.result = state.result,
         Kept(r, s), Become(Effect(s, [type |-> "Register"]), tasks)
  PROVE  Types' /\ Inv'
<1> DEFINE x == [type |-> "Register"]
           n == Effect(s, x)
<1>1. x \in Effects /\ x.type = "Register"
  BY DEF Effects, FinishEffects
<1>2. /\ n \in CreateState /\ n.effects = s.effects \cup {x}
      /\ n.prepared /\ n.temporary = state.temporary
      /\ n.wanted = state.wanted /\ n.completed = state.completed
      /\ n.next = state.next /\ n.itemRunning = state.itemRunning
      /\ n.publishing = state.publishing /\ (n.result = "ok" => state.result = "ok")
  <2> HIDE DEF x
  <2>1. n \in CreateState /\ n = [s EXCEPT !.effects = s.effects \cup {x}]
    BY <1>1, EffectType
  <2> HIDE DEF n
  <2> QED
    BY <2>1, ZenonT(40) DEF CreateState, Kept
<1>3. \A e \in s.effects : e.type \in Emissions
  BY DEF Kept
<1> HIDE DEF x, n
<1>4. Begun(n, tasks)
  BY <1>2, BecomeStarts DEF n, x
<1>5. Types'
  <2>1. queue' \in Seq(Messages) /\ faults' \in 0 .. MaxFaults
    BY ReceiveFrame DEF Types
  <2> QED
    BY <1>2, <2>1, BecomeTypes DEF n, x
<1>6. /\ ~state.temporary /\ ~state.itemRunning /\ ~state.publishing
      /\ state.wanted = {} /\ state.completed = {} /\ state.next = 1
      /\ world.fetched = {} /\ ~world.staged /\ world.executed = 0 /\ ~world.registered
      /\ state.result # "ok" /\ world.published
      /\ \A e \in Running : e.type \in Emissions
      /\ \A m \in Queued' : m.type \in Side
  BY SettingUp DEF SetupMessages
<1>7. \A e \in Running' : e.type \in Emissions \/ e = x
  BY <1>2, <1>3, <1>4, <1>6 DEF Begun, Running
<1>8. LoneInv'
  <2>1. \A t \in tasks : ~Rival(x, t.effect) /\ ~Rival(t.effect, x)
    BY <1>6, RivalApart DEF Running
  <2>2. \A e, f \in n.effects : Rival(e, f) => e = f
    BY <1>2, <1>3, RivalApart
  <2>3. \A e \in n.effects, t \in tasks : ~Rival(e, t.effect) /\ ~Rival(t.effect, e)
    BY <1>2, <1>3, <2>1, RivalApart
  <2>4. Lone'
    BY <2>2, <2>3, BecomeLone DEF Inv, LoneInv, n, x
  <2> QED
    BY <2>4, ReceiveFrame DEF LoneInv
<1>9. /\ Doing(SetupEffects)' = {} /\ Doing({"Download"})' = {}
      /\ Doing({"PrepareInstall"})' = {} /\ Doing({"ExecuteItem"})' = {}
      /\ Answered({"DownloadFinished"})' = {} /\ Answered({"InstallPrepared"})' = {}
      /\ Answered({"ItemFinished"})' = {} /\ Answered(FinishMessages)' = {}
      /\ Answered(SetupMessages)' = {}
      /\ Only({"Register"}, {"Registered"})'
  BY <1>1, <1>6, <1>7 DEF Doing, Answered, Only, SetupEffects, Emissions, Side,
     SetupMessages, FinishMessages
<1>10. /\ UNCHANGED <<plan, world, returned>> /\ Keys' = Keys
       /\ state'.prepared /\ ~state'.temporary /\ ~state'.itemRunning /\ ~state'.publishing
       /\ state'.wanted = {} /\ state'.completed = {} /\ state'.next = 1
       /\ state'.result # "ok"
  BY <1>2, <1>4, <1>6 DEF Begun, Keys
<1>11. Len(plan) \in Nat
  BY PlansAssumption, LenProperties DEF Types
<1>12. SetupInv' /\ PhaseInv' /\ ReturnInv'
  BY <1>6, <1>9, <1>10, ReceiveFrame DEF SetupInv, PhaseInv, ReturnInv
<1>13. DownloadInv' /\ StageInv'
  BY <1>6, <1>9, <1>10 DEF DownloadInv, StageInv
<1>14. ItemInv'
  BY <1>6, <1>9, <1>10, <1>11 DEF ItemInv
<1>15. FinishInv'
  <2>1. \A m \in Queued' : m.type \notin {"Published", "Registered"}
    BY <1>6 DEF Side
  <2>2. \A e \in Doing(FinishEffects)' : e.type = "Register"
    BY <1>1, <1>7 DEF Doing, FinishEffects, Emissions
  <2> QED
    BY <1>6, <1>9, <1>10, <2>1, <2>2 DEF FinishInv
<1> QED
  BY <1>5, <1>8, <1>12, <1>13, <1>14, <1>15 DEF Inv

(* The install lock is there and nothing else: the build begins.           *)
Fetches == {[type |-> "Download", key |-> d] : d \in Keys}

(* The downloads and the temporary root start together.                    *)
LEMMA InstallBegins ==
  ASSUME Types, Inv, Receive("InstallAcquired"), ~Head(queue).cached,
         NEW s \in CreateState, NEW r \in CreateState,
         state.prepared = FALSE,
         r.prepared, r.temporary = state.temporary, r.wanted = Keys,
         r.completed = state.completed, r.next = state.next,
         r.itemRunning = state.itemRunning, r.publishing = state.publishing,
         r.effects = {}, r.result = state.result,
         Kept(r, s),
         Become([s EXCEPT !.effects =
                   @ \cup Fetches \cup {[type |-> "PrepareInstall"]}], tasks)
  PROVE  Types' /\ Inv'
<1> DEFINE x == [type |-> "PrepareInstall"]
           n == [s EXCEPT !.effects = @ \cup Fetches \cup {x}]
<1>0. Keys \subseteq Dl
  BY PlansAssumption, ElementOfSeq DEF Types, Keys
<1>1. /\ x \in Effects /\ x.type = "PrepareInstall"
      /\ \A e \in Fetches : e \in Effects /\ e.type = "Download" /\ e.key \in Keys
      /\ \A e, f \in Fetches : e.key = f.key => e = f
  BY <1>0 DEF Effects, Fetches
<1>2. /\ n \in CreateState /\ n.effects = s.effects \cup Fetches \cup {x}
      /\ n.prepared /\ n.temporary = state.temporary
      /\ n.wanted = Keys /\ n.completed = state.completed
      /\ n.next = state.next /\ n.itemRunning = state.itemRunning
      /\ n.publishing = state.publishing /\ (n.result = "ok" => state.result = "ok")
  <2> HIDE DEF x
  <2>1. Fetches \subseteq Effects
    BY <1>1
  <2> QED
    BY <1>1, <2>1 DEF CreateState, Kept
<1>3. \A e \in s.effects : e.type \in Emissions
  BY DEF Kept
<1> HIDE DEF x, n
<1>4. Begun(n, tasks)
  BY <1>2, BecomeStarts DEF n, x
<1>5. Types'
  <2>1. queue' \in Seq(Messages) /\ faults' \in 0 .. MaxFaults
    BY ReceiveFrame DEF Types
  <2> QED
    BY <1>2, <2>1, BecomeTypes DEF n, x
<1>6. /\ ~state.temporary /\ ~state.itemRunning /\ ~state.publishing
      /\ state.completed = {} /\ state.next = 1
      /\ world.fetched = {} /\ ~world.staged /\ world.executed = 0 /\ ~world.registered
      /\ state.result # "ok" /\ ~world.published
      /\ \A e \in Running : e.type \in Emissions
      /\ \A m \in Queued' : m.type \in Side
  <2>1. world.published = Head(queue).cached /\ world \in World
    BY SettingUp DEF SetupMessages, Types, World
  <2>2. ~world.published
    BY <2>1 DEF World
  <2> QED
    BY <2>2, SettingUp DEF SetupMessages
<1>7. \A e \in Running' : e.type \in Emissions \/ e \in Fetches \/ e = x
  BY <1>2, <1>3, <1>4, <1>6 DEF Begun, Running
<1>8. LoneInv'
  <2>1. \A t \in tasks : t.effect.type \in Emissions
    BY <1>6 DEF Running
  <2>2. \A e, f \in n.effects : Rival(e, f) => e = f
    <3> SUFFICES ASSUME NEW e \in n.effects, NEW f \in n.effects, Rival(e, f), e # f
                 PROVE  FALSE
      OBVIOUS
    <3>1. e.type \notin Emissions /\ f.type \notin Emissions
      BY RivalApart
    <3>2. (e \in Fetches \/ e = x) /\ (f \in Fetches \/ f = x)
      BY <1>2, <1>3, <3>1
    <3>3. CASE e \in Fetches /\ f \in Fetches
      BY <1>1, <3>3 DEF Rival, SetupEffects, FinishEffects
    <3>4. CASE (e = x /\ f \in Fetches) \/ (e \in Fetches /\ f = x)
      BY <1>1, <3>4 DEF Rival, SetupEffects, FinishEffects
    <3> QED
      BY <3>2, <3>3, <3>4
  <2>3. \A e \in n.effects, t \in tasks : ~Rival(e, t.effect) /\ ~Rival(t.effect, e)
    BY <2>1, RivalApart
  <2>4. Lone'
    BY <2>2, <2>3, BecomeLone DEF Inv, LoneInv, n, x, Fetches
  <2> QED
    BY <2>4, ReceiveFrame DEF LoneInv
<1>9. /\ Doing(SetupEffects)' = {} /\ Doing(FinishEffects)' = {}
      /\ Doing({"ExecuteItem"})' = {}
      /\ \A e \in Doing({"Download"})' : e.key \in Keys
      /\ Answered({"DownloadFinished"})' = {} /\ Answered({"InstallPrepared"})' = {}
      /\ Answered({"ItemFinished"})' = {} /\ Answered(FinishMessages)' = {}
      /\ Answered(SetupMessages)' = {}
      /\ Only({"Download", "PrepareInstall", "ExecuteItem"},
              {"DownloadFinished", "InstallPrepared", "ItemFinished"})'
  BY <1>1, <1>6, <1>7 DEF Doing, Answered, Only, SetupEffects, FinishEffects, Emissions, Side,
     SetupMessages, FinishMessages
<1>10. /\ UNCHANGED <<plan, world, returned>> /\ Keys' = Keys
       /\ state'.prepared /\ ~state'.temporary /\ ~state'.itemRunning /\ ~state'.publishing
       /\ state'.wanted = Keys /\ state'.completed = {} /\ state'.next = 1
       /\ state'.result # "ok"
  BY <1>2, <1>4, <1>6 DEF Begun, Keys
<1>11. Len(plan) \in Nat
  BY PlansAssumption, LenProperties DEF Types
<1>12. SetupInv' /\ PhaseInv' /\ ReturnInv'
  BY <1>6, <1>9, <1>10, ReceiveFrame DEF SetupInv, PhaseInv, ReturnInv
<1>13. DownloadInv' /\ StageInv'
  BY <1>6, <1>9, <1>10 DEF DownloadInv, StageInv
<1>14. ItemInv'
  BY <1>6, <1>9, <1>10, <1>11 DEF ItemInv
<1>15. FinishInv'
  <2>1. \A m \in Queued' : m.type \notin {"Published", "Registered"}
    BY <1>6 DEF Side
  <2> QED
    BY <1>6, <1>9, <1>10, <2>1 DEF FinishInv
<1> QED
  BY <1>5, <1>8, <1>12, <1>13, <1>14, <1>15 DEF Inv

(* The install lock is there, the installation with it or not.             *)
LEMMA InstallAcquiredInv ==
  ASSUME Types, Inv, InstallAcquired
  PROVE  Types' /\ Inv'
<1> DEFINE cached == Head(queue).cached
           waited == Head(queue).waited
           held == [state EXCEPT !.prepared = TRUE, !.waited = waited]
           building == [held EXCEPT !.wanted = Keys]
           found == Enqueue(held, PlanKey, Cached("InstallShared"))
           wanted == Enqueue(building, PlanKey, Started("InstallShared"))
<1>1. Receive("InstallAcquired")
  BY DEF InstallAcquired
<1>2. state.prepared = FALSE
  <2>1. ~state.prepared
    BY <1>1, SettingUp DEF SetupMessages
  <2> QED
    BY <2>1 DEF Types, CreateState
<1>3. cached \in BOOLEAN /\ waited \in BOOLEAN
  BY <1>1, ReceiveFrame DEF Messages, Chatter, Told
<1>4. /\ PlanKey \in Target /\ Cached("InstallShared") \in Events
      /\ Started("InstallShared") \in Events /\ Keys \subseteq Dl
  BY PlansAssumption, ElementOfSeq DEF Target, Cached, Started, Events, Kinds, Types, Keys
<1>5. /\ held \in CreateState /\ held.prepared /\ held.temporary = state.temporary
      /\ held.wanted = state.wanted /\ held.completed = state.completed
      /\ held.next = state.next /\ held.itemRunning = state.itemRunning
      /\ held.publishing = state.publishing /\ held.effects = {}
      /\ held.result = state.result
  BY <1>3 DEF Types, CreateState
<1>6. CASE cached
  <2> DEFINE s == IF waited THEN held ELSE found
  <2>1. Become(Effect(s, [type |-> "Register"]), tasks)
    BY <1>6 DEF InstallAcquired
  <2> HIDE DEF held
  <2>2. Kept(held, held) /\ Kept(held, found)
    BY <1>4, <1>5, KeptSame, EnqueueKept
  <2> HIDE DEF found
  <2>3. Kept(held, s)
    BY <2>2
  <2> HIDE DEF s
  <2>4. s \in CreateState
    BY <2>3 DEF Kept
  <2> QED
    BY <1>1, <1>2, <1>5, <1>6, <2>1, <2>3, <2>4, InstallFound
<1>7. CASE ~cached
  <2> HIDE DEF held
  <2>1. /\ building \in CreateState /\ building.prepared
        /\ building.temporary = state.temporary
        /\ building.wanted = Keys /\ building.completed = state.completed
        /\ building.next = state.next /\ building.itemRunning = state.itemRunning
        /\ building.publishing = state.publishing /\ building.effects = {}
        /\ building.result = state.result
    BY <1>4, <1>5 DEF CreateState
  <2>2. Become([wanted EXCEPT !.effects =
                   @ \cup Fetches \cup {[type |-> "PrepareInstall"]}], tasks)
    BY <1>7 DEF InstallAcquired, held, Fetches
  <2> HIDE DEF building
  <2>3. Kept(building, wanted)
    BY <1>4, <2>1, EnqueueKept
  <2> HIDE DEF wanted
  <2>4. wanted \in CreateState
    BY <2>3 DEF Kept
  <2> QED
    BY <1>1, <1>2, <1>7, <2>1, <2>2, <2>3, <2>4, InstallBegins
<1> QED
  BY <1>6, <1>7

-----------------------------------------------------------------------------
(* The build: a download, the root or an item is there.                    *)

(* What the reducer has noted of it before it looks for what can start.    *)
Moved(r) ==
  /\ r \in CreateState /\ r.effects = {}
  /\ r.prepared = state.prepared /\ r.publishing = state.publishing
  /\ r.result = state.result
  /\ r.temporary => world.staged
  /\ state.temporary => r.temporary
  /\ r.wanted \subseteq Keys
  /\ r.completed \subseteq world.fetched /\ state.completed \subseteq r.completed
  /\ \A e \in Doing({"Download"}) : e.key \notin r.completed
  /\ r.next \in 1 .. (Len(plan) + 1)
  /\ \A i \in 1 .. (r.next - 1) : plan[i] \in r.completed
  /\ \/ r.itemRunning = state.itemRunning /\ r.next = state.next
     \/ /\ state.itemRunning /\ ~r.itemRunning
        /\ Doing({"ExecuteItem"}) = {} /\ Answered({"ItemFinished"})' = {}
        /\ world.executed = r.next - 1

(* What it stores then, with the effects it starts.                        *)
Noted(r, n) ==
  /\ n \in CreateState
  /\ n.prepared = r.prepared /\ n.temporary = r.temporary /\ n.wanted = r.wanted
  /\ n.completed = r.completed /\ n.next = r.next

BuildMessages == {"DownloadFinished", "InstallPrepared", "ItemFinished"}
BuildEffects == {"Download", "PrepareInstall", "ExecuteItem"}

(* A message of the build: the setup is over and nothing is registered.    *)
LEMMA BuildHeard ==
  ASSUME Types, Inv, NEW type \in BuildMessages, Receive(type)
  PROVE  /\ state.prepared
         /\ Doing(SetupEffects) = {} /\ Answered(SetupMessages)' = {}
         /\ ~state.publishing =>
              /\ Only(BuildEffects, BuildMessages)
              /\ ~world.published /\ ~world.registered
              /\ Doing(FinishEffects) = {} /\ Answered(FinishMessages)' = {}
<1>1. Head(queue) \in Queued /\ Head(queue).type = type /\ Queued' \subseteq Queued
  BY ReceiveFrame
<1>2. type \notin SetupMessages \cup FinishMessages \cup Side
  BY DEF BuildMessages, SetupMessages, FinishMessages, Side
<1>3. state.prepared
  BY <1>1, <1>2 DEF Inv, SetupInv, Only
<1>4. Doing(SetupEffects) = {} /\ Answered(SetupMessages)' = {}
  BY <1>1, <1>3 DEF Inv, SetupInv, Answered
<1>5. ASSUME ~state.publishing
      PROVE  /\ ~world.published /\ ~world.registered
             /\ Only(BuildEffects, BuildMessages)
  <2>1. type # "Registered"
    BY DEF BuildMessages
  <2>2. ~Only({"Register"}, {"Registered"})
    BY <1>1, <1>2, <2>1 DEF Only
  <2> QED
    BY <1>3, <1>5, <2>2 DEF Inv, PhaseInv, BuildEffects, BuildMessages
<1>6. ASSUME ~state.publishing
      PROVE  Doing(FinishEffects) = {} /\ Answered(FinishMessages)' = {}
  BY <1>1, <1>5, <1>6 DEF Only, Doing, Answered, BuildEffects, BuildMessages, FinishEffects,
     FinishMessages, Emissions, Side
<1> QED
  BY <1>3, <1>4, <1>5, <1>6

(* What the step leaves of the invariant, whatever it starts of the build. *)
LEMMA NotedStill ==
  ASSUME Types, Inv, NEW type \in BuildMessages, Receive(type),
         NEW r, Moved(r), NEW n, Noted(r, n), Become(n, tasks),
         \A e \in n.effects : e.type \in Emissions \cup {"PublishInstall", "ExecuteItem"}
  PROVE  /\ Types' /\ Begun(n, tasks) /\ Running' = Running \cup n.effects
         /\ Queued' \subseteq Queued
         /\ SetupInv' /\ DownloadInv' /\ StageInv' /\ ReturnInv'
<1>1. Begun(n, tasks)
  BY BecomeStarts DEF Noted
<1>2. Types'
  <2>1. queue' \in Seq(Messages) /\ faults' \in 0 .. MaxFaults
    BY ReceiveFrame DEF Types
  <2> QED
    BY <2>1, BecomeTypes DEF Noted
<1>3. Running' = Running \cup n.effects
  BY <1>1 DEF Begun, Running
<1>4. Queued' \subseteq Queued
  BY ReceiveFrame
<1>5. \A e \in Running' : e \in Running \/
        e.type \in Emissions \cup {"PublishInstall", "ExecuteItem"}
  BY <1>3
<1>6. /\ Doing(SetupEffects)' \subseteq Doing(SetupEffects)
      /\ Doing({"Download"})' \subseteq Doing({"Download"})
      /\ Doing({"PrepareInstall"})' \subseteq Doing({"PrepareInstall"})
  BY <1>5 DEF Doing, SetupEffects, Emissions
<1>7. \A types : Answered(types)' \subseteq Answered(types)
  BY <1>4 DEF Answered
<1>8. /\ UNCHANGED <<plan, returned, world>> /\ Keys' = Keys
      /\ state'.prepared = r.prepared /\ state'.temporary = r.temporary
      /\ state'.wanted = r.wanted /\ state'.completed = r.completed
  BY <1>1 DEF Begun, Noted, Keys
<1>9. SetupInv'
  BY <1>6, <1>8, BuildHeard DEF SetupInv, Moved
<1>10. DownloadInv'
  BY <1>6, <1>7, <1>8 DEF Inv, DownloadInv, Moved
<1>11. StageInv'
  BY <1>6, <1>7, <1>8 DEF Inv, StageInv, Moved
<1>12. ReturnInv'
  BY <1>8, ReceiveFrame DEF ReturnInv
<1> QED
  BY <1>1, <1>2, <1>3, <1>4, <1>9, <1>10, <1>11, <1>12

(* Nothing can start, or the call fails.                                   *)
LEMMA NotedQuiet ==
  ASSUME Types, Inv, NEW type \in BuildMessages, Receive(type),
         NEW r, Moved(r), NEW n, Noted(r, n), Become(n, tasks),
         n.itemRunning = r.itemRunning, n.publishing = r.publishing,
         n.result = r.result \/ n.result = "err",
         \A e \in n.effects : e.type \in Emissions
  PROVE  Types' /\ Inv'
<1>1. /\ Types' /\ Begun(n, tasks) /\ Running' = Running \cup n.effects
      /\ Queued' \subseteq Queued
      /\ SetupInv' /\ DownloadInv' /\ StageInv' /\ ReturnInv'
  BY NotedStill
<1>2. LoneInv'
  <2>1. \A e, f \in n.effects : Rival(e, f) => e = f
    BY RivalApart
  <2>2. \A e \in n.effects, t \in tasks : ~Rival(e, t.effect) /\ ~Rival(t.effect, e)
    BY RivalApart
  <2>3. Lone'
    BY <2>1, <2>2, BecomeLone DEF Inv, LoneInv
  <2> QED
    BY <2>3, ReceiveFrame DEF LoneInv
<1>3. \A e \in Running' : e \in Running \/ e.type \in Emissions
  BY <1>1
<1>4. /\ Doing({"ExecuteItem"})' \subseteq Doing({"ExecuteItem"})
      /\ Doing(FinishEffects)' \subseteq Doing(FinishEffects)
  BY <1>3 DEF Doing, FinishEffects, Emissions
<1>5. \A types : Answered(types)' \subseteq Answered(types)
  BY <1>1 DEF Answered
<1>6. \A effects, messages : Only(effects, messages) => Only(effects, messages)'
  BY <1>1, <1>3 DEF Only
<1>7. /\ UNCHANGED <<plan, returned, world>>
      /\ state'.prepared = state.prepared /\ state'.temporary = r.temporary
      /\ state'.completed = r.completed /\ state'.next = r.next
      /\ state'.itemRunning = r.itemRunning /\ state'.publishing = state.publishing
      /\ state'.result = state.result \/ state'.result = "err"
  BY <1>1 DEF Begun, Noted, Moved
<1>8. ItemInv'
  <2>1. CASE r.itemRunning = state.itemRunning /\ r.next = state.next
    BY <1>4, <1>5, <1>7, <2>1 DEF Inv, ItemInv, Moved
  <2>2. CASE /\ state.itemRunning /\ ~r.itemRunning
             /\ Doing({"ExecuteItem"}) = {} /\ Answered({"ItemFinished"})' = {}
             /\ world.executed = r.next - 1
    BY <1>4, <1>7, <2>2 DEF ItemInv, Moved
  <2> QED
    BY <2>1, <2>2 DEF Moved
<1>9. FinishInv'
  <2>1. state.publishing => r.temporary /\ r.next = Len(plan) + 1 /\ ~r.itemRunning
    BY DEF Inv, FinishInv, ItemInv, Moved
  <2> QED
    BY <1>1, <1>4, <1>5, <1>7, <2>1 DEF Inv, FinishInv
<1>10. PhaseInv'
  BY <1>6, <1>7 DEF Inv, PhaseInv
<1> QED
  BY <1>1, <1>2, <1>8, <1>9, <1>10 DEF Inv

(* An item may start or the root be published: no item runs or is heard of.*)
LEMMA ItemsIdle ==
  ASSUME Types, Inv, NEW type \in BuildMessages, Receive(type), NEW r, Moved(r), ~Stalled(r)
  PROVE  /\ ~r.itemRunning /\ ~state.publishing /\ r.temporary /\ state.result = "none"
         /\ Doing({"ExecuteItem"}) = {} /\ Answered({"ItemFinished"})' = {}
         /\ world.executed = r.next - 1
<1>1. /\ ~r.itemRunning /\ ~state.publishing /\ r.temporary /\ state.result = "none"
  BY DEF Stalled, Moved
<1>2. CASE r.itemRunning = state.itemRunning /\ r.next = state.next
  <2>1. /\ Doing({"ExecuteItem"}) = {} /\ Answered({"ItemFinished"}) = {}
        /\ world.executed = r.next - 1
    BY <1>1, <1>2 DEF Inv, ItemInv
  <2> QED
    BY <1>1, <2>1, ReceiveFrame DEF Answered
<1> QED
  BY <1>1, <1>2 DEF Moved

(* The next item starts.                                                   *)
LEMMA NotedExecutes ==
  ASSUME Types, Inv, NEW type \in BuildMessages, Receive(type),
         NEW r, Moved(r), NEW n, Noted(r, n), Become(n, tasks),
         Executes(r, n), n.itemRunning, n.publishing = r.publishing, n.result = r.result,
         n.effects = {[type |-> "ExecuteItem", index |-> r.next]}
  PROVE  Types' /\ Inv'
<1> DEFINE x == [type |-> "ExecuteItem", index |-> r.next]
<1>0. x.type = "ExecuteItem" /\ x.index = r.next /\ n.effects = {x}
  OBVIOUS
<1> HIDE DEF x
<1>1. /\ Types' /\ Begun(n, tasks) /\ Running' = Running \cup {x}
      /\ Queued' \subseteq Queued
      /\ SetupInv' /\ DownloadInv' /\ StageInv' /\ ReturnInv'
  BY <1>0, NotedStill
<1>2. /\ ~r.itemRunning /\ ~state.publishing /\ r.temporary /\ state.result = "none"
      /\ Doing({"ExecuteItem"}) = {} /\ Answered({"ItemFinished"})' = {}
      /\ world.executed = r.next - 1
  BY ItemsIdle DEF Executes
<1>3. r.next \in DOMAIN plan /\ plan[r.next] \in r.completed
  <2>1. Len(plan) \in Nat /\ DOMAIN plan = 1 .. Len(plan)
    BY PlansAssumption, LenProperties DEF Types
  <2> QED
    BY <2>1 DEF Executes, Moved
<1>4. LoneInv'
  <2>1. \A e, f \in n.effects : Rival(e, f) => e = f
    BY <1>0
  <2>2. \A t \in tasks : t.effect.type # "ExecuteItem"
    BY <1>2 DEF Doing, Running
  <2>3. \A e \in n.effects, t \in tasks : ~Rival(e, t.effect) /\ ~Rival(t.effect, e)
    BY <1>0, <2>2 DEF Rival, SetupEffects, FinishEffects
  <2>4. Lone'
    BY <2>1, <2>3, BecomeLone DEF Inv, LoneInv
  <2> QED
    BY <2>4, ReceiveFrame DEF LoneInv
<1>5. /\ Only(BuildEffects, BuildMessages) /\ ~world.published /\ ~world.registered
      /\ Doing(FinishEffects) = {} /\ Answered(FinishMessages)' = {}
  BY <1>2, BuildHeard
<1>6. /\ Only(BuildEffects, BuildMessages)'
      /\ \A e \in Doing({"ExecuteItem"})' : e = x
      /\ Doing(FinishEffects)' = {}
  BY <1>0, <1>1, <1>2, <1>5 DEF Only, Doing, BuildEffects, FinishEffects
<1>7. /\ UNCHANGED <<plan, returned, world>>
      /\ state'.prepared = state.prepared /\ state'.temporary /\ state'.next = r.next
      /\ state'.completed = r.completed
      /\ state'.itemRunning /\ ~state'.publishing /\ state'.result = "none"
  BY <1>1, <1>2 DEF Begun, Noted, Moved
<1>8. ItemInv'
  BY <1>0, <1>2, <1>3, <1>6, <1>7 DEF ItemInv, Moved
<1>9. FinishInv'
  <2>1. \A m \in Queued' : m.type \notin {"Published", "Registered"}
    BY <1>5 DEF Answered, FinishMessages
  <2> QED
    BY <1>6, <1>7, <2>1 DEF FinishInv
<1>10. PhaseInv'
  BY <1>5, <1>6, <1>7 DEF PhaseInv, BuildEffects, BuildMessages
<1> QED
  BY <1>1, <1>4, <1>8, <1>9, <1>10 DEF Inv

(* The root is complete: it is published.                                  *)
LEMMA NotedPublishes ==
  ASSUME Types, Inv, NEW type \in BuildMessages, Receive(type),
         NEW r, Moved(r), NEW n, Noted(r, n), Become(n, tasks),
         Publishes(r, n), n.publishing, n.itemRunning = r.itemRunning, n.result = r.result,
         n.effects = {[type |-> "PublishInstall"]}
  PROVE  Types' /\ Inv'
<1> DEFINE x == [type |-> "PublishInstall"]
<1>0. x.type = "PublishInstall" /\ n.effects = {x}
  OBVIOUS
<1> HIDE DEF x
<1>1. /\ Types' /\ Begun(n, tasks) /\ Running' = Running \cup {x}
      /\ Queued' \subseteq Queued
      /\ SetupInv' /\ DownloadInv' /\ StageInv' /\ ReturnInv'
  BY <1>0, NotedStill
<1>2. /\ ~r.itemRunning /\ ~state.publishing /\ r.temporary /\ state.result = "none"
      /\ Doing({"ExecuteItem"}) = {} /\ Answered({"ItemFinished"})' = {}
      /\ world.executed = r.next - 1
  BY ItemsIdle DEF Publishes
<1>3. r.next = Len(plan) + 1 /\ \A k \in Keys : k \in r.completed
  <2>1. Len(plan) \in Nat /\ DOMAIN plan = 1 .. Len(plan)
    BY PlansAssumption, LenProperties DEF Types
  <2>2. r.next = Len(plan) + 1
    BY <2>1 DEF Publishes, Moved
  <2> QED
    BY <2>1, <2>2 DEF Keys, Moved
<1>4. LoneInv'
  <2>1. \A e, f \in n.effects : Rival(e, f) => e = f
    BY <1>0
  <2>2. \A t \in tasks : t.effect.type \notin FinishEffects
    BY <1>2, BuildHeard DEF Doing, Running
  <2>3. \A e \in n.effects, t \in tasks : ~Rival(e, t.effect) /\ ~Rival(t.effect, e)
    BY <1>0, <2>2 DEF Rival, SetupEffects, FinishEffects
  <2>4. Lone'
    BY <2>1, <2>3, BecomeLone DEF Inv, LoneInv
  <2> QED
    BY <2>4, ReceiveFrame DEF LoneInv
<1>5. /\ state.prepared
      /\ Only(BuildEffects, BuildMessages) /\ ~world.published /\ ~world.registered
      /\ Doing(FinishEffects) = {} /\ Answered(FinishMessages)' = {}
  BY <1>2, BuildHeard
<1>6. Doing({"Download"}) = {} /\ Doing({"PrepareInstall"}) = {}
  <2>1. world.staged
    BY <1>2 DEF Moved
  <2>2. \A e \in Doing({"Download"}) : e.key \in Keys /\ e.key \notin r.completed
    BY DEF Inv, DownloadInv, Moved
  <2> QED
    BY <1>3, <2>1, <2>2 DEF Inv, StageInv
<1>7. \A e \in Running : e.type \in Emissions
  BY <1>2, <1>5, <1>6 DEF Only, Doing, BuildEffects
<1>8. /\ \A e \in Running' : e.type \in Emissions \/ e = x
      /\ \A m \in Queued' : m.type \in {"DownloadFinished", "InstallPrepared"} \cup Side
  BY <1>1, <1>2, <1>5, <1>7 DEF Only, Answered, BuildMessages
<1>9. /\ UNCHANGED <<plan, returned, world>>
      /\ state'.prepared /\ state'.temporary /\ state'.next = r.next
      /\ state'.completed = r.completed
      /\ ~state'.itemRunning /\ state'.publishing /\ state'.result = "none"
  BY <1>1, <1>2, <1>5 DEF Begun, Noted, Moved
<1>10. Doing({"ExecuteItem"})' = {}
  BY <1>0, <1>8 DEF Doing, Emissions
<1>11. ItemInv'
  BY <1>2, <1>9, <1>10 DEF ItemInv, Moved
<1>12. FinishInv'
  <2>1. \A m \in Queued' : m.type \notin {"Published", "Registered"}
    BY <1>8 DEF Side
  <2>2. \A e \in Doing(FinishEffects)' : e.type = "PublishInstall"
    BY <1>0, <1>8 DEF Doing, FinishEffects, Emissions
  <2> QED
    BY <1>2, <1>3, <1>5, <1>9, <2>1, <2>2 DEF FinishInv
<1>13. PhaseInv'
  <2>1. Only(FinishEffects, FinishMessages \cup {"DownloadFinished", "InstallPrepared"})'
    BY <1>0, <1>8 DEF Only, FinishEffects
  <2> QED
    BY <1>9, <2>1 DEF PhaseInv
<1> QED
  BY <1>1, <1>4, <1>11, <1>12, <1>13 DEF Inv

(* What can start is tried, or the call fails.                             *)
LEMMA NotedAdvances ==
  ASSUME Types, Inv, NEW type \in BuildMessages, Receive(type),
         NEW r, Moved(r), Become(Advance(r), tasks)
  PROVE  Types' /\ Inv'
<1> DEFINE n == Advance(r)
<1>1. Noted(r, n)
  BY AdvanceType DEF Moved, Noted
<1>2. CASE n = r
  <2>1. \A e \in n.effects : e.type \in Emissions
    BY <1>2 DEF Moved
  <2> HIDE DEF n
  <2>2. Become(n, tasks)
    BY DEF n
  <2> QED
    BY <1>1, <1>2, <2>1, <2>2, NotedQuiet
<1>3. CASE Publishes(r, n)
  <2>1. /\ n.publishing /\ n.itemRunning = r.itemRunning /\ n.result = r.result
        /\ n.effects = {[type |-> "PublishInstall"]} /\ Become(n, tasks)
    BY <1>3, AdvanceType DEF Moved
  <2> HIDE DEF n
  <2> QED
    BY <1>1, <1>3, <2>1, NotedPublishes
<1>4. CASE Executes(r, n)
  <2>1. /\ n.itemRunning /\ n.publishing = r.publishing /\ n.result = r.result
        /\ n.effects = {[type |-> "ExecuteItem", index |-> r.next]} /\ Become(n, tasks)
    BY <1>4, AdvanceType DEF Moved
  <2> HIDE DEF n
  <2> QED
    BY <1>1, <1>4, <2>1, NotedExecutes
<1> QED
  BY <1>2, <1>3, <1>4, AdvanceCases

(* A download or an item that failed.                                      *)
LEMMA NotedFails ==
  ASSUME Types, Inv, NEW type \in BuildMessages, Receive(type),
         NEW r, Moved(r), Become(FailCreate(r), tasks)
  PROVE  Types' /\ Inv'
<1>1. r \in CreateState /\ r.effects = {}
  BY DEF Moved
<1>2. Kept(r, FailCreate(r))
  BY <1>1, FailKept
<1> DEFINE n == FailCreate(r)
<1>3. Become(n, tasks) /\ Kept(r, n)
  BY <1>2
<1> HIDE DEF n
<1>4. /\ Noted(r, n) /\ n.itemRunning = r.itemRunning /\ n.publishing = r.publishing
      /\ n.result = r.result \/ n.result = "err"
      /\ \A e \in n.effects : e.type \in Emissions
  BY <1>1, <1>3 DEF Noted, Kept
<1> QED
  BY <1>3, <1>4, NotedQuiet

(* The state as it is stays noted.                                         *)
LEMMA MovedSame ==
  ASSUME Types, Inv
  PROVE  Moved(state)
<1>1. \A e \in Doing({"Download"}) : e.key \notin state.completed
  BY DEF Inv, DownloadInv
<1> QED
  BY <1>1 DEF Types, Inv, DownloadInv, StageInv, ItemInv, Moved

(* The temporary root is there, or could not be made.                      *)
LEMMA InstallPreparedInv ==
  ASSUME Types, Inv, InstallPrepared
  PROVE  Types' /\ Inv'
<1> DEFINE m == Head(queue)
           r == [state EXCEPT !.temporary = TRUE]
<1>1. Receive("InstallPrepared") /\ "InstallPrepared" \in BuildMessages /\ state \in CreateState
  BY DEF InstallPrepared, BuildMessages, Types
<1>2. CASE ~m.ok
  BY <1>1, <1>2, CalmReceive, FailKept DEF InstallPrepared
<1>3. CASE m.ok /\ state.result = "none"
  <2>1. world.staged
    BY <1>1, <1>3, ReceiveFrame DEF Inv, StageInv, Answered
  <2>2. Moved(r)
    <3>1. /\ r \in CreateState /\ r.temporary
          /\ r.prepared = state.prepared /\ r.publishing = state.publishing
          /\ r.result = state.result /\ r.wanted = state.wanted
          /\ r.completed = state.completed /\ r.next = state.next
          /\ r.itemRunning = state.itemRunning /\ r.effects = state.effects
      BY <1>1 DEF CreateState
    <3> HIDE DEF r
    <3> QED
      BY <2>1, <3>1, MovedSame DEF Moved
  <2>3. Become(Advance(r), tasks)
    BY <1>3 DEF InstallPrepared, Staged
  <2> HIDE DEF r
  <2> QED
    BY <1>1, <2>2, <2>3, NotedAdvances
<1>4. CASE m.ok /\ state.result # "none"
  BY <1>1, <1>4, CalmReceive, KeptSame DEF InstallPrepared
<1> QED
  BY <1>2, <1>3, <1>4

(* A download is there, or failed.                                         *)
LEMMA DownloadFinishedInv ==
  ASSUME Types, Inv, DownloadFinished
  PROVE  Types' /\ Inv'
<1> DEFINE m == Head(queue)
           d == m.key
           left == [state EXCEPT !.wanted = @ \ {d}]
           done == [left EXCEPT !.completed = @ \cup {d}]
           lost == [left EXCEPT !.downloadFailed = TRUE]
           ignored == state.downloadFailed \/ d \notin state.wanted
<1>1. /\ Receive("DownloadFinished") /\ "DownloadFinished" \in BuildMessages
      /\ state \in CreateState /\ state.effects = {}
  BY DEF DownloadFinished, BuildMessages, Types
<1>2. m \in Answered({"DownloadFinished"}) /\ d \in Dl
  BY <1>1, ReceiveFrame DEF Answered, Messages, Chatter, Told
<1>3. CASE ignored
  BY <1>1, <1>3, CalmReceive, KeptSame DEF DownloadFinished
<1>4. /\ left \in CreateState /\ left.wanted = state.wanted \ {d}
      /\ left.prepared = state.prepared /\ left.publishing = state.publishing
      /\ left.result = state.result /\ left.temporary = state.temporary
      /\ left.completed = state.completed /\ left.next = state.next
      /\ left.itemRunning = state.itemRunning /\ left.effects = {}
  BY <1>1 DEF CreateState
<1> HIDE DEF m, d
<1>5. CASE ~ignored /\ m.ok
  <2>1. /\ done \in CreateState /\ done.wanted = state.wanted \ {d}
        /\ done.prepared = state.prepared /\ done.publishing = state.publishing
        /\ done.result = state.result /\ done.temporary = state.temporary
        /\ done.completed = state.completed \cup {d} /\ done.next = state.next
        /\ done.itemRunning = state.itemRunning /\ done.effects = {}
    <3> HIDE DEF left
    <3> QED
      BY <1>2, <1>4 DEF CreateState
  <2>2. d \in world.fetched /\ \A e \in Doing({"Download"}) : e.key # d
    BY <1>2, <1>5 DEF Inv, DownloadInv, d
  <2>3. Become(Advance(done), tasks)
    BY <1>5 DEF DownloadFinished, m, d
  <2> HIDE DEF done
  <2>4. Moved(done)
    BY <2>1, <2>2, MovedSame DEF Moved
  <2> QED
    BY <1>1, <2>3, <2>4, NotedAdvances
<1>6. CASE ~ignored /\ ~m.ok
  <2>1. /\ lost \in CreateState /\ lost.wanted = state.wanted \ {d}
        /\ lost.prepared = state.prepared /\ lost.publishing = state.publishing
        /\ lost.result = state.result /\ lost.temporary = state.temporary
        /\ lost.completed = state.completed /\ lost.next = state.next
        /\ lost.itemRunning = state.itemRunning /\ lost.effects = {}
    <3> HIDE DEF left
    <3> QED
      BY <1>4 DEF CreateState
  <2>2. Become(FailCreate(lost), tasks)
    BY <1>6 DEF DownloadFinished, m, d
  <2> HIDE DEF lost
  <2>3. Moved(lost)
    BY <2>1, MovedSame DEF Moved
  <2> QED
    BY <1>1, <2>2, <2>3, NotedFails
<1> QED
  BY <1>3, <1>5, <1>6

(* An item is in the root, or failed.                                      *)
LEMMA ItemFinishedInv ==
  ASSUME Types, Inv, ItemFinished
  PROVE  Types' /\ Inv'
<1> DEFINE m == Head(queue)
           idle == [state EXCEPT !.itemRunning = FALSE]
           after == [idle EXCEPT !.next = @ + 1]
           ignored == state.result # "none" \/ ~state.itemRunning \/ m.index # state.next
<1>1. /\ Receive("ItemFinished") /\ "ItemFinished" \in BuildMessages
      /\ state \in CreateState /\ state.effects = {}
  BY DEF ItemFinished, BuildMessages, Types
<1>2. CASE ignored
  BY <1>1, <1>2, CalmReceive, KeptSame DEF ItemFinished
<1>3. /\ m \in Answered({"ItemFinished"})
      /\ Doing({"ExecuteItem"}) = {} /\ Answered({"ItemFinished"})' = {}
  BY <1>1, ReceiveFrame DEF Answered
<1>4. /\ idle \in CreateState /\ idle.itemRunning = FALSE
      /\ idle.prepared = state.prepared /\ idle.publishing = state.publishing
      /\ idle.result = state.result /\ idle.temporary = state.temporary
      /\ idle.wanted = state.wanted /\ idle.completed = state.completed
      /\ idle.next = state.next /\ idle.effects = {}
  BY <1>1 DEF CreateState
<1> HIDE DEF m
<1>5. /\ state.next \in DOMAIN plan /\ plan[state.next] \in state.completed
      /\ world.executed = IF m.ok THEN state.next ELSE state.next - 1
  BY <1>3 DEF Inv, ItemInv
<1>6. CASE ~ignored /\ m.ok
  <2>1. /\ after \in CreateState /\ after.itemRunning = FALSE
        /\ after.prepared = state.prepared /\ after.publishing = state.publishing
        /\ after.result = state.result /\ after.temporary = state.temporary
        /\ after.wanted = state.wanted /\ after.completed = state.completed
        /\ after.next = state.next + 1 /\ after.effects = {}
    <3> HIDE DEF idle
    <3> DEFINE following == state.next + 1
    <3>1. idle.next = state.next /\ following \in Nat
      BY <1>1, <1>4 DEF CreateState
    <3>2. after = [idle EXCEPT !.next = following]
      BY <3>1
    <3> HIDE DEF following, after
    <3>3. /\ after \in CreateState /\ after.itemRunning = idle.itemRunning
          /\ after.prepared = idle.prepared /\ after.publishing = idle.publishing
          /\ after.result = idle.result /\ after.temporary = idle.temporary
          /\ after.wanted = idle.wanted /\ after.completed = idle.completed
          /\ after.next = following /\ after.effects = idle.effects
      BY <1>4, <3>1, <3>2 DEF CreateState
    <3> QED
      BY <1>4, <3>3 DEF following
  <2>2. /\ after.next \in 1 .. (Len(plan) + 1)
        /\ \A i \in 1 .. (after.next - 1) : plan[i] \in state.completed
        /\ world.executed = after.next - 1
    <3>1. Len(plan) \in Nat /\ DOMAIN plan = 1 .. Len(plan)
      BY PlansAssumption, LenProperties DEF Types
    <3>2. \A i \in 1 .. (state.next - 1) : plan[i] \in state.completed
      BY DEF Inv, ItemInv
    <3>3. /\ state.next \in 1 .. Len(plan) /\ plan[state.next] \in state.completed
          /\ world.executed = state.next /\ after.next = state.next + 1
      BY <1>5, <1>6, <2>1, <3>1
    <3> HIDE DEF after
    <3>4. after.next \in 1 .. (Len(plan) + 1) /\ world.executed = after.next - 1
      BY <3>1, <3>3
    <3>5. \A i \in 1 .. (after.next - 1) : i \in 1 .. (state.next - 1) \/ i = state.next
      BY <3>1, <3>3
    <3> QED
      BY <3>2, <3>3, <3>4, <3>5
  <2>3. Become(Advance(after), tasks)
    BY <1>6 DEF ItemFinished, m
  <2> HIDE DEF after
  <2>4. Moved(after)
    BY <1>3, <1>6, <2>1, <2>2, MovedSame DEF Moved
  <2> QED
    BY <1>1, <2>3, <2>4, NotedAdvances
<1>7. CASE ~ignored /\ ~m.ok
  <2>1. Become(FailCreate(idle), tasks)
    BY <1>7 DEF ItemFinished, m
  <2> HIDE DEF idle
  <2>2. world.executed = idle.next - 1
    BY <1>4, <1>5, <1>7
  <2>3. Moved(idle)
    BY <1>3, <1>4, <1>7, <2>2, MovedSame DEF Moved
  <2> QED
    BY <1>1, <2>1, <2>3, NotedFails
<1> QED
  BY <1>2, <1>6, <1>7

-----------------------------------------------------------------------------
(* The end of the call.                                                    *)

(* The installation is published, or not: what is published is registered. *)
LEMMA PublishedInv ==
  ASSUME Types, Inv, Published
  PROVE  Types' /\ Inv'
<1> DEFINE m == Head(queue)
           x == [type |-> "Register"]
           s == Enqueue(state, PlanKey, Completed)
           n == Effect(s, x)
<1>1. Receive("Published") /\ state \in CreateState /\ state.effects = {}
  BY DEF Published, Types
<1>2. CASE ~m.ok
  BY <1>1, <1>2, CalmReceive, FailKept DEF Published
<1>3. CASE m.ok
  <2>1. Become(n, tasks)
    BY <1>3 DEF Published
  <2>2. Kept(state, s) /\ s \in CreateState
    <3>1. PlanKey \in Target /\ Completed \in Events
      BY DEF Target, Completed, Events
    <3>2. Kept(state, s)
      BY <1>1, <3>1, EnqueueKept
    <3> HIDE DEF s
    <3> QED
      BY <3>2 DEF Kept
  <2>3. x \in Effects /\ x.type = "Register"
    BY DEF Effects, FinishEffects
  <2> HIDE DEF s, x
  <2>4. /\ n \in CreateState /\ n.effects = s.effects \cup {x}
        /\ n.prepared = state.prepared /\ n.temporary = state.temporary
        /\ n.wanted = state.wanted /\ n.completed = state.completed
        /\ n.next = state.next /\ n.itemRunning = state.itemRunning
        /\ n.publishing = state.publishing
        /\ n.result = state.result \/ n.result = "err"
    <3>1. n \in CreateState /\ n = [s EXCEPT !.effects = s.effects \cup {x}]
      BY <2>2, <2>3, EffectType
    <3> HIDE DEF n
    <3> QED
      BY <2>2, <3>1 DEF CreateState, Kept
  <2> HIDE DEF n
  <2>5. Begun(n, tasks)
    BY <2>1, <2>4, BecomeStarts
  <2>6. Types'
    <3>1. queue' \in Seq(Messages) /\ faults' \in 0 .. MaxFaults
      BY <1>1, ReceiveFrame DEF Types
    <3> QED
      BY <2>1, <2>4, <3>1, BecomeTypes
  <2>7. /\ m \in Queued /\ m.type = "Published" /\ Queued' \subseteq Queued
        /\ Doing(FinishEffects) = {} /\ Answered(FinishMessages)' = {}
    BY <1>1, ReceiveFrame DEF FinishMessages
  <2>8. m.ok \in BOOLEAN
    BY <1>1, ReceiveFrame DEF Messages, Chatter, Told
  <2> HIDE DEF m
  <2>9. /\ state.publishing /\ state.prepared /\ world.published /\ ~world.registered
        /\ state.result # "ok"
    BY <1>3, <2>7, <2>8 DEF Inv, FinishInv
  <2>10. \A e \in s.effects : e.type \in Emissions
    BY <1>1, <2>2 DEF Kept
  <2>11. \A e \in Running' : e \in Running \/ e.type \in Emissions \/ e = x
    BY <2>4, <2>5, <2>10 DEF Begun, Running
  <2>12. LoneInv'
    <3>1. \A e, f \in n.effects : Rival(e, f) => e = f
      BY <2>4, <2>10, RivalApart
    <3>2. \A t \in tasks : t.effect.type \notin FinishEffects
      BY <2>7 DEF Doing, Running
    <3>3. \A t \in tasks : ~Rival(x, t.effect) /\ ~Rival(t.effect, x)
      BY <2>3, <3>2 DEF Rival, SetupEffects
    <3>4. \A e \in n.effects, t \in tasks : ~Rival(e, t.effect) /\ ~Rival(t.effect, e)
      BY <2>4, <2>10, <3>3, RivalApart
    <3>5. Lone'
      BY <2>1, <3>1, <3>4, BecomeLone DEF Inv, LoneInv
    <3> QED
      BY <1>1, <3>5, ReceiveFrame DEF LoneInv
  <2>13. /\ Doing(SetupEffects)' \subseteq Doing(SetupEffects)
         /\ Doing({"Download"})' \subseteq Doing({"Download"})
         /\ Doing({"PrepareInstall"})' \subseteq Doing({"PrepareInstall"})
         /\ Doing({"ExecuteItem"})' \subseteq Doing({"ExecuteItem"})
         /\ \A e \in Doing(FinishEffects)' : e = x
    BY <2>3, <2>7, <2>11 DEF Doing, SetupEffects, FinishEffects, Emissions
  <2>14. \A types : Answered(types)' \subseteq Answered(types)
    BY <2>7 DEF Answered
  <2>15. /\ UNCHANGED <<plan, world, returned>> /\ Keys' = Keys /\ Unmoved
         /\ state'.result # "ok"
    BY <2>4, <2>5, <2>9 DEF Begun, Unmoved, Keys
  <2>16. SetupInv'
    BY <2>9, <2>13, <2>14, <2>15 DEF Inv, SetupInv, Unmoved
  <2>17. DownloadInv' /\ StageInv'
    BY <2>13, <2>14, <2>15 DEF Inv, DownloadInv, StageInv, Unmoved
  <2>18. ItemInv'
    BY <2>13, <2>14, <2>15 DEF Inv, ItemInv, Unmoved
  <2>19. FinishInv'
    <3>1. \A q \in Queued' : q.type \notin {"Published", "Registered"}
      BY <2>7 DEF Answered, FinishMessages
    <3>2. Answered(FinishMessages)' = {} /\ FinishInv
      BY <2>7 DEF Inv
    <3> QED
      BY <2>3, <2>9, <2>13, <2>15, <3>1, <3>2 DEF FinishInv, Unmoved
  <2>20. PhaseInv'
    <3>1. Only(FinishEffects, FinishMessages \cup {"DownloadFinished", "InstallPrepared"})
      BY <2>9 DEF Inv, PhaseInv
    <3>2. Only(FinishEffects, FinishMessages \cup {"DownloadFinished", "InstallPrepared"})'
      BY <2>3, <2>7, <2>11, <3>1 DEF Only, FinishEffects
    <3> QED
      BY <2>9, <2>15, <3>2 DEF PhaseInv, Unmoved
  <2>21. ReturnInv'
    BY <1>1, <2>15, ReceiveFrame DEF ReturnInv
  <2> QED
    BY <2>6, <2>12, <2>16, <2>17, <2>18, <2>19, <2>20, <2>21 DEF Inv
<1> QED
  BY <1>2, <1>3

(* The installation is registered, or not: this is the outcome, unless the *)
(* call has failed.                                                        *)
LEMMA RegisteredInv ==
  ASSUME Types, Inv, Registered
  PROVE  Types' /\ Inv'
<1> DEFINE m == Head(queue)
           s == [state EXCEPT !.result =
                   IF @ = "none" THEN (IF m.ok THEN "ok" ELSE "err") ELSE @]
<1>1. Receive("Registered") /\ state \in CreateState /\ state.effects = {}
  BY DEF Registered, Types
<1>2. Become(s, tasks)
  BY DEF Registered
<1>3. /\ m \in Queued /\ m.type = "Registered" /\ Queued' \subseteq Queued
      /\ queue' \in Seq(Messages) /\ faults' \in 0 .. MaxFaults /\ ~returned
      /\ m.ok \in BOOLEAN
  BY <1>1, ReceiveFrame DEF Types, Messages, Chatter, Told
<1>4. /\ s \in CreateState /\ s.effects = {}
      /\ s.prepared = state.prepared /\ s.temporary = state.temporary
      /\ s.wanted = state.wanted /\ s.completed = state.completed
      /\ s.next = state.next /\ s.itemRunning = state.itemRunning
      /\ s.publishing = state.publishing
      /\ s.result = state.result \/ s.result = "err" \/ m.ok
  BY <1>1 DEF CreateState
<1> HIDE DEF m, s
<1>5. m.ok => world.registered
  BY <1>3 DEF Inv, FinishInv
<1>6. Begun(s, tasks)
  BY <1>2, <1>4, BecomeStarts
<1>7. Types'
  BY <1>2, <1>3, <1>4, BecomeTypes
<1>8. Running' = Running
  BY <1>4, <1>6 DEF Begun, Running
<1>9. Calm
  BY <1>3, <1>4, <1>5, <1>6, <1>8 DEF Calm, Unmoved, Begun
<1>10. LoneInv'
  <2>1. Lone'
    BY <1>2, <1>4, BecomeLone DEF Inv, LoneInv
  <2> QED
    BY <1>1, <2>1, ReceiveFrame DEF LoneInv
<1>11. ReturnInv'
  BY <1>3, <1>6 DEF Begun, ReturnInv
<1> QED
  BY <1>7, <1>9, <1>10, <1>11, CalmStill DEF Inv

-----------------------------------------------------------------------------
(* The invariant of every execution.                                       *)

(* A call starts with its first effect and nothing done (run_create).      *)
LEMMA CallInit == Init => Types /\ Inv
<1> SUFFICES ASSUME Init PROVE Types /\ Inv
  OBVIOUS
<1>1. PICK first \in {"Prepare", "AcquireRequestLock"} :
        tasks = {[effect |-> [type |-> first], left |-> <<>>]}
  BY DEF Init
<1> DEFINE e == [type |-> first]
           u == [effect |-> e, left |-> <<>>]
<1>2. /\ u \in Tasks /\ u.effect = e /\ e.type \in SetupEffects /\ u.left = <<>>
      /\ e.type \notin Emissions
  BY DEF Tasks, Effects, SetupEffects, Emissions
<1>3. tasks = {u}
  BY <1>1
<1> HIDE DEF e, u
<1>4. Running = {e}
  BY <1>2, <1>3 DEF Running
<1>5. queue = <<>> /\ Queued = {} /\ queue \in Seq(Messages) /\ DOMAIN queue = {}
  BY DEF Init, Queued
<1>6. NoStatus \in Status
  BY DEF Status
<1>7. state \in CreateState /\ state.effects = {}
  BY <1>6 DEF Init, CreateState
<1>8. /\ ~state.prepared /\ ~state.temporary /\ ~state.itemRunning /\ ~state.publishing
      /\ state.wanted = {} /\ state.completed = {} /\ state.next = 1
      /\ state.result = "none"
      /\ world.fetched = {} /\ ~world.staged /\ world.executed = 0
      /\ ~world.published /\ ~world.registered /\ returned = FALSE
  BY DEF Init
<1>9. Types
  <2>1. /\ plan \in Plans /\ sent \in [Target -> Status] /\ faults \in 0 .. MaxFaults
        /\ world \in [fetched : SUBSET Dl, staged : BOOLEAN, executed : Nat,
                      published : BOOLEAN, registered : BOOLEAN]
    BY <1>6, BoundsAssumption DEF Init
  <2> QED
    BY <1>2, <1>3, <1>5, <1>7, <1>8, <2>1 DEF Types
<1>10. LoneInv
  BY <1>3, <1>5 DEF LoneInv, Lone, Once
<1>11. \A types : Answered(types) = {}
  BY <1>5 DEF Answered
<1>12. /\ Doing({"Download"}) = {} /\ Doing({"PrepareInstall"}) = {}
       /\ Doing({"ExecuteItem"}) = {} /\ Doing(FinishEffects) = {}
  BY <1>2, <1>4 DEF Doing, SetupEffects, FinishEffects
<1>13. SetupInv
  BY <1>2, <1>4, <1>5, <1>8, <1>11 DEF SetupInv, Only
<1>14. DownloadInv /\ StageInv
  BY <1>8, <1>11, <1>12 DEF DownloadInv, StageInv
<1>15. ItemInv
  <2>1. Len(plan) \in Nat
    BY <1>9, PlansAssumption, LenProperties DEF Types
  <2> QED
    BY <1>8, <1>11, <1>12, <2>1 DEF ItemInv
<1>16. FinishInv /\ PhaseInv /\ ReturnInv
  BY <1>5, <1>8, <1>11, <1>12 DEF FinishInv, PhaseInv, ReturnInv
<1> QED
  BY <1>9, <1>10, <1>13, <1>14, <1>15, <1>16 DEF Inv

(* Each event the reducer takes keeps the invariant (handle).              *)
LEMMA DispatchInv ==
  ASSUME Types, Inv, Dispatch
  PROVE  Types' /\ Inv'
BY SetupInvStep, InstallAcquiredInv, InstallPreparedInv, DownloadFinishedInv,
   ItemFinishedInv, PublishedInv, RegisteredInv, ProgressInv DEF Dispatch

(* The call returns once nothing of it runs or is left to hear.            *)
LEMMA ReturnStep ==
  ASSUME Types, Inv, Return
  PROVE  Types' /\ Inv'
<1>1. /\ UNCHANGED <<plan, state, tasks, queue, sent, world, faults>>
      /\ returned' = TRUE /\ tasks = {} /\ queue = <<>> /\ state.result # "none"
  BY DEF Return, Over
<1>2. Running' = Running /\ Queued' = Queued /\ Keys' = Keys
  BY <1>1 DEF Running, Queued, Keys
<1>3. Types'
  BY <1>1 DEF Types
<1>4. LoneInv'
  BY <1>1 DEF Inv, LoneInv, Lone, Once
<1>5. Calm
  BY <1>1, <1>2 DEF Calm, Unmoved
<1>6. ReturnInv'
  BY <1>1 DEF ReturnInv
<1> QED
  BY <1>3, <1>4, <1>5, <1>6, CalmStill DEF Inv

(* A step that changes nothing.                                            *)
LEMMA StillInv ==
  ASSUME Types, Inv, UNCHANGED vars
  PROVE  Types' /\ Inv'
<1>1. UNCHANGED <<plan, state, tasks, queue, returned, sent, world, faults>>
  BY DEF vars
<1>2. Running' = Running /\ Queued' = Queued
  BY <1>1 DEF Running, Queued
<1>3. Types'
  BY <1>1 DEF Types
<1>4. LoneInv'
  BY <1>1 DEF Inv, LoneInv, Lone, Once
<1>5. Calm
  BY <1>1, <1>2 DEF Calm, Unmoved
<1>6. ReturnInv'
  BY <1>1 DEF Inv, ReturnInv
<1> QED
  BY <1>3, <1>4, <1>5, <1>6, CalmStill DEF Inv

(* Every reachable state of a call: one token at a time of each kind of    *)
(* effect, the phases in order, and the reducer's notes true of what its   *)
(* tasks have done (run_create, handle, advance_items).                    *)
THEOREM CallInvariant == Spec => [](Types /\ Inv)
<1>1. Init => Types /\ Inv
  BY CallInit
<1>2. (Types /\ Inv) /\ [Next]_vars => (Types /\ Inv)'
  <2> SUFFICES ASSUME Types, Inv, [Next]_vars PROVE (Types /\ Inv)'
    OBVIOUS
  <2>1. ASSUME NEW t \in tasks, RunTask(t) PROVE Types' /\ Inv'
    BY <2>1, TaskTypes, TaskInv DEF Inv
  <2>2. ASSUME NEW t \in tasks, FailEmission(t) \/ JoinPanic(t) PROVE Types' /\ Inv'
    BY <2>2, FailEmissionInv, PanicInv
  <2>3. CASE Dispatch
    BY <2>3, DispatchInv
  <2>4. CASE Return
    BY <2>4, ReturnStep
  <2>5. CASE Quiet \/ UNCHANGED vars
    BY <2>5, StillInv DEF Quiet
  <2> QED
    BY <2>1, <2>2, <2>3, <2>4, <2>5 DEF Next, Work
<1> QED
  BY <1>1, <1>2, PTL DEF Spec

(* The reducer's state is well formed whatever answers come, in whatever   *)
(* order: what it wants and has is of the plan, the next item is one of    *)
(* the plan or its end, and no effect is left to start between two events. *)
THEOREM CallTypeOK == Spec => []TypeOK
<1>1. Types /\ Inv => TypeOK
  <2> SUFFICES ASSUME Types, Inv PROVE TypeOK
    OBVIOUS
  <2>1. /\ state.wanted \subseteq Keys /\ state.completed \subseteq Keys
        /\ world.fetched \subseteq Keys /\ state.next \in 1 .. (Len(plan) + 1)
    BY DEF Inv, DownloadInv, ItemInv
  <2>2. /\ state.prepared \in BOOLEAN /\ state.waited \in BOOLEAN
        /\ state.temporary \in BOOLEAN /\ state.downloadFailed \in BOOLEAN
        /\ state.itemRunning \in BOOLEAN /\ state.publishing \in BOOLEAN
        /\ state.status \in [Target -> Status] /\ state.busy \subseteq Target
        /\ state.result \in {"none", "ok", "err"}
    BY DEF Types, CreateState
  <2> QED
    BY <2>1, <2>2 DEF Types, TypeOK
<1> QED
  BY <1>1, CallInvariant, PTL

-----------------------------------------------------------------------------
(* A call does to the store what its plan says, in order.                  *)

(* The reducer's own steps leave the world to the tasks.                   *)
LEMMA DispatchStill ==
  ASSUME Dispatch \/ \E t \in tasks : FailEmission(t) \/ JoinPanic(t)
  PROVE  UNCHANGED <<plan, world, returned>> /\ (returned => state' = state)
<1>1. CASE Dispatch
  BY <1>1 DEF Dispatch, RequestLockAcquired, Prepared, InstallAcquired, InstallPrepared,
     DownloadFinished, ItemFinished, Published, Registered, ProgressEvent, ObservedStatus,
     ProgressApplied, StatusForwarded, EffectFailed, Become, Receive
<1>2. ASSUME NEW t \in tasks, FailEmission(t) \/ JoinPanic(t)
      PROVE  UNCHANGED <<plan, world, returned>> /\ (returned => state' = state)
  BY <1>2 DEF FailEmission, JoinPanic, Become
<1> QED
  BY <1>1, <1>2

(* Whatever order downloads, items and progress answer in, and whatever    *)
(* fails or panics, a call fetches what its plan names, executes the items *)
(* in order into a staged root, publishes the root once all are there,     *)
(* registers only what is published, returns Ok only when it has           *)
(* registered, and touches nothing afterwards (advance_items, run_create). *)
THEOREM CallImplementsBuild == Spec => ImplementsBuild
<1>1. Init => Build!Init
  BY DEF Init, Build!Init
<1>2. Types /\ Inv /\ [Next]_vars => [Build!Next]_Build!vars
  <2> SUFFICES ASSUME Types, Inv, [Next]_vars PROVE [Build!Next]_Build!vars
    OBVIOUS
  <2>1. ASSUME UNCHANGED <<plan, world, returned>>, returned => state' = state
        PROVE  UNCHANGED Build!vars
    BY <2>1 DEF Build!vars
  <2>2. CASE Dispatch \/ \E t \in tasks : FailEmission(t) \/ JoinPanic(t)
    BY <2>1, <2>2, DispatchStill
  <2>3. ASSUME NEW t \in tasks, RunTask(t)
        PROVE  [Build!Next]_Build!vars
    <3>1. UNCHANGED <<plan, state, returned>> /\ ~returned
      BY <2>3 DEF RunTask, Inv, ReturnInv
    <3>2. BuildStep
      BY <2>3, TaskInv
    <3>3. CASE world' = world
      BY <2>1, <3>1, <3>3
    <3>4. CASE \/ Build!Reuse \/ Build!Fetch \/ Build!Stage \/ Build!Execute
               \/ Build!Publish \/ Build!Register
      BY <3>1, <3>4 DEF Build!Next
    <3> QED
      BY <3>2, <3>3, <3>4 DEF BuildStep
  <2>4. CASE Return
    <3>1. /\ UNCHANGED <<plan, state, world>> /\ returned' = TRUE /\ returned = FALSE
          /\ state.result # "none"
      BY <2>4 DEF Return, Over, Types
    <3>2. state.result \in {"ok", "err"}
      BY <3>1 DEF Types, CreateState
    <3>3. state.result = "ok" => world.registered
      BY DEF Inv, FinishInv
    <3> QED
      BY <3>1, <3>2, <3>3 DEF Build!Next, Build!Return
  <2>5. CASE Quiet \/ UNCHANGED vars
    BY <2>1, <2>5 DEF Quiet, vars
  <2> QED
    BY <2>2, <2>3, <2>4, <2>5 DEF Next, Work
<1> QED
  BY <1>1, <1>2, CallInvariant, PTL DEF Spec, ImplementsBuild, Build!Spec

-----------------------------------------------------------------------------
(* What the caller is told.                                                *)

(* Messages that carry progress to the reducer, and those that answer an   *)
(* emission.  Of the former, some open an attempt and some follow on one.  *)
Talk == {"Progress", "ObservedStatus"}
Acks == {"ProgressApplied", "StatusForwarded"}
Follows(m) == m.type = "Progress" /\ m.event.what \in {"Progressed"} \cup Terminal
Opens(m, t) == m.type \in Talk /\ m.target = t /\ ~Follows(m)

(* An attempt has a number, but for what was found in place (reduce).      *)
Numbered(status) == status.tried = 0 => status = NoStatus \/ status.st = "Completed"

(* What is seen of another holder is a status.                             *)
Real(e) == e.what = "Observed" => e.status # NoStatus /\ Numbered(e.status)
RealTalk(m) ==
  /\ m.type = "Progress" => m.event.what # "Observed"
  /\ m.type = "ObservedStatus" => m.status # NoStatus /\ Numbered(m.status)

(* After a status that ended an attempt comes one of another attempt.      *)
After(old, new) ==
  old # new /\ old.st \in Terminal => <<new.ty, new.tried>> # <<old.ty, old.tried>>

(* A target is busy while one emission of it runs or has been answered,    *)
(* and only a busy target has events to wait for it.                       *)
Emits(x, t) == x.type \in Emissions /\ x.target = t
TokenInv ==
  /\ \A u \in tasks : u.effect.type \in Emissions =>
       /\ u.left = <<>>
       /\ u.effect.target \in state.busy
       /\ u.effect.status = state.status[u.effect.target]
       /\ \A m \in Answered(Acks) : m.target # u.effect.target
       /\ \A v \in tasks : Emits(v.effect, u.effect.target) => v = u
  /\ \A i, j \in DOMAIN queue :
       queue[i].type \in Acks /\ queue[j].type \in Acks
         /\ queue[i].target = queue[j].target => i = j
  /\ \A m \in Answered(Acks) : m.target \in state.busy
  /\ \A t \in Target :
       /\ t \in state.busy => state.status[t] # NoStatus
       /\ t \notin state.busy => state.pending[t] = <<>>
       /\ Numbered(state.status[t])
       /\ \A i \in DOMAIN state.pending[t] : Real(state.pending[t][i])

(* Progress of a target follows on an attempt that has been reduced or is  *)
(* ahead of it in the channel.                                             *)
OpenedInv ==
  /\ \A i \in DOMAIN queue :
       /\ RealTalk(queue[i])
       /\ Follows(queue[i]) =>
            \/ state.status[queue[i].target] # NoStatus
            \/ \E j \in DOMAIN queue : j < i /\ Opens(queue[j], queue[i].target)
  /\ \A u \in tasks : \A k \in DOMAIN u.left :
       /\ RealTalk(u.left[k])
       /\ Follows(u.left[k]) =>
            \/ state.status[u.left[k].target] # NoStatus
            \/ \E m \in Queued : Opens(m, u.left[k].target)
            \/ \E j \in DOMAIN u.left : j < k /\ Opens(u.left[j], u.left[k].target)

(* As long as nothing failed to be written, the caller has seen what the   *)
(* reducer has, but for the emission under way, which comes after it.      *)
HeardInv ==
  faults = 0 =>
    /\ \A m \in Answered(Acks) :
         /\ sent[m.target] = state.status[m.target]
         /\ m.type = "ProgressApplied" => m.ok
    /\ \A t \in state.busy :
         (\E e \in Running : Emits(e, t)) \/ (\E m \in Answered(Acks) : m.target = t)
    /\ \A t \in Target \ state.busy : sent[t] = state.status[t]
    /\ \A u \in tasks : u.effect.type = "EmitProgress" =>
         After(sent[u.effect.target], u.effect.status)

-----------------------------------------------------------------------------
(* The reducer's state s on the way from one event to the next: b are the  *)
(* busy targets whose emission is already out, loose those whose queue is  *)
(* still to be looked at (pump_progress).                                  *)
Voiced(b, s, loose) ==
  /\ b \subseteq s.busy
  /\ \A x \in s.effects : x.type \in Emissions =>
       /\ x.target \in s.busy \ b /\ x.status = s.status[x.target]
       /\ x.type = "EmitProgress" => After(state.status[x.target], x.status)
  /\ \A x, y \in s.effects :
       x.type \in Emissions /\ y.type \in Emissions /\ x.target = y.target => x = y
  /\ \A t \in s.busy \ b : \E x \in s.effects : Emits(x, t)
  /\ \A t \in Target :
       /\ t \in b \/ t \notin s.busy => s.status[t] = state.status[t]
       /\ state.status[t] # NoStatus => s.status[t] # NoStatus
       /\ t \in s.busy => s.status[t] # NoStatus
       /\ Numbered(s.status[t])
       /\ t \in s.busy \/ t \in loose \/ s.pending[t] = <<>>
       /\ \A i \in DOMAIN s.pending[t] : Real(s.pending[t][i])

(* Between two events every emission is out.                               *)
LEMMA VoicedStart ==
  ASSUME Types, TokenInv
  PROVE  Voiced(state.busy, state, {})
BY DEF Types, TokenInv, Voiced, CreateState

(* Voiced says nothing of the rest of the state.                           *)
LEMMA VoicedSame ==
  ASSUME NEW b, NEW s, NEW loose, Voiced(b, s, loose), NEW r,
         r.status = s.status, r.busy = s.busy, r.pending = s.pending,
         s.effects \subseteq r.effects,
         \A x \in r.effects \ s.effects : x.type \notin Emissions
  PROVE  Voiced(b, r, loose)
<1>1. \A x \in r.effects : x.type \in Emissions => x \in s.effects
  OBVIOUS
<1> QED
  BY <1>1 DEF Voiced

(* A status that is reduced is one.                                        *)
LEMMA ReducedReal ==
  ASSUME NEW e \in Events, NEW old \in Status, Real(e), ~Unstarted(e, old)
  PROVE  Reduced(e, old) # NoStatus
<1>1. CASE e.what \in {"AttemptStarted", "Cached"}
  <2>1. e.ty # "none"
    BY <1>1 DEF Events, Kinds
  <2>2. Reduced(e, old).ty = e.ty
    BY <1>1 DEF Reduced
  <2> QED
    BY <2>1, <2>2 DEF NoStatus
<1>2. CASE e.what = "Observed"
  BY <1>2 DEF Reduced, Real
<1>3. CASE e.what \in {"Progressed", "Completed", "Failed"}
  <2>1. old \in [ty : {"InstallShared", "Download", "Unpack"},
                 st : {"Running"} \cup Terminal, tried : Nat]
    BY <1>3 DEF Unstarted, Terminal, Status
  <2>2. Reduced(e, old) = [old EXCEPT !.st = IF e.what = "Progressed" THEN "Running" ELSE e.what]
    BY <1>3 DEF Reduced
  <2>3. Reduced(e, old).ty = old.ty
    BY <2>1, <2>2
  <2> QED
    BY <2>1, <2>3 DEF NoStatus
<1> QED
  BY <1>1, <1>2, <1>3 DEF Events

(* Unless it is late or was seen of another holder, an event follows on an *)
(* attempt that has not ended, or opens one with another number.           *)
LEMMA ReducedAfter ==
  ASSUME NEW e \in Events, NEW old \in Status, Real(e), Numbered(old),
         ~Unstarted(e, old), ~Late(e, old)
  PROVE  LET new == Reduced(e, old) IN
         Numbered(new) /\ (e.what # "Observed" => After(old, new))
<1> DEFINE new == Reduced(e, old)
<1>1. old = NoStatus \/ /\ old = [ty |-> old.ty, st |-> old.st, tried |-> old.tried]
                        /\ old.tried \in Nat
  BY DEF Status
<1>2. CASE e.what = "AttemptStarted"
  <2>1. new = [ty |-> e.ty, st |-> "Running",
               tried |-> IF old.ty = e.ty THEN old.tried + 1 ELSE 1]
    BY <1>2 DEF Reduced
  <2>2. old.tried \in Nat
    BY <1>1 DEF NoStatus
  <2>3. new.ty = e.ty /\ new.tried = IF old.ty = e.ty THEN old.tried + 1 ELSE 1
    BY <2>1
  <2> HIDE DEF new
  <2>4. new.tried # 0 /\ (new.ty # old.ty \/ new.tried # old.tried)
    BY <2>2, <2>3
  <2> QED
    BY <2>4 DEF Numbered, After, new
<1>3. CASE e.what = "Cached"
  <2>1. new = [ty |-> e.ty, st |-> "Completed", tried |-> 0]
    BY <1>3 DEF Reduced
  <2>2. new.st = "Completed" /\ new.ty = e.ty /\ new.tried = 0
    BY <2>1
  <2>3. ASSUME old.st \in Terminal, old.ty = e.ty, old.tried = 0 PROVE old = new
    <3>1. old # NoStatus /\ old.st = "Completed"
      BY <2>3 DEF Numbered, NoStatus, Terminal
    <3> QED
      BY <1>1, <2>1, <2>3, <3>1
  <2> HIDE DEF new
  <2> QED
    BY <2>2, <2>3 DEF Numbered, After, new
<1>4. CASE e.what = "Observed"
  BY <1>4 DEF Reduced, Real
<1>5. CASE e.what \in {"Progressed", "Completed", "Failed"}
  <2>1. old # NoStatus /\ old.st \notin Terminal
    BY <1>5 DEF Unstarted, Late, Terminal
  <2>2. old.tried # 0
    BY <2>1 DEF Numbered, Terminal
  <2>3. new = [old EXCEPT !.st = IF e.what = "Progressed" THEN "Running" ELSE e.what]
    BY <1>5 DEF Reduced
  <2>4. new.tried = old.tried
    BY <1>1, <2>1, <2>3
  <2> HIDE DEF new
  <2> QED
    BY <2>1, <2>2, <2>4 DEF Numbered, After, new
<1> QED
  BY <1>2, <1>3, <1>4, <1>5 DEF Events

(* The emission of the first event that is not late: what is left of the   *)
(* queue is what came after it.                                            *)
LEMMA EmittedFields ==
  ASSUME NEW s \in CreateState, NEW t \in Target, Live(s, t) # {},
         ~Unstarted(Chosen(s, t), s.status[t])
  PROVE  LET p == s.pending[t]
             e == Chosen(s, t)
             r == Emitted(s, t)
             new == Reduced(e, s.status[t]) IN
         /\ e \in Events /\ ~Late(e, s.status[t])
         /\ \E k \in DOMAIN p :
              /\ e = p[k]
              /\ r.pending[t] \in Seq(Events) /\ Len(r.pending[t]) = Len(p) - k
              /\ \A i \in 1 .. (Len(p) - k) : r.pending[t][i] = p[k + i]
         /\ \A u \in Target \ {t} :
              r.pending[u] = s.pending[u] /\ r.status[u] = s.status[u]
         /\ r.status[t] = new /\ new \in Status /\ r.busy = s.busy \cup {t}
         /\ \E x \in Effects : /\ Emits(x, t) /\ x.status = new
                               /\ x.type = "EmitProgress" => e.what # "Observed"
                               /\ r.effects = s.effects \cup {x}
<1> DEFINE p == s.pending[t]
           e == Chosen(s, t)
           k == Min(Live(s, t))
           q == SubSeq(p, k + 1, Len(p))
           new == Reduced(e, s.status[t])
           x == [type |-> IF e.what = "Observed" THEN "ForwardStatus" ELSE "EmitProgress",
                 target |-> t, status |-> new]
<1>1. /\ s.pending \in [Target -> Seq(Events)] /\ s.status \in [Target -> Status]
      /\ p \in Seq(Events) /\ s.status[t] \in Status /\ s.busy \in SUBSET Target
      /\ s.effects \in SUBSET Effects
  BY DEF CreateState
<1>2. DOMAIN p = 1 .. Len(p) /\ Len(p) \in Nat
  BY <1>1, LenProperties
<1>3. k \in DOMAIN p /\ ~Late(p[k], s.status[t]) /\ e = p[k]
  <2>1. Live(s, t) \in SUBSET Nat
    BY <1>2 DEF Live
  <2>2. k \in Live(s, t)
    BY <2>1, MinIn
  <2> QED
    BY <2>2 DEF Live, Chosen
<1>4. e \in Events
  BY <1>1, <1>2, <1>3, ElementOfSeq
<1>5. new \in Status
  BY <1>1, <1>4, ReducedType
<1>6. x \in Effects /\ Emits(x, t) /\ x.status = new
      /\ (x.type = "EmitProgress" => e.what # "Observed")
  BY <1>5 DEF Effects, Emissions, Emits
<1>7. k \in 1 .. Len(p)
  BY <1>2, <1>3
<1>8. Emitted(s, t) =
        Effect([[s EXCEPT !.pending = [s.pending EXCEPT ![t] = q]]
                  EXCEPT !.status[t] = new, !.busy = @ \cup {t}], x)
  BY DEF Emitted, Rest
<1> HIDE DEF e, new, x, k
<1>9. q \in Seq(Events) /\ Len(q) = Len(p) - k /\ \A i \in 1 .. Len(q) : q[i] = p[k + i]
  <2>1. k + 1 \in Int /\ Len(p) \in Int /\ \A i \in (k + 1) .. Len(p) : p[i] \in Events
    <3>1. \A i \in (k + 1) .. Len(p) : i \in 1 .. Len(p)
      BY <1>2, <1>7
    <3> QED
      BY <1>1, <1>2, <1>7, <3>1, ElementOfSeq
  <2>2. /\ q \in Seq(Events)
        /\ Len(q) = IF k + 1 <= Len(p) THEN Len(p) - (k + 1) + 1 ELSE 0
        /\ \A i \in 1 .. (Len(p) - (k + 1) + 1) : q[i] = p[(k + 1) + i - 1]
    BY <2>1, SubSeqProperties
  <2> HIDE DEF q
  <2>3. Len(q) = Len(p) - k
    BY <1>2, <1>7, <2>2
  <2>4. ASSUME NEW i \in 1 .. Len(q) PROVE q[i] = p[k + i]
    <3>1. i \in 1 .. (Len(p) - (k + 1) + 1) /\ (k + 1) + i - 1 = k + i
      BY <1>2, <1>7, <2>3
    <3> QED
      BY <2>2, <3>1
  <2> QED
    BY <2>2, <2>3, <2>4
<1> HIDE DEF q, p
<1>10. /\ Emitted(s, t).pending = [s.pending EXCEPT ![t] = q]
       /\ Emitted(s, t).status = [s.status EXCEPT ![t] = new]
       /\ Emitted(s, t).busy = s.busy \cup {t}
       /\ Emitted(s, t).effects = s.effects \cup {x}
  BY <1>8 DEF Effect, CreateState
<1>11. /\ Emitted(s, t).pending[t] = q /\ Emitted(s, t).status[t] = new
       /\ \A u \in Target \ {t} : /\ Emitted(s, t).pending[u] = s.pending[u]
                                  /\ Emitted(s, t).status[u] = s.status[u]
  BY <1>1, <1>10
<1>12. \E j \in DOMAIN p : /\ e = p[j]
                           /\ q \in Seq(Events) /\ Len(q) = Len(p) - j
                           /\ \A i \in 1 .. (Len(p) - j) : q[i] = p[j + i]
  BY <1>3, <1>9
<1> QED
  BY <1>3, <1>4, <1>5, <1>6, <1>10, <1>11, <1>12 DEF e, new, p

(* Looking at the queue of a target that is not busy.                      *)
Spoken(s, t) == IF Live(s, t) = {} THEN [s EXCEPT !.pending[t] = <<>>] ELSE Emitted(s, t)

(* It is what pump_progress does, unless an event was never started.       *)
LEMMA PumpSpoken ==
  ASSUME NEW s, NEW t, t \notin s.busy,
         Live(s, t) = {} \/ ~Unstarted(Chosen(s, t), s.status[t])
  PROVE  Pump(s, t) = Spoken(s, t) /\ PumpOr(Same, s, t) = Spoken(s, t)
<1>1. CASE Live(s, t) = {}
  <2>1. Spoken(s, t) = [s EXCEPT !.pending[t] = <<>>]
    BY <1>1 DEF Spoken
  <2>2. PumpOr(Same, s, t) = [s EXCEPT !.pending[t] = <<>>]
    BY <1>1 DEF PumpOr, Busy, Live
  <2>3. Pump(s, t) = [s EXCEPT !.pending[t] = <<>>]
    BY <1>1 DEF Pump, PumpOr, Busy, Live
  <2> QED
    BY <2>1, <2>2, <2>3
<1>2. CASE Live(s, t) # {}
  <2>1. Spoken(s, t) = Emitted(s, t)
    BY <1>2 DEF Spoken
  <2>2. PumpOr(Same, s, t) = Emitted(s, t)
    BY <1>2 DEF PumpOr, Busy, Rest, Emitted, Chosen, Live
  <2>3. Pump(s, t) = Emitted(s, t)
    BY <1>2 DEF Pump, PumpOr, Busy, Rest, Emitted, Chosen, Live
  <2> QED
    BY <2>1, <2>2, <2>3
<1> QED
  BY <1>1, <1>2

(* A status that is emitted is the target's last, and the target is busy.  *)
LEMMA SpokenVoiced ==
  ASSUME NEW s \in CreateState, NEW t \in Target, NEW b, NEW loose, Voiced(b, s, loose),
         t \notin s.busy, Types,
         Live(s, t) = {} \/ ~Unstarted(Chosen(s, t), s.status[t])
  PROVE  Voiced(b, Spoken(s, t), loose \ {t}) /\ Kept(s, Spoken(s, t))
<1>1. CASE Live(s, t) = {}
  <2> DEFINE r == [s EXCEPT !.pending[t] = <<>>]
  <2>1. Spoken(s, t) = r
    BY <1>1 DEF Spoken
  <2>2. /\ r.status = s.status /\ r.busy = s.busy /\ r.effects = s.effects
        /\ r.pending[t] = <<>> /\ \A u \in Target \ {t} : r.pending[u] = s.pending[u]
    BY DEF CreateState
  <2>3. Kept(s, r)
    BY PumpParts
  <2> HIDE DEF r
  <2>4. Voiced(b, r, loose \ {t})
    BY <2>2 DEF Voiced
  <2> QED
    BY <2>1, <2>3, <2>4
<1>2. CASE Live(s, t) # {}
  <2> DEFINE p == s.pending[t]
             e == Chosen(s, t)
             r == Emitted(s, t)
             new == Reduced(e, s.status[t])
  <2>1. Spoken(s, t) = r /\ Kept(s, r)
    BY <1>2, PumpParts DEF Spoken
  <2>2. /\ e \in Events /\ ~Late(e, s.status[t])
        /\ \A u \in Target \ {t} :
             r.pending[u] = s.pending[u] /\ r.status[u] = s.status[u]
        /\ r.status[t] = new /\ new \in Status /\ r.busy = s.busy \cup {t}
    BY <1>2, EmittedFields
  <2>3. PICK x \in Effects : /\ Emits(x, t) /\ x.status = new
                             /\ x.type = "EmitProgress" => e.what # "Observed"
                             /\ r.effects = s.effects \cup {x}
    BY <1>2, EmittedFields
  <2>4. PICK k \in DOMAIN p :
          /\ e = p[k]
          /\ r.pending[t] \in Seq(Events) /\ Len(r.pending[t]) = Len(p) - k
          /\ \A i \in 1 .. (Len(p) - k) : r.pending[t][i] = p[k + i]
    BY <1>2, EmittedFields
  <2>5. ~Unstarted(e, s.status[t]) /\ s.status[t] \in Status /\ p \in Seq(Events)
    BY <1>2 DEF CreateState
  <2>6. Real(e)
    BY <2>4 DEF Voiced
  <2> HIDE DEF r, e, new
  <2>7. /\ new # NoStatus /\ Numbered(new)
        /\ x.type = "EmitProgress" => After(state.status[t], new)
    <3>1. Numbered(s.status[t]) /\ s.status[t] = state.status[t]
      BY DEF Voiced
    <3>2. new # NoStatus
      BY <2>2, <2>5, <2>6, ReducedReal DEF new
    <3>3. Numbered(new) /\ (e.what # "Observed" => After(s.status[t], new))
      BY <2>2, <2>5, <2>6, <3>1, ReducedAfter DEF new
    <3> QED
      BY <2>3, <3>1, <3>2, <3>3
  <2>8. \A i \in DOMAIN r.pending[t] : Real(r.pending[t][i])
    <3> TAKE i \in DOMAIN r.pending[t]
    <3>1. i \in 1 .. (Len(p) - k) /\ Len(p) \in Nat /\ k \in 1 .. Len(p)
      BY <2>4, <2>5, LenProperties
    <3>2. k + i \in DOMAIN p
      BY <2>5, <3>1, LenProperties
    <3> QED
      BY <2>4, <3>1, <3>2 DEF Voiced
  <2>9. /\ b \subseteq r.busy /\ t \notin b /\ s.busy \subseteq Target
    BY <2>2 DEF Voiced, CreateState
  <2>10. \A y \in s.effects : y.type \in Emissions => y.target # t /\ y.target \in Target
    BY <2>9 DEF Voiced
  <2>11. \A y \in r.effects : y.type \in Emissions =>
           /\ y.target \in r.busy \ b /\ y.status = r.status[y.target]
           /\ y.type = "EmitProgress" => After(state.status[y.target], y.status)
    <3> TAKE y \in r.effects
    <3> HAVE y.type \in Emissions
    <3>1. CASE y = x
      BY <2>2, <2>3, <2>7, <2>9, <3>1 DEF Emits
    <3>2. CASE y \in s.effects
      BY <2>2, <2>10, <3>2 DEF Voiced
    <3> QED
      BY <2>3, <3>1, <3>2
  <2>12. \A y, z \in r.effects :
           y.type \in Emissions /\ z.type \in Emissions /\ y.target = z.target => y = z
    BY <2>3, <2>10 DEF Voiced, Emits
  <2>13. \A u \in r.busy \ b : \E y \in r.effects : Emits(y, u)
    BY <2>2, <2>3 DEF Voiced
  <2>14. \A u \in Target :
           /\ u \in b \/ u \notin r.busy => r.status[u] = state.status[u]
           /\ state.status[u] # NoStatus => r.status[u] # NoStatus
           /\ u \in r.busy => r.status[u] # NoStatus
           /\ Numbered(r.status[u])
           /\ u \in r.busy \/ u \in loose \ {t} \/ r.pending[u] = <<>>
           /\ \A i \in DOMAIN r.pending[u] : Real(r.pending[u][i])
    <3> TAKE u \in Target
    <3>1. CASE u = t
      BY <2>2, <2>7, <2>8, <2>9, <3>1
    <3>2. CASE u # t
      BY <2>2, <3>2 DEF Voiced
    <3> QED
      BY <3>1, <3>2
  <2>15. Voiced(b, r, loose \ {t})
    BY <2>9, <2>11, <2>12, <2>13, <2>14 DEF Voiced
  <2> QED
    BY <2>1, <2>15
<1> QED
  BY <1>1, <1>2

(* More queues may be left to look at.                                     *)
LEMMA VoicedMore ==
  ASSUME NEW b, NEW s, NEW loose, NEW more, loose \subseteq more, Voiced(b, s, loose)
  PROVE  Voiced(b, s, more)
BY DEF Voiced

(* An event is put in its target's queue.                                  *)
Appended(s, t, e) == [s EXCEPT !.pending[t] = Append(@, e)]

(* The queue is to be looked at then, unless the target is busy.           *)
LEMMA AppendVoiced ==
  ASSUME NEW s \in CreateState, NEW t \in Target, NEW e \in Events, Real(e),
         NEW b, NEW loose, Voiced(b, s, loose)
  PROVE  LET r == Appended(s, t, e) IN
         /\ r \in CreateState /\ Kept(s, r)
         /\ r.status = s.status /\ r.busy = s.busy /\ r.pending[t] = Append(s.pending[t], e)
         /\ \A u \in Target \ {t} : r.pending[u] = s.pending[u]
         /\ Voiced(b, r, loose \cup {t})
         /\ t \in s.busy => Voiced(b, r, loose)
<1> DEFINE r == Appended(s, t, e)
           p == [s.pending EXCEPT ![t] = Append(@, e)]
<1>1. s.pending \in [Target -> Seq(Events)] /\ s.pending[t] \in Seq(Events)
  BY DEF CreateState
<1>2. p \in [Target -> Seq(Events)] /\ r = [s EXCEPT !.pending = p]
  BY <1>1 DEF Appended
<1>3. /\ p[t] = Append(s.pending[t], e) /\ \A u \in Target \ {t} : p[u] = s.pending[u]
  BY <1>1
<1> HIDE DEF p, r
<1>4. /\ r \in CreateState /\ r.status = s.status /\ r.busy = s.busy /\ r.pending = p
      /\ r.effects = s.effects /\ Kept(s, r)
  BY <1>2 DEF CreateState, Kept
<1>5. \A i \in DOMAIN Append(s.pending[t], e) : Real(Append(s.pending[t], e)[i])
  <2>1. /\ \A i \in 1 .. Len(s.pending[t]) : Append(s.pending[t], e)[i] = s.pending[t][i]
        /\ Append(s.pending[t], e)[Len(s.pending[t]) + 1] = e
        /\ Len(Append(s.pending[t], e)) = Len(s.pending[t]) + 1
        /\ Append(s.pending[t], e) \in Seq(Events) /\ Len(s.pending[t]) \in Nat
        /\ DOMAIN s.pending[t] = 1 .. Len(s.pending[t])
    BY <1>1, AppendProperties, LenProperties
  <2>2. DOMAIN Append(s.pending[t], e) = 1 .. (Len(s.pending[t]) + 1)
    BY <2>1, LenProperties
  <2>3. \A i \in 1 .. Len(s.pending[t]) : Real(s.pending[t][i])
    BY <2>1 DEF Voiced
  <2> QED
    BY <2>1, <2>2, <2>3
<1>6. Voiced(b, r, loose \cup {t}) /\ (t \in s.busy => Voiced(b, r, loose))
  BY <1>3, <1>4, <1>5, ZenonT(40) DEF Voiced
<1> QED
  BY <1>3, <1>4, <1>6 DEF r

(* What an event does to its target.                                       *)
Said(s, t, e, r) ==
  \/ /\ t \in s.busy /\ r.status[t] = s.status[t]
     /\ r.pending[t] = Append(s.pending[t], e)
  \/ /\ t \notin s.busy /\ r.pending[t] = <<>>
     /\ r.status[t] = IF Late(e, s.status[t]) THEN s.status[t] ELSE Reduced(e, s.status[t])

(* A single event of a target that is not busy.                            *)
LEMMA SpokenOne ==
  ASSUME NEW s \in CreateState, NEW t \in Target, NEW e \in Events, s.pending[t] = <<e>>
  PROVE  /\ Late(e, s.status[t]) <=> Live(s, t) = {}
         /\ Live(s, t) # {} => Chosen(s, t) = e
         /\ ~Unstarted(e, s.status[t]) =>
              /\ Spoken(s, t).pending[t] = <<>>
              /\ Spoken(s, t).status[t] =
                   IF Late(e, s.status[t]) THEN s.status[t] ELSE Reduced(e, s.status[t])
<1>1. /\ DOMAIN s.pending[t] = {1} /\ Len(s.pending[t]) = 1 /\ s.pending[t][1] = e
      /\ s.pending[t] \in Seq(Events)
  BY DEF CreateState
<1>2. Live(s, t) = IF Late(e, s.status[t]) THEN {} ELSE {1}
  BY <1>1 DEF Live
<1>3. Live(s, t) # {} => Chosen(s, t) = e
  <2> HAVE Live(s, t) # {}
  <2>1. Min(Live(s, t)) \in Live(s, t)
    BY <1>2, MinIn
  <2> QED
    BY <1>1, <1>2, <2>1 DEF Chosen
<1>4. ASSUME ~Unstarted(e, s.status[t])
      PROVE  /\ Spoken(s, t).pending[t] = <<>>
             /\ Spoken(s, t).status[t] =
                  IF Late(e, s.status[t]) THEN s.status[t] ELSE Reduced(e, s.status[t])
  <2>1. CASE Live(s, t) = {}
    BY <1>2, <2>1 DEF Spoken, CreateState
  <2>2. CASE Live(s, t) # {}
    <3>1. Chosen(s, t) = e /\ Spoken(s, t) = Emitted(s, t) /\ ~Late(e, s.status[t])
      BY <1>2, <1>3, <2>2 DEF Spoken
    <3>2. ~Unstarted(Chosen(s, t), s.status[t])
      BY <1>4, <3>1
    <3>3. Emitted(s, t).status[t] = Reduced(e, s.status[t])
      <4>1. Emitted(s, t).status[t] = Reduced(Chosen(s, t), s.status[t])
        BY <2>2, <3>2, EmittedFields
      <4> QED
        BY <3>1, <4>1
    <3>4. \E k \in DOMAIN s.pending[t] :
            /\ Emitted(s, t).pending[t] \in Seq(Events)
            /\ Len(Emitted(s, t).pending[t]) = Len(s.pending[t]) - k
      <4>1. PICK k \in DOMAIN s.pending[t] :
              /\ Chosen(s, t) = s.pending[t][k]
              /\ Emitted(s, t).pending[t] \in Seq(Events)
              /\ Len(Emitted(s, t).pending[t]) = Len(s.pending[t]) - k
              /\ \A i \in 1 .. (Len(s.pending[t]) - k) :
                   Emitted(s, t).pending[t][i] = s.pending[t][k + i]
        BY <2>2, <3>2, EmittedFields
      <4> QED
        BY <4>1
    <3>5. Emitted(s, t).pending[t] = <<>>
      BY <1>1, <3>4, EmptySeq
    <3> QED
      BY <3>1, <3>3, <3>5
  <2> QED
    BY <2>1, <2>2
<1> QED
  BY <1>2, <1>3, <1>4

(* An event that is not unstarted, put in its queue and looked at.         *)
LEMMA EnqueueVoiced ==
  ASSUME Types, NEW s \in CreateState, NEW t \in Target, NEW e \in Events, Real(e),
         NEW b, NEW loose, Voiced(b, s, loose), t \notin loose, ~Unstarted(e, s.status[t])
  PROVE  LET r == Enqueue(s, t, e) IN
         /\ r = PumpOr(Same, Appended(s, t, e), t)
         /\ Kept(s, r) /\ Voiced(b, r, loose) /\ Said(s, t, e, r) /\ r.status[t] # NoStatus
         /\ \A u \in Target \ {t} : r.pending[u] = s.pending[u] /\ r.status[u] = s.status[u]
<1> DEFINE a == Appended(s, t, e)
           r == Enqueue(s, t, e)
<1>1. /\ a \in CreateState /\ Kept(s, a)
      /\ a.status = s.status /\ a.busy = s.busy /\ a.pending[t] = Append(s.pending[t], e)
      /\ \A u \in Target \ {t} : a.pending[u] = s.pending[u]
      /\ Voiced(b, a, loose \cup {t})
      /\ t \in s.busy => Voiced(b, a, loose)
  BY AppendVoiced
<1>2. r = Pump(a, t)
  BY DEF Enqueue, Appended
<1> HIDE DEF a, r
<1>3. CASE t \in s.busy
  <2>1. r = a /\ PumpOr(Same, a, t) = a
    BY <1>1, <1>2, <1>3 DEF Pump, PumpOr, Busy
  <2> QED
    BY <1>1, <1>3, <2>1 DEF Said, Voiced, a, r
<1>4. CASE t \notin s.busy
  <2>1. s.pending[t] = <<>> /\ a.pending[t] = <<e>>
    <3>1. s.pending[t] = <<>>
      BY <1>4 DEF Voiced
    <3>2. Append(<<>>, e) = <<e>>
      OBVIOUS
    <3> QED
      BY <1>1, <3>1, <3>2
  <2>2. /\ Late(e, s.status[t]) <=> Live(a, t) = {}
        /\ Live(a, t) # {} => Chosen(a, t) = e
        /\ Spoken(a, t).pending[t] = <<>>
        /\ Spoken(a, t).status[t] =
             IF Late(e, s.status[t]) THEN s.status[t] ELSE Reduced(e, s.status[t])
    BY <1>1, <2>1, SpokenOne
  <2>3. r = Spoken(a, t) /\ PumpOr(Same, a, t) = Spoken(a, t)
    BY <1>1, <1>2, <1>4, <2>2, PumpSpoken
  <2>4. Voiced(b, r, (loose \cup {t}) \ {t}) /\ Kept(a, r)
    BY <1>1, <1>4, <2>2, <2>3, SpokenVoiced
  <2>5. (loose \cup {t}) \ {t} = loose
    OBVIOUS
  <2>6. Kept(s, r)
    BY <1>1, <2>4, KeptTrans
  <2>7. Said(s, t, e, r)
    BY <1>4, <2>2, <2>3 DEF Said
  <2>8. r.status[t] # NoStatus
    <3>1. CASE Late(e, s.status[t])
      BY <2>2, <2>3, <3>1 DEF Late, NoStatus, Terminal
    <3>2. CASE ~Late(e, s.status[t])
      BY <2>2, <2>3, <3>2, ReducedReal DEF CreateState
    <3> QED
      BY <3>1, <3>2
  <2>9. \A u \in Target \ {t} : r.pending[u] = a.pending[u] /\ r.status[u] = a.status[u]
    <3>1. CASE Live(a, t) = {}
      BY <1>1, <2>3, <3>1 DEF Spoken, CreateState
    <3>2. CASE Live(a, t) # {}
      <4>1. r = Emitted(a, t)
        BY <2>3, <3>2 DEF Spoken
      <4> QED
        BY <1>1, <2>2, <3>2, <4>1, EmittedFields
    <3> QED
      BY <3>1, <3>2
  <2> QED
    BY <1>1, <2>3, <2>4, <2>5, <2>6, <2>7, <2>8, <2>9 DEF a, r
<1> QED
  BY <1>3, <1>4

(* A target that has a status has been started.                            *)
LEMMA BegunStarted ==
  ASSUME NEW e, NEW old, old # NoStatus
  PROVE  ~Unstarted(e, old)
BY DEF Unstarted

(* A failure, whether it reports itself or not (fail_create).              *)
LEMMA FailVoiced ==
  ASSUME Types, NEW s \in CreateState, NEW b, NEW loose, Voiced(b, s, loose),
         \A t \in loose : s.status[t] # NoStatus
  PROVE  LET r == FailCreate(s) IN
         /\ Voiced(b, r, loose)
         /\ s.result # "none" => r = s
         /\ s.result = "none" /\ ~s.prepared =>
              r.pending = s.pending /\ r.status = s.status /\ r.busy = s.busy
         /\ s.result = "none" /\ s.prepared /\ s.status[PlanKey] # NoStatus
              /\ PlanKey \notin loose => Said(s, PlanKey, Failed, r)
<1> DEFINE r == FailCreate(s)
           f == [s EXCEPT !.result = "err"]
<1>1. f \in CreateState /\ f.status = s.status /\ f.busy = s.busy /\ f.pending = s.pending
      /\ f.effects = s.effects
  BY DEF CreateState
<1>2. Voiced(b, f, loose)
  BY <1>1, VoicedSame
<1>3. PlanKey \in Target /\ Failed \in Events /\ Real(Failed) /\ Failed.what = "Failed"
  BY DEF Target, Failed, Events, Real
<1>4. CASE s.result # "none"
  BY <1>4 DEF FailCreate
<1>5. CASE s.result = "none" /\ ~s.prepared
  <2>1. r = f
    BY <1>5 DEF FailCreate
  <2> HIDE DEF r, f
  <2> QED
    BY <1>1, <1>2, <1>5, <2>1 DEF r
<1>6. CASE s.result = "none" /\ s.prepared
  <2> DEFINE a == Appended(f, PlanKey, Failed)
  <2>1. r = PumpOr(Same, a, PlanKey)
    <3>1. a = [s EXCEPT !.result = "err", !.pending[PlanKey] = Append(@, Failed)]
      BY DEF Appended, CreateState
    <3> QED
      BY <1>6, <3>1 DEF FailCreate
  <2> HIDE DEF f, r
  <2>2. /\ a \in CreateState /\ Kept(f, a) /\ a.status = f.status /\ a.busy = f.busy
        /\ a.pending[PlanKey] = Append(f.pending[PlanKey], Failed)
        /\ \A u \in Target \ {PlanKey} : a.pending[u] = f.pending[u]
        /\ Voiced(b, a, loose \cup {PlanKey})
        /\ PlanKey \in f.busy => Voiced(b, a, loose)
    BY <1>1, <1>2, <1>3, AppendVoiced
  <2>3. CASE s.status[PlanKey] # NoStatus /\ PlanKey \notin loose
    <3>1. ~Unstarted(Failed, f.status[PlanKey])
      BY <1>1, <2>3, BegunStarted
    <3>2. /\ Enqueue(f, PlanKey, Failed) = PumpOr(Same, a, PlanKey)
          /\ Voiced(b, Enqueue(f, PlanKey, Failed), loose)
          /\ Said(f, PlanKey, Failed, Enqueue(f, PlanKey, Failed))
      BY <1>1, <1>2, <1>3, <2>3, <3>1, EnqueueVoiced
    <3> QED
      BY <1>1, <1>6, <2>1, <3>2 DEF Said, r
  <2>4. CASE s.status[PlanKey] # NoStatus /\ PlanKey \in loose
    <3>1. CASE PlanKey \in f.busy
      <4>1. r = a
        BY <2>1, <2>2, <3>1 DEF PumpOr, Busy
      <4> QED
        BY <1>6, <2>2, <2>4, <3>1, <4>1 DEF r
    <3>2. CASE PlanKey \notin f.busy
      <4>1. ~Unstarted(Chosen(a, PlanKey), a.status[PlanKey])
        BY <1>1, <2>2, <2>4, BegunStarted
      <4>2. r = Spoken(a, PlanKey)
        BY <2>1, <2>2, <3>2, <4>1, PumpSpoken
      <4>3. Voiced(b, r, (loose \cup {PlanKey}) \ {PlanKey})
        BY <1>3, <2>2, <3>2, <4>1, <4>2, SpokenVoiced
      <4>4. Voiced(b, r, loose)
        BY <4>3, VoicedMore
      <4> QED
        BY <1>6, <2>4, <4>4 DEF r
    <3> QED
      BY <3>1, <3>2
  <2>5. CASE s.status[PlanKey] = NoStatus
    <3>1. PlanKey \notin f.busy /\ f.pending[PlanKey] = <<>> /\ PlanKey \notin loose
      BY <1>1, <1>2, <1>3, <2>5 DEF Voiced
    <3>2. a.pending[PlanKey] = <<Failed>>
      <4>1. Append(<<>>, Failed) = <<Failed>>
        OBVIOUS
      <4> QED
        BY <2>2, <3>1, <4>1
    <3>3. ~Late(Failed, a.status[PlanKey]) /\ Unstarted(Failed, a.status[PlanKey])
      BY <1>1, <1>3, <2>2, <2>5 DEF Late, Unstarted, NoStatus, Terminal
    <3>4. Live(a, PlanKey) # {} /\ Chosen(a, PlanKey) = Failed
      BY <1>3, <2>2, <3>2, <3>3, SpokenOne
    <3>5. r = Rest(a, PlanKey)
      BY <2>1, <2>2, <3>1, <3>3, <3>4 DEF PumpOr, Busy, Same, Rest, Chosen, Live
    <3>6. /\ r.status = a.status /\ r.busy = a.busy /\ r.effects = a.effects
          /\ r.pending = [a.pending EXCEPT ![PlanKey] =
               SubSeq(a.pending[PlanKey], Min(Live(a, PlanKey)) + 1, Len(a.pending[PlanKey]))]
      BY <2>2, <3>5 DEF Rest, CreateState
    <3>7. Min(Live(a, PlanKey)) = 1 /\ Len(a.pending[PlanKey]) = 1
      <4>1. Live(a, PlanKey) \subseteq {1}
        BY <3>2 DEF Live
      <4>2. Min(Live(a, PlanKey)) \in Live(a, PlanKey)
        BY <3>4, <4>1, MinIn
      <4> QED
        BY <3>2, <4>1, <4>2
    <3>8. SubSeq(a.pending[PlanKey], 2, 1) = <<>>
      <4>1. a.pending[PlanKey] \in Seq(Events)
        BY <1>3, <2>2 DEF CreateState
      <4> QED
        BY <4>1, SubSeqProperties, EmptySeq
    <3>9. /\ r.pending[PlanKey] = <<>>
          /\ \A u \in Target \ {PlanKey} : r.pending[u] = a.pending[u]
      <4>1. a.pending \in [Target -> Seq(Events)]
        BY <2>2 DEF CreateState
      <4> QED
        BY <1>3, <3>6, <3>7, <3>8, <4>1
    <3>10. Voiced(b, r, loose)
      <4>1. Voiced(b, a, loose \cup {PlanKey}) /\ PlanKey \in Target
        BY <1>3, <2>2
      <4>2. r.status = a.status /\ r.busy = a.busy /\ r.effects = a.effects
        BY <3>6
      <4>3. \A u \in Target : r.pending[u] = <<>> \/ (u # PlanKey /\ r.pending[u] = a.pending[u])
        BY <3>9
      <4>4. \A u \in Target :
              /\ u \in r.busy \/ u \in loose \/ r.pending[u] = <<>>
              /\ \A i \in DOMAIN r.pending[u] : Real(r.pending[u][i])
        BY <4>1, <4>2, <4>3 DEF Voiced
      <4> QED
        BY <4>1, <4>2, <4>4 DEF Voiced
    <3> QED
      BY <1>6, <2>5, <3>10 DEF r
  <2> QED
    BY <2>3, <2>4, <2>5
<1> QED
  BY <1>4, <1>5, <1>6

(* A queue left to be looked at is looked at (pump_progress).              *)
LEMMA PumpVoiced ==
  ASSUME Types, NEW s \in CreateState, NEW b, NEW t \in Target, Voiced(b, s, {t}),
         s.status[t] # NoStatus
  PROVE  Voiced(b, Pump(s, t), {}) /\ (t \notin s.busy => Pump(s, t) = Spoken(s, t))
<1>1. CASE t \in s.busy
  <2>1. Pump(s, t) = s
    BY <1>1 DEF Pump, PumpOr, Busy
  <2> QED
    BY <1>1, <2>1 DEF Voiced
<1>2. CASE t \notin s.busy
  <2>1. Pump(s, t) = Spoken(s, t)
    BY <1>2, BegunStarted, PumpSpoken
  <2>2. Voiced(b, Spoken(s, t), {t} \ {t})
    BY <1>2, BegunStarted, SpokenVoiced
  <2> QED
    BY <2>1, <2>2
<1> QED
  BY <1>1, <1>2

(* One effect more that is no emission.                                    *)
LEMMA EffectVoiced ==
  ASSUME NEW s \in CreateState, NEW b, NEW loose, Voiced(b, s, loose),
         NEW x \in Effects, x.type \notin Emissions
  PROVE  /\ Voiced(b, Effect(s, x), loose) /\ Effect(s, x).pending = s.pending
         /\ Effect(s, x).status = s.status /\ Effect(s, x).busy = s.busy
         /\ Effect(s, x).waited = s.waited
<1> DEFINE r == Effect(s, x)
<1>1. /\ r.status = s.status /\ r.busy = s.busy /\ r.pending = s.pending
      /\ r.effects = s.effects \cup {x} /\ r.waited = s.waited
  BY DEF Effect, CreateState
<1> HIDE DEF r
<1>2. Voiced(b, r, loose)
  BY <1>1, VoicedSame
<1> QED
  BY <1>1, <1>2 DEF r

(* What is tried once something is ready emits nothing (advance_items).    *)
LEMMA AdvanceVoiced ==
  ASSUME NEW s \in CreateState, NEW b, NEW loose, Voiced(b, s, loose)
  PROVE  LET r == Advance(s) IN
         /\ Voiced(b, r, loose) /\ r.pending = s.pending
         /\ r.status = s.status /\ r.busy = s.busy /\ r.waited = s.waited
<1>1. CASE Advance(s) = s
  BY <1>1
<1>2. CASE Publishes(s, Advance(s))
  <2> DEFINE r == [s EXCEPT !.publishing = TRUE]
             x == [type |-> "PublishInstall"]
  <2>1. Advance(s) = Effect(r, x) /\ x \in Effects /\ x.type \notin Emissions
    BY <1>2 DEF Publishes, Effects, FinishEffects, Emissions
  <2>2. r \in CreateState /\ r.status = s.status /\ r.busy = s.busy /\ r.pending = s.pending
        /\ r.effects = s.effects /\ r.waited = s.waited
    BY DEF CreateState
  <2> HIDE DEF r, x
  <2>3. Voiced(b, r, loose)
    BY <2>2, VoicedSame
  <2> QED
    BY <2>1, <2>2, <2>3, EffectVoiced
<1>3. CASE Executes(s, Advance(s))
  <2> DEFINE r == [s EXCEPT !.itemRunning = TRUE]
             x == [type |-> "ExecuteItem", index |-> s.next]
  <2>1. Advance(s) = Effect(r, x) /\ x \in Effects /\ x.type \notin Emissions
    BY <1>3 DEF Executes, Effects, Emissions, CreateState
  <2>2. r \in CreateState /\ r.status = s.status /\ r.busy = s.busy /\ r.pending = s.pending
        /\ r.effects = s.effects /\ r.waited = s.waited
    BY DEF CreateState
  <2> HIDE DEF r, x
  <2>3. Voiced(b, r, loose)
    BY <2>2, VoicedSame
  <2> QED
    BY <2>1, <2>2, <2>3, EffectVoiced
<1> QED
  BY <1>1, <1>2, <1>3, AdvanceCases

-----------------------------------------------------------------------------
(* A step of the reducer, seen from the emissions.                         *)

(* The first gap messages of the channel are taken, and acked are the      *)
(* targets whose emissions they answer.                                    *)
Took(gap, acked) ==
  /\ gap \in {0, 1}
  /\ queue' \in Seq(Messages)
  /\ \A i \in DOMAIN queue' : i + gap \in DOMAIN queue /\ queue'[i] = queue[i + gap]
  /\ \A i \in DOMAIN queue : i > gap => i - gap \in DOMAIN queue' /\ queue'[i - gap] = queue[i]
  /\ acked = {queue[i].target :
                i \in {j \in DOMAIN queue : j <= gap /\ queue[j].type \in Acks}}

(* The emissions that are out, of other targets than those acked.          *)
LEMMA OutApart ==
  ASSUME Types, TokenInv, NEW gap, NEW acked, Took(gap, acked)
  PROVE  /\ \A m \in Answered(Acks)' : m \in Answered(Acks) /\ m.target \in state.busy \ acked
         /\ \A m \in Answered(Acks) : m.target \in acked \/ m \in Answered(Acks)'
         /\ \A u \in tasks : u.effect.type \in Emissions =>
              u.effect.target \in state.busy \ acked
         /\ acked \subseteq state.busy
         /\ \A i, j \in DOMAIN queue' :
              queue'[i].type \in Acks /\ queue'[j].type \in Acks
                /\ queue'[i].target = queue'[j].target => i = j
<1>0. /\ DOMAIN queue = 1 .. Len(queue) /\ DOMAIN queue' = 1 .. Len(queue')
      /\ Len(queue) \in Nat /\ Len(queue') \in Nat /\ gap \in {0, 1}
  BY LenProperties DEF Took, Types
<1>1. ASSUME NEW m \in Answered(Acks)'
      PROVE  m \in Answered(Acks) /\ m.target \in state.busy \ acked
  <2>1. PICK i \in DOMAIN queue' : m = queue'[i]
    BY DEF Answered, Queued
  <2>2. i + gap \in DOMAIN queue /\ m = queue[i + gap] /\ m.type \in Acks
    BY <2>1 DEF Took, Answered
  <2>3. m \in Answered(Acks) /\ m.target \in state.busy
    BY <2>2 DEF TokenInv, Answered, Queued
  <2>4. ASSUME m.target \in acked PROVE FALSE
    <3>1. PICK j \in DOMAIN queue : /\ j <= gap /\ queue[j].type \in Acks
                                    /\ m.target = queue[j].target
      BY <2>4 DEF Took
    <3>2. j = i + gap
      BY <2>2, <3>1 DEF TokenInv
    <3> QED
      BY <1>0, <3>1, <3>2
  <2> QED
    BY <2>3, <2>4
<1>2. ASSUME NEW m \in Answered(Acks) PROVE m.target \in acked \/ m \in Answered(Acks)'
  <2>1. PICK i \in DOMAIN queue : m = queue[i]
    BY DEF Answered, Queued
  <2>2. m.type \in Acks
    BY DEF Answered
  <2>3. CASE i <= gap
    BY <2>1, <2>2, <2>3 DEF Took
  <2>4. CASE i > gap
    BY <2>1, <2>2, <2>4 DEF Took, Answered, Queued
  <2> QED
    BY <1>0, <2>3, <2>4
<1>3. ASSUME NEW t \in acked PROVE \E m \in Answered(Acks) : m.target = t
  BY DEF Took, Answered, Queued
<1>4. ASSUME NEW u \in tasks, u.effect.type \in Emissions
      PROVE  u.effect.target \in state.busy \ acked
  BY <1>3, <1>4 DEF TokenInv
<1>5. acked \subseteq state.busy
  BY <1>3 DEF TokenInv
<1>6. ASSUME NEW i \in DOMAIN queue', NEW j \in DOMAIN queue',
             queue'[i].type \in Acks, queue'[j].type \in Acks,
             queue'[i].target = queue'[j].target
      PROVE  i = j
  <2>1. i + gap = j + gap
    BY <1>6 DEF Took, TokenInv
  <2> QED
    BY <1>0, <2>1
<1> QED
  BY <1>1, <1>2, <1>4, <1>5, <1>6

(* The state that is stored and the tasks that run after an event.         *)
LEMMA BecomeVoices ==
  ASSUME NEW n \in CreateState, NEW others, Become(n, others)
  PROVE  /\ state'.status = n.status /\ state'.busy = n.busy /\ state'.pending = n.pending
         /\ state'.waited = n.waited /\ sent' = sent
         /\ \A u \in tasks' : u \in others \/ (u.left = <<>> /\ u.effect \in n.effects)
         /\ \A u, v \in tasks' \ others : u.effect = v.effect => u = v
         /\ others \subseteq tasks'
         /\ \A x \in n.effects : x \in Running'
<1>1. tasks' = others \cup {[effect |-> e, left |-> <<>>] : e \in n.effects}
  BY DEF Become
<1>2. \A e : [effect |-> e, left |-> <<>>].effect = e /\ [effect |-> e, left |-> <<>>].left = <<>>
  OBVIOUS
<1>3. \A x \in n.effects : x \in Running'
  BY <1>1, <1>2 DEF Running
<1>4. /\ state'.status = n.status /\ state'.busy = n.busy /\ state'.pending = n.pending
      /\ state'.waited = n.waited /\ sent' = sent
  BY DEF Become, CreateState
<1> QED
  BY <1>1, <1>2, <1>3, <1>4

(* Each emission is out once (pump_progress, busy targets).                *)
LEMMA TokenVoices ==
  ASSUME Types, TokenInv, NEW n \in CreateState, NEW others \in SUBSET tasks,
         Become(n, others), NEW gap, NEW acked, Took(gap, acked),
         Voiced(state.busy \ acked, n, {})
  PROVE  TokenInv'
<1> DEFINE b == state.busy \ acked
<1>1. /\ state'.status = n.status /\ state'.busy = n.busy /\ state'.pending = n.pending
      /\ \A u \in tasks' : u \in others \/ (u.left = <<>> /\ u.effect \in n.effects)
      /\ \A u, v \in tasks' \ others : u.effect = v.effect => u = v
  BY BecomeVoices
<1>2. /\ \A m \in Answered(Acks)' : m.target \in b
      /\ \A u \in tasks : u.effect.type \in Emissions => u.effect.target \in b
      /\ \A i, j \in DOMAIN queue' :
           queue'[i].type \in Acks /\ queue'[j].type \in Acks
             /\ queue'[i].target = queue'[j].target => i = j
  BY OutApart
<1>3. b \subseteq n.busy /\ b \subseteq Target
  BY DEF Voiced, Types, CreateState
<1>4. \A m \in Answered(Acks) : m \in Queued
  BY DEF Answered
<1>5. ASSUME NEW u \in tasks', u.effect.type \in Emissions
      PROVE  /\ u.left = <<>>
             /\ u.effect.target \in state'.busy
             /\ u.effect.status = state'.status[u.effect.target]
             /\ \A m \in Answered(Acks)' : m.target # u.effect.target
             /\ \A v \in tasks' : Emits(v.effect, u.effect.target) => v = u
  <2> DEFINE t == u.effect.target
  <2>1. CASE u \in others
    <3>1. t \in b /\ t \in n.busy /\ t \in Target
      BY <1>2, <1>3, <1>5, <2>1
    <3>2. /\ u.left = <<>> /\ u.effect.status = state.status[t]
          /\ \A m \in Answered(Acks) : m.target # t
          /\ \A v \in tasks : Emits(v.effect, t) => v = u
      BY <1>5, <2>1 DEF TokenInv
    <3>3. n.status[t] = state.status[t]
      BY <3>1 DEF Voiced
    <3>4. \A m \in Answered(Acks)' : m.target # t
      BY <3>2, OutApart
    <3>5. \A v \in tasks' : Emits(v.effect, t) => v = u
      <4> TAKE v \in tasks'
      <4> HAVE Emits(v.effect, t)
      <4>1. CASE v \in others
        BY <3>2, <4>1
      <4>2. CASE v \notin others
        BY <1>1, <3>1, <4>2 DEF Voiced, Emits
      <4> QED
        BY <4>1, <4>2
    <3> QED
      BY <1>1, <3>1, <3>2, <3>3, <3>4, <3>5
  <2>2. CASE u \notin others
    <3>1. u.left = <<>> /\ u.effect \in n.effects
      BY <1>1, <2>2
    <3>2. t \in n.busy \ b /\ u.effect.status = n.status[t]
      BY <1>5, <3>1 DEF Voiced
    <3>3. \A v \in tasks' : Emits(v.effect, t) => v = u
      <4> TAKE v \in tasks'
      <4> HAVE Emits(v.effect, t)
      <4>1. CASE v \in others
        BY <1>2, <3>2, <4>1 DEF Emits
      <4>2. CASE v \notin others
        <5>1. v.effect \in n.effects /\ v.effect = u.effect
          BY <1>1, <1>5, <3>1, <4>2 DEF Voiced, Emits
        <5> QED
          BY <1>1, <2>2, <4>2, <5>1
      <4> QED
        BY <4>1, <4>2
    <3> QED
      BY <1>1, <1>2, <3>1, <3>2, <3>3
  <2> QED
    BY <2>1, <2>2
<1>6. \A m \in Answered(Acks)' : m.target \in state'.busy
  BY <1>1, <1>2, <1>3
<1>7. \A t \in Target :
        /\ t \in state'.busy => state'.status[t] # NoStatus
        /\ t \notin state'.busy => state'.pending[t] = <<>>
        /\ Numbered(state'.status[t])
        /\ \A i \in DOMAIN state'.pending[t] : Real(state'.pending[t][i])
  BY <1>1 DEF Voiced
<1> QED
  BY <1>2, <1>5, <1>6, <1>7 DEF TokenInv

(* Progress that waits still follows on something (reduce_event).          *)
LEMMA OpenVoices ==
  ASSUME Types, OpenedInv, NEW n \in CreateState, NEW others \in SUBSET tasks,
         Become(n, others), NEW gap, NEW acked, Took(gap, acked), NEW b, Voiced(b, n, {}),
         \A i \in DOMAIN queue : \A t \in Target :
           i <= gap /\ Opens(queue[i], t) => n.status[t] # NoStatus
  PROVE  OpenedInv'
<1>0. /\ DOMAIN queue = 1 .. Len(queue) /\ DOMAIN queue' = 1 .. Len(queue')
      /\ Len(queue) \in Nat /\ Len(queue') \in Nat /\ gap \in {0, 1}
  BY LenProperties DEF Took, Types
<1>1. /\ state'.status = n.status
      /\ \A u \in tasks' : u \in tasks \/ u.left = <<>>
  BY BecomeVoices
<1>2. \A t \in Target : state.status[t] # NoStatus => n.status[t] # NoStatus
  BY DEF Voiced
<1>3. \A m \in Messages : Follows(m) => m.target \in Target
  BY SideTypes DEF Follows, Side
<1>4. ASSUME NEW i \in DOMAIN queue, NEW t \in Target, Opens(queue[i], t)
      PROVE  n.status[t] # NoStatus \/ (i > gap /\ Opens(queue'[i - gap], t))
  BY <1>0, <1>4 DEF Took
<1>5. ASSUME NEW i \in DOMAIN queue'
      PROVE  /\ RealTalk(queue'[i])
             /\ Follows(queue'[i]) =>
                  \/ n.status[queue'[i].target] # NoStatus
                  \/ \E j \in DOMAIN queue' : j < i /\ Opens(queue'[j], queue'[i].target)
  <2>1. i + gap \in DOMAIN queue /\ queue'[i] = queue[i + gap] /\ queue'[i] \in Messages
    BY <1>0, ElementOfSeq DEF Took
  <2>2. RealTalk(queue'[i])
    BY <2>1 DEF OpenedInv
  <2>3. ASSUME Follows(queue'[i])
        PROVE  \/ n.status[queue'[i].target] # NoStatus
               \/ \E j \in DOMAIN queue' : j < i /\ Opens(queue'[j], queue'[i].target)
    <3> DEFINE t == queue'[i].target
    <3>1. t \in Target
      BY <1>3, <2>1, <2>3
    <3>2. \/ state.status[t] # NoStatus
          \/ \E j \in DOMAIN queue : j < i + gap /\ Opens(queue[j], t)
      BY <2>1, <2>3 DEF OpenedInv
    <3> HIDE DEF t
    <3>3. ASSUME NEW j \in DOMAIN queue, j < i + gap, Opens(queue[j], t)
          PROVE  \/ n.status[t] # NoStatus
                 \/ \E k \in DOMAIN queue' : k < i /\ Opens(queue'[k], t)
      <4>1. CASE n.status[t] # NoStatus
        BY <4>1
      <4>2. CASE j > gap /\ Opens(queue'[j - gap], t)
        <5>1. j - gap \in DOMAIN queue' /\ j - gap < i
          BY <1>0, <3>3, <4>2 DEF Took
        <5> QED
          BY <4>2, <5>1
      <4> QED
        BY <1>4, <3>1, <3>3, <4>1, <4>2
    <3>4. \/ n.status[t] # NoStatus
          \/ \E k \in DOMAIN queue' : k < i /\ Opens(queue'[k], t)
      BY <1>2, <3>1, <3>2, <3>3
    <3> QED
      BY <3>4 DEF t
  <2> QED
    BY <2>2, <2>3
<1>6. ASSUME NEW u \in tasks', NEW k \in DOMAIN u.left
      PROVE  /\ RealTalk(u.left[k])
             /\ Follows(u.left[k]) =>
                  \/ n.status[u.left[k].target] # NoStatus
                  \/ \E m \in Queued' : Opens(m, u.left[k].target)
                  \/ \E j \in DOMAIN u.left : j < k /\ Opens(u.left[j], u.left[k].target)
  <2>1. u \in tasks
    BY <1>1
  <2>2. u.left[k] \in Messages
    BY <2>1, ElementOfSeq, LenProperties DEF Types, Tasks
  <2>3. RealTalk(u.left[k])
    BY <2>1 DEF OpenedInv
  <2>4. ASSUME Follows(u.left[k])
        PROVE  \/ n.status[u.left[k].target] # NoStatus
               \/ \E m \in Queued' : Opens(m, u.left[k].target)
               \/ \E j \in DOMAIN u.left : j < k /\ Opens(u.left[j], u.left[k].target)
    <3> DEFINE t == u.left[k].target
    <3>1. t \in Target
      BY <1>3, <2>2, <2>4
    <3>2. \/ state.status[t] # NoStatus
          \/ \E m \in Queued : Opens(m, t)
          \/ \E j \in DOMAIN u.left : j < k /\ Opens(u.left[j], t)
      BY <2>1, <2>4 DEF OpenedInv
    <3> HIDE DEF t
    <3>3. ASSUME NEW m \in Queued, Opens(m, t)
          PROVE  n.status[t] # NoStatus \/ \E q \in Queued' : Opens(q, t)
      <4>1. PICK i \in DOMAIN queue : m = queue[i]
        BY DEF Queued
      <4>2. CASE n.status[t] # NoStatus
        BY <4>2
      <4>3. CASE i > gap /\ Opens(queue'[i - gap], t)
        <5>1. i - gap \in DOMAIN queue'
          BY <4>3 DEF Took
        <5> QED
          BY <4>3, <5>1 DEF Queued
      <4> QED
        BY <1>4, <3>1, <3>3, <4>1, <4>2, <4>3
    <3>4. \/ n.status[t] # NoStatus
          \/ \E m \in Queued' : Opens(m, t)
          \/ \E j \in DOMAIN u.left : j < k /\ Opens(u.left[j], t)
      BY <1>2, <3>1, <3>2, <3>3
    <3> QED
      BY <3>4 DEF t
  <2> QED
    BY <2>3, <2>4
<1> QED
  BY <1>1, <1>5, <1>6 DEF OpenedInv

(* The caller has seen what it should have (run_create).                   *)
LEMMA HeardVoices ==
  ASSUME Types, TokenInv, HeardInv, NEW n \in CreateState, Become(n, tasks),
         NEW gap, NEW acked, Took(gap, acked), Voiced(state.busy \ acked, n, {}),
         faults' = faults
  PROVE  HeardInv'
<1> SUFFICES ASSUME faults = 0
             PROVE  /\ \A m \in Answered(Acks)' :
                         /\ sent'[m.target] = state'.status[m.target]
                         /\ m.type = "ProgressApplied" => m.ok
                    /\ \A t \in state'.busy :
                         \/ \E e \in Running' : Emits(e, t)
                         \/ \E m \in Answered(Acks)' : m.target = t
                    /\ \A t \in Target \ state'.busy : sent'[t] = state'.status[t]
                    /\ \A u \in tasks' : u.effect.type = "EmitProgress" =>
                         After(sent'[u.effect.target], u.effect.status)
  BY DEF HeardInv
<1> DEFINE b == state.busy \ acked
<1>1. /\ state'.status = n.status /\ state'.busy = n.busy /\ sent' = sent
      /\ tasks \subseteq tasks' /\ \A x \in n.effects : x \in Running'
      /\ \A u \in tasks' : u \in tasks \/ u.effect \in n.effects
  BY BecomeVoices
<1>2. /\ \A m \in Answered(Acks)' : m \in Answered(Acks) /\ m.target \in b
      /\ \A m \in Answered(Acks) : m.target \in acked \/ m \in Answered(Acks)'
  BY OutApart
<1>3. state.busy \subseteq Target /\ n.busy \subseteq Target /\ b \subseteq Target
  BY DEF Types, CreateState
<1>4. /\ \A m \in Answered(Acks) :
           sent[m.target] = state.status[m.target] /\ (m.type = "ProgressApplied" => m.ok)
      /\ \A t \in state.busy :
           (\E e \in Running : Emits(e, t)) \/ (\E m \in Answered(Acks) : m.target = t)
      /\ \A t \in Target \ state.busy : sent[t] = state.status[t]
      /\ \A u \in tasks : u.effect.type = "EmitProgress" =>
           After(sent[u.effect.target], u.effect.status)
  BY DEF HeardInv
<1>5. \A t \in Target : t \in b \/ t \notin n.busy => n.status[t] = state.status[t]
  BY DEF Voiced
<1>6. \A m \in Answered(Acks)' :
        sent'[m.target] = state'.status[m.target] /\ (m.type = "ProgressApplied" => m.ok)
  BY <1>1, <1>2, <1>3, <1>4, <1>5
<1>7. ASSUME NEW t \in n.busy
      PROVE  (\E e \in Running' : Emits(e, t)) \/ (\E m \in Answered(Acks)' : m.target = t)
  <2>1. CASE t \in b
    <3>1. Running \subseteq Running'
      BY <1>1 DEF Running
    <3> QED
      BY <1>2, <1>4, <2>1, <3>1
  <2>2. CASE t \notin b
    BY <1>1, <2>2 DEF Voiced
  <2> QED
    BY <2>1, <2>2
<1>8. ASSUME NEW t \in Target \ n.busy PROVE sent'[t] = state'.status[t]
  <2>1. n.status[t] = state.status[t] /\ t \notin b
    BY <1>5 DEF Voiced
  <2>2. CASE t \in acked
    <3>1. \E m \in Answered(Acks) : m.target = t
      BY <2>2 DEF Took, Answered, Queued
    <3> QED
      BY <1>1, <1>4, <2>1, <3>1
  <2>3. CASE t \notin state.busy
    BY <1>1, <1>4, <2>1, <2>3
  <2> QED
    BY <2>1, <2>2, <2>3
<1>9. ASSUME NEW u \in tasks', u.effect.type = "EmitProgress"
      PROVE  After(sent'[u.effect.target], u.effect.status)
  <2>1. CASE u \in tasks
    BY <1>1, <1>4, <1>9, <2>1
  <2>2. CASE u \notin tasks
    <3> DEFINE t == u.effect.target
    <3>1. u.effect \in n.effects /\ u.effect.type \in Emissions
      BY <1>1, <1>9, <2>2 DEF Emissions
    <3>2. t \in Target \ b /\ After(state.status[t], u.effect.status)
      BY <1>3, <1>9, <3>1 DEF Voiced
    <3>3. sent[t] = state.status[t]
      <4>1. CASE t \in acked
        <5>1. \E m \in Answered(Acks) : m.target = t
          BY <4>1 DEF Took, Answered, Queued
        <5> QED
          BY <1>4, <5>1
      <4>2. CASE t \notin state.busy
        BY <1>4, <3>2, <4>2
      <4> QED
        BY <3>2, <4>1, <4>2
    <3> QED
      BY <1>1, <3>2, <3>3
  <2> QED
    BY <2>1, <2>2
<1> QED
  BY <1>1, <1>6, <1>7, <1>8, <1>9

(* An event that is heard is taken from the channel.                       *)
LEMMA ReceiveTook ==
  ASSUME Types, NEW type, Receive(type)
  PROVE  /\ Took(1, IF type \in Acks THEN {Head(queue).target} ELSE {})
         /\ \A i \in DOMAIN queue : i <= 1 => queue[i] = Head(queue)
         /\ faults' = faults /\ Head(queue) \in Messages /\ Head(queue).type = type
         /\ 1 \in DOMAIN queue /\ queue[1] = Head(queue)
<1>1. /\ queue \in Seq(Messages) /\ queue # <<>> /\ queue' = Tail(queue)
      /\ faults' = faults /\ Head(queue).type = type
  BY DEF Types, Receive
<1>2. /\ queue' \in Seq(Messages) /\ Len(queue) \in Nat \ {0}
      /\ DOMAIN queue = 1 .. Len(queue) /\ DOMAIN queue' = 1 .. (Len(queue) - 1)
      /\ \A i \in DOMAIN queue' : queue'[i] = queue[i + 1]
      /\ Head(queue) = queue[1] /\ Head(queue) \in Messages
  BY <1>1, EmptySeq, HeadTailProperties, LenProperties, ElementOfSeq
<1>3. {j \in DOMAIN queue : j <= 1 /\ queue[j].type \in Acks} =
        IF type \in Acks THEN {1} ELSE {}
  BY <1>1, <1>2
<1>4. \A i \in DOMAIN queue : i > 1 => i - 1 \in DOMAIN queue' /\ queue'[i - 1] = queue[i]
  BY <1>2
<1>5. \A i \in DOMAIN queue' : i + 1 \in DOMAIN queue
  BY <1>2
<1>6. {queue[i].target : i \in {j \in DOMAIN queue : j <= 1 /\ queue[j].type \in Acks}} =
        IF type \in Acks THEN {Head(queue).target} ELSE {}
  BY <1>2, <1>3
<1>7. Took(1, IF type \in Acks THEN {Head(queue).target} ELSE {})
  BY <1>2, <1>4, <1>5, <1>6 DEF Took
<1> QED
  BY <1>1, <1>2, <1>7

(* An event that leaves the reducer voiced.                                *)
LEMMA ReceiveVoices ==
  ASSUME Types, TokenInv, OpenedInv, HeardInv, NEW type, Receive(type),
         NEW n \in CreateState, Become(n, tasks),
         Voiced(state.busy \ (IF type \in Acks THEN {Head(queue).target} ELSE {}), n, {}),
         \A t \in Target : Opens(Head(queue), t) => n.status[t] # NoStatus
  PROVE  TokenInv' /\ OpenedInv' /\ HeardInv'
<1> DEFINE acked == IF type \in Acks THEN {Head(queue).target} ELSE {}
<1>1. /\ Took(1, acked) /\ faults' = faults
      /\ \A i \in DOMAIN queue : i <= 1 => queue[i] = Head(queue)
  BY ReceiveTook
<1> HIDE DEF acked
<1>2. Voiced(state.busy \ acked, n, {})
  BY DEF acked
<1>3. TokenInv'
  BY <1>1, <1>2, TokenVoices
<1>4. OpenedInv'
  BY <1>1, <1>2, OpenVoices
<1>5. HeardInv'
  BY <1>1, <1>2, HeardVoices
<1> QED
  BY <1>3, <1>4, <1>5

(* A task that panics: its emission is never answered, and nothing it had  *)
(* still to say is heard.                                                  *)
LEMMA PanicVoices ==
  ASSUME Types, TokenInv, OpenedInv, NEW t \in tasks, JoinPanic(t)
  PROVE  TokenInv' /\ OpenedInv' /\ faults' # 0
<1> DEFINE n == FailCreate(state)
<1>1. /\ faults' = faults + 1 /\ queue' = queue
      /\ Become(n, tasks \ {t})
  BY DEF JoinPanic, Fault
<1>2. n \in CreateState
  BY FailKept DEF Types, Kept
<1>3. Voiced(state.busy, n, {})
  BY VoicedStart, FailVoiced DEF Types
<1> HIDE DEF n
<1>4. Took(0, {})
  <2>1. DOMAIN queue = 1 .. Len(queue) /\ Len(queue) \in Nat
    BY LenProperties DEF Types
  <2> QED
    BY <1>1, <2>1 DEF Took, Types
<1>5. state.busy \ {} = state.busy
  OBVIOUS
<1>6. TokenInv'
  BY <1>1, <1>2, <1>3, <1>4, <1>5, TokenVoices
<1>7. \A i \in DOMAIN queue : ~(i <= 0)
  BY LenProperties DEF Types
<1>8. OpenedInv'
  BY <1>1, <1>2, <1>3, <1>4, <1>7, OpenVoices
<1>9. faults' # 0
  BY <1>1, BoundsAssumption DEF Types
<1> QED
  BY <1>6, <1>8, <1>9

-----------------------------------------------------------------------------
(* A step of a task, seen from the emissions.                              *)

(* An answer is about one target, and opens with an attempt what follows.  *)
About(a, t) ==
  \A k \in DOMAIN a : RealTalk(a[k]) /\ (a[k].type \in Talk => a[k].target = t)
Starts(a, t) ==
  /\ About(a, t)
  /\ \/ a # <<>> /\ Opens(a[1], t)
     \/ \A k \in DOMAIN a : ~Follows(a[k])

(* A message that carries no progress.                                     *)
LEMMA StartsEnd ==
  ASSUME NEW m, m.type \notin Talk, NEW t
  PROVE  Starts(<<m>>, t) /\ About(<<m>>, t)
BY DEF Starts, About, RealTalk, Follows, Talk

(* An attempt that is opened and ends.                                     *)
LEMMA StartsTuple ==
  ASSUME NEW p \in Messages, NEW q \in Messages, NEW m \in Messages, NEW t,
         Opens(p, t), RealTalk(p), RealTalk(q), q.target = t, m.type \notin Talk
  PROVE  /\ <<p, m>> \in Seq(Messages) /\ Starts(<<p, m>>, t)
         /\ <<p, q, m>> \in Seq(Messages) /\ Starts(<<p, q, m>>, t)
         /\ <<q, m>> \in Seq(Messages) /\ About(<<q, m>>, t)
<1>1. RealTalk(m)
  BY DEF RealTalk, Talk
<1>2. p.target = t
  BY DEF Opens
<1>3. About(<<p, m>>, t) /\ About(<<p, q, m>>, t) /\ About(<<q, m>>, t)
  BY <1>1, <1>2 DEF About
<1>4. <<p, m>>[1] = p /\ <<p, q, m>>[1] = p /\ <<p, m>> # <<>> /\ <<p, q, m>> # <<>>
  OBVIOUS
<1> QED
  BY <1>3, <1>4 DEF Starts

(* What comes after the opening of an attempt may be anything about it.    *)
LEMMA StartsConcat ==
  ASSUME NEW c \in Seq(Messages), NEW a \in Seq(Messages), NEW t,
         About(c, t), About(a, t)
  PROVE  /\ About(c \o a, t)
         /\ c # <<>> /\ Opens(c[1], t) => Starts(c \o a, t)
         /\ c = <<>> /\ Starts(a, t) => Starts(c \o a, t)
<1>1. /\ c \o a \in Seq(Messages)
      /\ Len(c \o a) = Len(c) + Len(a)
      /\ \A i \in 1 .. Len(c \o a) :
           (c \o a)[i] = IF i <= Len(c) THEN c[i] ELSE a[i - Len(c)]
  BY ConcatProperties
<1>2. /\ Len(c) \in Nat /\ Len(a) \in Nat /\ DOMAIN c = 1 .. Len(c) /\ DOMAIN a = 1 .. Len(a)
      /\ DOMAIN (c \o a) = 1 .. Len(c \o a)
  BY <1>1, LenProperties
<1>3. About(c \o a, t)
  <2> SUFFICES ASSUME NEW k \in DOMAIN (c \o a)
               PROVE  /\ RealTalk((c \o a)[k])
                      /\ (c \o a)[k].type \in Talk => (c \o a)[k].target = t
    BY DEF About
  <2>1. CASE k <= Len(c)
    BY <1>1, <1>2, <2>1 DEF About
  <2>2. CASE ~(k <= Len(c))
    <3>1. k - Len(c) \in DOMAIN a /\ (c \o a)[k] = a[k - Len(c)]
      BY <1>1, <1>2, <2>2
    <3> QED
      BY <3>1 DEF About
  <2> QED
    BY <2>1, <2>2
<1>4. ASSUME c # <<>>, Opens(c[1], t) PROVE Starts(c \o a, t)
  <2>1. Len(c) # 0 /\ (c \o a)[1] = c[1] /\ c \o a # <<>>
    <3>1. Len(c) # 0
      BY <1>4, EmptySeq
    <3>2. 1 \in 1 .. Len(c \o a) /\ 1 <= Len(c)
      BY <1>1, <1>2, <3>1
    <3> QED
      BY <1>1, <1>2, <3>1, <3>2, EmptySeq
  <2> QED
    BY <1>3, <1>4, <2>1 DEF Starts
<1>5. ASSUME c = <<>>, Starts(a, t) PROVE Starts(c \o a, t)
  <2>1. c \o a = a
    BY <1>5, ConcatEmptySeq
  <2> QED
    BY <1>5, <2>1
<1> QED
  BY <1>3, <1>4, <1>5

(* An attempt is opened first.                                             *)
LEMMA AttemptStarts ==
  ASSUME NEW t \in Target, NEW ty \in Kinds
  PROVE  LET a == Attempt(t, ty) IN
         a \in Seq(Messages) /\ About(a, t) /\ a # <<>> /\ Opens(a[1], t)
<1> DEFINE c == <<Progress(t, Started(ty))>>
           d == IF t \in Large THEN <<Progress(t, Progressed)>> ELSE <<>>
<1>1. /\ Progress(t, Started(ty)) \in Messages /\ Progress(t, Progressed) \in Messages
  BY DEF Progress, Messages, Chatter, Started, Progressed, Events
<1>2. /\ c \in Seq(Messages) /\ d \in Seq(Messages) /\ c # <<>> /\ Len(c) = 1
  BY <1>1, EmptySeq
<1>3. About(c, t) /\ Opens(c[1], t)
  BY DEF About, RealTalk, Opens, Follows, Talk, Progress, Started, Terminal
<1>4. About(d, t)
  BY DEF About, RealTalk, Talk, Progress, Progressed
<1>5. Attempt(t, ty) = c \o d
  BY DEF Attempt
<1> HIDE DEF c, d
<1>6. About(c \o d, t) /\ c \o d \in Seq(Messages)
  BY <1>2, <1>3, <1>4, StartsConcat, ConcatProperties
<1>7. c \o d # <<>> /\ (c \o d)[1] = c[1]
  <2>1. Len(c \o d) = Len(c) + Len(d) /\ Len(d) \in Nat
        /\ \A i \in 1 .. Len(c \o d) :
           (c \o d)[i] = IF i <= Len(c) THEN c[i] ELSE d[i - Len(c)]
    BY <1>2, ConcatProperties, LenProperties, ZenonT(40)
  <2>2. 1 \in 1 .. Len(c \o d)
    BY <1>2, <2>1
  <2> QED
    BY <1>2, <2>1, <2>2, EmptySeq
<1> QED
  BY <1>3, <1>5, <1>6, <1>7

(* A line of a lock file follows on nothing the call has said.             *)
LEMMA LineOpens ==
  ASSUME plan \in Plans, NEW lock \in Target, NEW m \in Lines(lock)
  PROVE  RealTalk(m) /\ ~Follows(m) /\ (lock \in Dl => Opens(m, lock))
<1>1. PICK t \in Target, s \in Status :
        /\ m = Observation(t, s) /\ s.ty \in Kinds
        /\ s.tried = 0 => s.st = "Completed"
        /\ lock \in Dl => t = lock
  BY LineFields
<1>2. m.type = "ObservedStatus" /\ m.target = t /\ m.status = s
  BY <1>1 DEF Observation
<1>3. s # NoStatus /\ Numbered(s)
  BY <1>1 DEF NoStatus, Kinds, Numbered
<1> QED
  BY <1>1, <1>2, <1>3 DEF RealTalk, Follows, Opens, Talk

(* What is seen of the other holders of a download is of its key.          *)
LEMMA ObservedStarts ==
  ASSUME plan \in Plans, NEW d \in Dl, NEW a \in ObservedOf(d)
  PROVE  /\ a \in Seq(Messages) /\ About(a, d)
         /\ a = <<>> \/ (a # <<>> /\ Opens(a[1], d))
<1>1. d \in Target
  BY DEF Target
<1>2. a \in Seq(Chatter) /\ \A k \in DOMAIN a : a[k] \in Lines(d)
  BY <1>1, ObservedType
<1>3. a \in Seq(Messages)
  BY <1>2, ChatterMessages, SeqMonotonic
<1>4. \A k \in DOMAIN a : RealTalk(a[k]) /\ Opens(a[k], d)
  BY <1>1, <1>2, LineOpens
<1>5. a # <<>> => 1 \in DOMAIN a
  BY <1>3, EmptySeq, LenProperties
<1> QED
  BY <1>3, <1>4, <1>5 DEF About, Opens

(* What a download says is of its key.                                     *)
LEMMA DownloadStarts ==
  ASSUME plan \in Plans, NEW d \in Dl, NEW a \in DownloadAnswers(d)
  PROVE  a \in Seq(Messages) /\ Starts(a, d)
<1>1. d \in Target /\ "Download" \in Kinds
  BY DEF Target, Kinds
<1> DEFINE attempt == Attempt(d, "Download")
           started == Progress(d, Started("Download"))
           failed == Progress(d, Failed)
           finished(ok) == <<Downloaded(d, ok)>>
<1>2. \A ok \in BOOLEAN :
        Starts(finished(ok), d) /\ About(finished(ok), d) /\ finished(ok) \in Seq(Messages)
  <2> TAKE ok \in BOOLEAN
  <2>1. Downloaded(d, ok) \in Messages /\ Downloaded(d, ok).type \notin Talk
    BY DEF Downloaded, Messages, Talk
  <2> QED
    BY <2>1, StartsEnd
<1>3. /\ started \in Messages /\ failed \in Messages
      /\ Progress(d, Completed) \in Messages /\ Progress(d, Cached("Download")) \in Messages
      /\ Opens(started, d) /\ Opens(Progress(d, Cached("Download")), d)
      /\ \A e \in {Started("Download"), Cached("Download"), Completed, Failed} :
           RealTalk(Progress(d, e)) /\ Progress(d, e).target = d
  BY <1>1 DEF Progress, Messages, Chatter, Started, Completed, Failed, Cached, Events, Kinds,
     Opens, Follows, Talk, Terminal, RealTalk
<1>4. attempt \in Seq(Messages) /\ About(attempt, d) /\ attempt # <<>> /\ Opens(attempt[1], d)
  BY <1>1, AttemptStarts
<1>5. ASSUME NEW ok \in BOOLEAN
      PROVE  Downloaded(d, ok) \in Messages /\ Downloaded(d, ok).type \notin Talk
  BY DEF Downloaded, Messages, Talk
<1>6. CASE a = DownloadFound(d)
  <2> DEFINE p == Progress(d, Cached("Download"))
             m == Downloaded(d, TRUE)
  <2>1. /\ p \in Messages /\ Opens(p, d) /\ RealTalk(p) /\ p.target = d
        /\ m \in Messages /\ m.type \notin Talk /\ a = <<p, m>>
    BY <1>3, <1>5, <1>6 DEF DownloadFound
  <2> HIDE DEF p, m
  <2> QED
    BY <2>1, StartsTuple
<1>7. ASSUME NEW x \in DownloadTried(d)
      PROVE  x \in Seq(Messages) /\ Starts(x, d)
  <2>1. CASE x \in {finished(TRUE), finished(FALSE)}
    BY <1>2, <2>1
  <2>2. CASE x = <<started, failed, Downloaded(d, FALSE)>>
    <3> DEFINE m == Downloaded(d, FALSE)
    <3>1. /\ started \in Messages /\ Opens(started, d) /\ RealTalk(started)
          /\ failed \in Messages /\ RealTalk(failed) /\ failed.target = d
          /\ m \in Messages /\ m.type \notin Talk
      BY <1>3, <1>5
    <3> HIDE DEF started, failed, m
    <3>2. x = <<started, failed, m>>
      BY <2>2 DEF m
    <3> QED
      BY <3>1, <3>2, StartsTuple
  <2>3. ASSUME NEW ok \in BOOLEAN, NEW e \in {Completed, Failed},
               x = attempt \o <<Progress(d, e), Downloaded(d, ok)>>
        PROVE  x \in Seq(Messages) /\ Starts(x, d)
    <3> DEFINE y == <<Progress(d, e), Downloaded(d, ok)>>
    <3>1. About(y, d) /\ y \in Seq(Messages)
      <4> DEFINE q == Progress(d, e)
                 m == Downloaded(d, ok)
      <4>1. /\ q \in Messages /\ RealTalk(q) /\ q.target = d
            /\ m \in Messages /\ m.type \notin Talk
            /\ started \in Messages /\ Opens(started, d) /\ RealTalk(started)
        BY <1>3, <1>5
      <4> HIDE DEF q, m, started
      <4>2. About(<<q, m>>, d) /\ <<q, m>> \in Seq(Messages)
        BY <4>1, StartsTuple
      <4> QED
        BY <4>2 DEF q, m
    <3> HIDE DEF y, attempt
    <3> QED
      BY <1>4, <2>3, <3>1, StartsConcat, ConcatProperties DEF y
  <2>4. CASE x = Append(attempt, Downloaded(d, FALSE))
    <3> HIDE DEF attempt
    <3>1. x = attempt \o finished(FALSE)
      <4>1. Downloaded(d, FALSE) \in Messages
        BY DEF Downloaded, Messages
      <4> QED
        BY <1>4, <2>4, <4>1, AppendIsConcat
    <3> HIDE DEF finished
    <3> QED
      BY <1>2, <1>4, <3>1, StartsConcat, ConcatProperties
  <2>5. \/ x \in {finished(TRUE), finished(FALSE)}
        \/ x = <<started, failed, Downloaded(d, FALSE)>>
        \/ x = attempt \o <<Progress(d, Completed), Downloaded(d, TRUE)>>
        \/ x = attempt \o <<Progress(d, Failed), Downloaded(d, FALSE)>>
        \/ x = Append(attempt, Downloaded(d, FALSE))
    BY DEF DownloadTried
  <2> QED
    BY <2>1, <2>2, <2>3, <2>4, <2>5
<1>8. CASE a # DownloadFound(d)
  <2>1. PICK seen \in ObservedOf(d), x \in DownloadTried(d) : a = seen \o x
    BY <1>8 DEF DownloadAnswers
  <2>2. /\ seen \in Seq(Messages) /\ About(seen, d)
        /\ seen = <<>> \/ (seen # <<>> /\ Opens(seen[1], d))
    BY <1>1, ObservedStarts
  <2>3. x \in Seq(Messages) /\ Starts(x, d) /\ About(x, d)
    BY <1>7 DEF Starts
  <2> QED
    BY <2>1, <2>2, <2>3, StartsConcat, ConcatProperties
<1> QED
  BY <1>6, <1>8

(* What an item says is of its download.                                   *)
LEMMA ItemStarts ==
  ASSUME plan \in Plans, NEW i \in DOMAIN plan, NEW a \in ExecuteAnswers(i)
  PROVE  a \in Seq(Messages) /\ Starts(a, plan[i])
<1> DEFINE d == plan[i]
           finished(ok) == [type |-> "ItemFinished", index |-> i, ok |-> ok]
           said(ok) == Progress(d, IF ok THEN Completed ELSE Failed)
           attempt == Attempt(d, "Unpack")
<1>1. i \in Nat /\ d \in Target /\ "Unpack" \in Kinds
  BY PlansAssumption, ElementOfSeq, LenProperties DEF Target, Kinds
<1>2. \A ok \in BOOLEAN : finished(ok) \in Messages /\ finished(ok).type \notin Talk
                          /\ RealTalk(finished(ok))
  BY <1>1 DEF Messages, Talk, RealTalk
<1>3. \A ok \in BOOLEAN : said(ok) \in Messages /\ RealTalk(said(ok)) /\ said(ok).target = d
  BY <1>1 DEF Progress, Messages, Chatter, Completed, Failed, Events, RealTalk
<1>4. attempt \in Seq(Messages) /\ About(attempt, d) /\ attempt # <<>> /\ Opens(attempt[1], d)
  BY <1>1, AttemptStarts
<1>5. \/ a = <<finished(FALSE)>>
      \/ \E ok \in BOOLEAN : a = <<finished(ok)>> \/ a = attempt \o <<said(ok), finished(ok)>>
  BY DEF ExecuteAnswers
<1> HIDE DEF d, finished, said, attempt
<1>6. ASSUME NEW ok \in BOOLEAN, a = <<finished(ok)>>
      PROVE  a \in Seq(Messages) /\ Starts(a, d)
  BY <1>2, <1>6, StartsEnd
<1>7. ASSUME NEW ok \in BOOLEAN, a = attempt \o <<said(ok), finished(ok)>>
      PROVE  a \in Seq(Messages) /\ Starts(a, d)
  <2> DEFINE y == <<said(ok), finished(ok)>>
  <2>1. y \in Seq(Messages) /\ About(y, d)
    BY <1>2, <1>3 DEF About
  <2> HIDE DEF y
  <2> QED
    BY <1>4, <1>7, <2>1, StartsConcat, ConcatProperties DEF y
<1> QED
  BY <1>5, <1>6, <1>7 DEF d

(* What is said while the install lock is waited for follows on nothing; a *)
(* lock that was not waited for is there at once.                          *)
LEMMA InstallStarts ==
  ASSUME plan \in Plans, NEW a \in InstallAnswers
  PROVE  /\ \A k \in DOMAIN a : RealTalk(a[k]) /\ ~Follows(a[k])
         /\ Len(a) # 1 => (a[Len(a)].type = "InstallAcquired" => a[Len(a)].waited)
<1> DEFINE acquired(cached, waited) ==
             [type |-> "InstallAcquired", cached |-> cached, waited |-> waited]
           lasts == {acquired(cached, TRUE) : cached \in BOOLEAN} \cup {Event("EffectFailed")}
           atOnce == {<<acquired(cached, FALSE)>> : cached \in BOOLEAN}
<1>1. PlanKey \in Target
  BY DEF Target
<1>2. \A m \in lasts : /\ m \in Messages /\ m.type \notin Talk
                       /\ m.type = "InstallAcquired" => m.waited
  <2> TAKE m \in lasts
  <2>1. ASSUME NEW cached \in BOOLEAN, m = acquired(cached, TRUE)
        PROVE  m \in Messages /\ m.type \notin Talk /\ (m.type = "InstallAcquired" => m.waited)
    BY <2>1 DEF Messages, Talk
  <2>2. CASE m = Event("EffectFailed")
    BY <2>2 DEF Messages, Talk, Event
  <2> HIDE DEF acquired
  <2> QED
    BY <2>1, <2>2
<1>3. ASSUME NEW x \in atOnce
      PROVE  Len(x) = 1 /\ \A k \in DOMAIN x : RealTalk(x[k]) /\ ~Follows(x[k])
  <2>1. PICK cached \in BOOLEAN : x = <<acquired(cached, FALSE)>>
    OBVIOUS
  <2>2. acquired(cached, FALSE).type \notin Talk
    BY DEF Talk
  <2> QED
    BY <2>1, <2>2 DEF RealTalk, Follows, Talk
<1>4. ASSUME NEW seen \in ObservedOf(PlanKey), NEW m \in lasts,
             a = Append(seen, m)
      PROVE  /\ \A k \in DOMAIN a : RealTalk(a[k]) /\ ~Follows(a[k])
             /\ a[Len(a)].type = "InstallAcquired" => a[Len(a)].waited
  <2>1. m \in Messages /\ m.type \notin Talk /\ (m.type = "InstallAcquired" => m.waited)
    BY <1>2
  <2> HIDE DEF lasts
  <2>2. /\ seen \in Seq(Messages)
        /\ \A k \in DOMAIN seen : RealTalk(seen[k]) /\ ~Follows(seen[k])
    <3>1. seen \in Seq(Chatter) /\ \A k \in DOMAIN seen : seen[k] \in Lines(PlanKey)
      BY <1>1, ObservedType
    <3> QED
      BY <1>1, <3>1, LineOpens, ChatterMessages, SeqMonotonic
  <2>3. /\ DOMAIN a = 1 .. (Len(seen) + 1) /\ Len(seen) \in Nat /\ a[Len(a)] = m
        /\ DOMAIN seen = 1 .. Len(seen)
        /\ \A k \in 1 .. Len(seen) : a[k] = seen[k]
        /\ a[Len(seen) + 1] = m
    BY <1>4, <2>1, <2>2, AppendProperties, LenProperties
  <2>4. RealTalk(m) /\ ~Follows(m)
    BY <2>1 DEF RealTalk, Follows, Talk
  <2> QED
    BY <2>1, <2>2, <2>3, <2>4
<1>5. \/ \E seen \in ObservedOf(PlanKey), m \in lasts : a = Append(seen, m)
      \/ a \in atOnce
  <2>1. InstallAnswers =
          {Append(seen, m) : seen \in ObservedOf(PlanKey), m \in lasts}
          \cup atOnce
    BY DEF InstallAnswers
  <2> HIDE DEF lasts, atOnce
  <2> QED
    BY <2>1
<1> HIDE DEF lasts, atOnce
<1> QED
  BY <1>3, <1>4, <1>5

(* What a task has still to say.                                           *)
Script(t, a) ==
  /\ a \in (IF t.left = <<>> THEN Answers(t.effect) ELSE {t.left})
  /\ queue' = Append(queue, Head(a))
  /\ tasks' = (tasks \ {t}) \cup
                (IF Len(a) = 1 THEN {} ELSE {[t EXCEPT !.left = Tail(a)]})

(* Each other answer starts what it follows on.                            *)
LEMMA AnswersStart ==
  ASSUME NEW e \in Effects, e.type # "AcquireInstall", plan \in Plans,
         e.type = "ExecuteItem" => e.index \in DOMAIN plan, NEW a \in Answers(e)
  PROVE  \E t \in Target :
           /\ Starts(a, t)
           /\ e.type = "Download" => t = e.key
           /\ e.type = "ExecuteItem" => t = plan[e.index]
           /\ e.type \notin {"Download", "ExecuteItem"} =>
                Len(a) = 1 /\ a[1].type \notin Talk
<1>1. CASE e.type = "Download"
  <2>1. e.key \in Dl /\ e.key \in Target
    BY <1>1 DEF Effects, Emissions, SetupEffects, FinishEffects, Target
  <2> QED
    BY <1>1, <2>1, DownloadStarts DEF Answers
<1>2. CASE e.type = "ExecuteItem"
  <2>1. plan[e.index] \in Target
    BY <1>2, PlansAssumption, ElementOfSeq, LenProperties DEF Target
  <2> QED
    BY <1>2, <2>1, ItemStarts DEF Answers
<1>3. CASE e.type \notin {"Download", "ExecuteItem"}
  <2>1. \E m : a = <<m>> /\ m.type \notin Talk
    BY <1>3 DEF Effects, Answers, SetupEffects, FinishEffects, Emissions, Talk, Event, Result,
       Applied
  <2>2. PlanKey \in Target
    BY DEF Target
  <2> QED
    BY <1>3, <2>1, <2>2, StartsEnd
<1> QED
  BY <1>1, <1>2, <1>3

(* What a task still says follows on something.                            *)
LEMMA ScriptOpened ==
  ASSUME Types, ItemInv, OpenedInv, NEW t \in tasks, NEW a, Script(t, a)
  PROVE  /\ Answer(t.effect, a)
         /\ \A k \in DOMAIN a :
              /\ RealTalk(a[k])
              /\ Follows(a[k]) =>
                   \/ state.status[a[k].target] # NoStatus
                   \/ \E m \in Queued : Opens(m, a[k].target)
                   \/ \E j \in DOMAIN a : j < k /\ Opens(a[j], a[k].target)
<1>1. /\ t \in Tasks /\ t.effect \in Effects /\ t.effect \in Running /\ plan \in Plans
  BY DEF Types, Tasks, Running
<1>2. CASE t.left # <<>>
  <2>1. a = t.left
    BY <1>2 DEF Script
  <2> QED
    BY <1>2, <2>1 DEF Types, OpenedInv
<1>3. CASE t.left = <<>>
  <2>1. a \in Answers(t.effect)
    BY <1>3 DEF Script
  <2>2. t.effect.type = "ExecuteItem" => t.effect.index \in DOMAIN plan
    BY <1>1 DEF ItemInv, Doing
  <2>3. Answer(t.effect, a)
    BY <1>1, <2>1, <2>2, AnswersShape
  <2>4. DOMAIN a = 1 .. Len(a) /\ Len(a) \in Nat \ {0}
    BY <2>3, LenProperties, EmptySeq DEF Answer
  <2>5. CASE t.effect.type = "AcquireInstall"
    <3>1. \A k \in DOMAIN a : RealTalk(a[k]) /\ ~Follows(a[k])
      BY <1>1, <2>1, <2>5, InstallStarts DEF Answers
    <3> QED
      BY <2>3, <3>1
  <2>6. CASE t.effect.type # "AcquireInstall"
    <3>1. PICK x \in Target : Starts(a, x)
      BY <1>1, <2>1, <2>2, <2>6, AnswersStart
    <3>2. ASSUME NEW k \in DOMAIN a, Follows(a[k])
          PROVE  \E j \in DOMAIN a : j < k /\ Opens(a[j], a[k].target)
      <4>1. Opens(a[1], x) /\ a[k].target = x
        BY <3>1, <3>2 DEF Starts, About, Follows, Talk
      <4>2. k # 1
        BY <3>2, <4>1 DEF Opens
      <4> QED
        BY <2>4, <4>1, <4>2
    <3> QED
      BY <2>3, <3>1, <3>2 DEF Starts, About
  <2> QED
    BY <2>5, <2>6
<1> QED
  BY <1>2, <1>3

(* One message more, that follows on something.                            *)
LEMMA OpenMore ==
  ASSUME Types, OpenedInv, NEW m \in Messages, queue' = Append(queue, m), state' = state,
         RealTalk(m),
         Follows(m) => \/ state.status[m.target] # NoStatus
                       \/ \E q \in Queued : Opens(q, m.target),
         \A u \in tasks' \ tasks : \A k \in DOMAIN u.left :
           /\ RealTalk(u.left[k])
           /\ Follows(u.left[k]) =>
                \/ state.status[u.left[k].target] # NoStatus
                \/ \E q \in Queued' : Opens(q, u.left[k].target)
                \/ \E j \in DOMAIN u.left : j < k /\ Opens(u.left[j], u.left[k].target)
  PROVE  OpenedInv'
<1>1. /\ queue' \in Seq(Messages) /\ Len(queue) \in Nat
      /\ DOMAIN queue = 1 .. Len(queue) /\ DOMAIN queue' = 1 .. (Len(queue) + 1)
      /\ \A i \in 1 .. Len(queue) : queue'[i] = queue[i]
      /\ queue'[Len(queue) + 1] = m
  BY AppendProperties, LenProperties DEF Types
<1>2. Queued \subseteq Queued'
  BY <1>1 DEF Queued
<1>3. ASSUME NEW i \in DOMAIN queue'
      PROVE  /\ RealTalk(queue'[i])
             /\ Follows(queue'[i]) =>
                  \/ state.status[queue'[i].target] # NoStatus
                  \/ \E j \in DOMAIN queue' : j < i /\ Opens(queue'[j], queue'[i].target)
  <2>1. CASE i \in DOMAIN queue
    <3>1. queue'[i] = queue[i] /\ DOMAIN queue \subseteq DOMAIN queue'
          /\ \A j \in DOMAIN queue : queue'[j] = queue[j]
      BY <1>1, <2>1
    <3> QED
      BY <2>1, <3>1 DEF OpenedInv
  <2>2. CASE i = Len(queue) + 1
    <3>1. queue'[i] = m
      BY <1>1, <2>2
    <3>2. ASSUME NEW t, \E q \in Queued : Opens(q, t)
          PROVE  \E j \in DOMAIN queue' : j < i /\ Opens(queue'[j], t)
      BY <1>1, <2>2, <3>2 DEF Queued
    <3> QED
      BY <3>1, <3>2
  <2> QED
    BY <1>1, <2>1, <2>2
<1>4. ASSUME NEW u \in tasks', NEW k \in DOMAIN u.left
      PROVE  /\ RealTalk(u.left[k])
             /\ Follows(u.left[k]) =>
                  \/ state.status[u.left[k].target] # NoStatus
                  \/ \E q \in Queued' : Opens(q, u.left[k].target)
                  \/ \E j \in DOMAIN u.left : j < k /\ Opens(u.left[j], u.left[k].target)
  <2>1. CASE u \in tasks
    BY <1>2, <2>1 DEF OpenedInv
  <2>2. CASE u \notin tasks
    BY <2>2
  <2> QED
    BY <2>1, <2>2
<1> QED
  BY <1>3, <1>4 DEF OpenedInv

(* A task says the next of what it has to say.                             *)
LEMMA TaskOpens ==
  ASSUME Types, ItemInv, OpenedInv, NEW t \in tasks, NEW a, Script(t, a), state' = state
  PROVE  OpenedInv'
<1>1. /\ Answer(t.effect, a)
      /\ \A k \in DOMAIN a :
           /\ RealTalk(a[k])
           /\ Follows(a[k]) =>
                \/ state.status[a[k].target] # NoStatus
                \/ \E m \in Queued : Opens(m, a[k].target)
                \/ \E j \in DOMAIN a : j < k /\ Opens(a[j], a[k].target)
  BY ScriptOpened
<1>2. /\ a \in Seq(Messages) /\ a # <<>> /\ Len(a) \in Nat \ {0} /\ DOMAIN a = 1 .. Len(a)
      /\ Head(a) = a[1] /\ Head(a) \in Messages
      /\ Tail(a) \in Seq(Messages) /\ Len(Tail(a)) = Len(a) - 1
      /\ \A i \in 1 .. Len(Tail(a)) : Tail(a)[i] = a[i + 1]
      /\ DOMAIN Tail(a) = 1 .. (Len(a) - 1)
  BY <1>1, EmptySeq, LenProperties, HeadTailProperties, ElementOfSeq DEF Answer
<1> DEFINE m == Head(a)
<1>3. /\ queue' = Append(queue, m)
      /\ \A u \in tasks' \ tasks : u.left = Tail(a)
  BY DEF Script, Types, Tasks
<1>4. RealTalk(m) /\ (Follows(m) => \/ state.status[m.target] # NoStatus
                                    \/ \E q \in Queued : Opens(q, m.target))
  <2>1. ~ \E j \in DOMAIN a : j < 1
    BY <1>2
  <2>2. 1 \in DOMAIN a
    BY <1>2
  <2> QED
    BY <1>1, <1>2, <2>1, <2>2
<1>5. Queued' = Queued \cup {m}
  BY <1>2, <1>3, QueueAppend DEF Types
<1>6. ASSUME NEW k \in DOMAIN Tail(a)
      PROVE  /\ RealTalk(Tail(a)[k])
             /\ Follows(Tail(a)[k]) =>
                  \/ state.status[Tail(a)[k].target] # NoStatus
                  \/ \E q \in Queued' : Opens(q, Tail(a)[k].target)
                  \/ \E j \in DOMAIN Tail(a) : j < k /\ Opens(Tail(a)[j], Tail(a)[k].target)
  <2>1. k + 1 \in DOMAIN a /\ Tail(a)[k] = a[k + 1]
    BY <1>2
  <2> DEFINE x == Tail(a)[k].target
  <2>2. ASSUME NEW j \in DOMAIN a, j < k + 1, Opens(a[j], x)
        PROVE  \/ \E q \in Queued' : Opens(q, x)
               \/ \E i \in DOMAIN Tail(a) : i < k /\ Opens(Tail(a)[i], x)
    <3>1. CASE j = 1
      BY <1>2, <1>5, <2>2, <3>1
    <3>2. CASE j # 1
      <4>1. j - 1 \in DOMAIN Tail(a) /\ Tail(a)[j - 1] = a[j] /\ j - 1 < k
        BY <1>2, <2>2, <3>2
      <4> QED
        BY <2>2, <4>1
    <3> QED
      BY <3>1, <3>2
  <2>3. RealTalk(Tail(a)[k])
    BY <1>1, <2>1
  <2>4. ASSUME Follows(Tail(a)[k])
        PROVE  \/ state.status[x] # NoStatus
               \/ \E q \in Queued' : Opens(q, x)
               \/ \E j \in DOMAIN Tail(a) : j < k /\ Opens(Tail(a)[j], x)
    <3>1. \/ state.status[x] # NoStatus
          \/ \E q \in Queued : Opens(q, x)
          \/ \E j \in DOMAIN a : j < k + 1 /\ Opens(a[j], x)
      BY <1>1, <2>1, <2>4
    <3> HIDE DEF x
    <3> QED
      BY <1>5, <2>2, <3>1
  <2> QED
    BY <2>3, <2>4
<1> HIDE DEF m
<1>7. \A u \in tasks' \ tasks : \A k \in DOMAIN u.left :
        /\ RealTalk(u.left[k])
        /\ Follows(u.left[k]) =>
             \/ state.status[u.left[k].target] # NoStatus
             \/ \E q \in Queued' : Opens(q, u.left[k].target)
             \/ \E j \in DOMAIN u.left : j < k /\ Opens(u.left[j], u.left[k].target)
  BY <1>3, <1>6
<1>8. m \in Messages
  BY <1>2 DEF m
<1> QED
  BY <1>3, <1>4, <1>7, <1>8, OpenMore

(* An emission ends with the answer of its target.                         *)
LEMMA EmissionSays ==
  ASSUME Types, TokenInv, NEW t \in tasks, t.effect.type \in Emissions, RunTask(t)
  PROVE  /\ \E m \in Messages :
              /\ m.type \in Acks /\ m.target = t.effect.target
              /\ m.type = "ProgressApplied" => m.ok
              /\ queue' = Append(queue, m)
         /\ tasks' = tasks \ {t}
         /\ sent' = [sent EXCEPT ![t.effect.target] = t.effect.status]
         /\ t.effect.target \in Target
<1>1. t.effect \in Effects /\ t.left = <<>>
  BY DEF Types, Tasks, TokenInv
<1>2. t.effect.target \in Target
  BY <1>1 DEF Effects, SetupEffects, FinishEffects, Emissions
<1>3. PICK a \in Answers(t.effect) :
        /\ queue' = Append(queue, Head(a))
        /\ tasks' = (tasks \ {t}) \cup
                      (IF Len(a) = 1 THEN {} ELSE {[t EXCEPT !.left = Tail(a)]})
  BY <1>1 DEF RunTask
<1>4. \E m \in Messages : /\ a = <<m>> /\ m.type \in Acks /\ m.target = t.effect.target
                          /\ m.type = "ProgressApplied" => m.ok
  <2>1. CASE t.effect.type = "EmitProgress"
    <3> DEFINE m == Applied(t.effect.target, TRUE)
    <3>1. a = <<m>>
      BY <1>3, <2>1 DEF Answers
    <3>2. /\ m \in Messages /\ m.type \in Acks /\ m.target = t.effect.target /\ m.ok
      BY <1>2 DEF Applied, Messages, Told, Acks
    <3> QED
      BY <3>1, <3>2
  <2>2. CASE t.effect.type = "ForwardStatus"
    <3> DEFINE m == [type |-> "StatusForwarded", target |-> t.effect.target]
    <3>1. a = <<m>>
      BY <1>3, <2>2 DEF Answers
    <3>2. /\ m \in Messages /\ m.type = "StatusForwarded" /\ m.target = t.effect.target
      BY <1>2 DEF Messages, Told
    <3> QED
      BY <3>1, <3>2 DEF Acks
  <2> QED
    BY <2>1, <2>2 DEF Emissions
<1>5. sent' = [sent EXCEPT ![t.effect.target] = t.effect.status]
  BY DEF RunTask, Emitting, Emissions
<1>6. PICK m \in Messages : /\ a = <<m>> /\ m.type \in Acks /\ m.target = t.effect.target
                            /\ m.type = "ProgressApplied" => m.ok
  BY <1>4
<1>7. Len(a) = 1 /\ Head(a) = m
  BY <1>6
<1> QED
  BY <1>2, <1>3, <1>5, <1>6, <1>7

(* An emission is answered, and its target stays busy until that is heard. *)
LEMMA TokenAnswered ==
  ASSUME Types, TokenInv, NEW t \in tasks, t.effect.type \in Emissions,
         NEW m \in Messages, m.type \in Acks, m.target = t.effect.target,
         queue' = Append(queue, m), tasks' = tasks \ {t}, state' = state
  PROVE  TokenInv'
<1>1. /\ queue' \in Seq(Messages) /\ Len(queue) \in Nat
      /\ DOMAIN queue = 1 .. Len(queue) /\ DOMAIN queue' = 1 .. (Len(queue) + 1)
      /\ \A i \in 1 .. Len(queue) : queue'[i] = queue[i]
      /\ queue'[Len(queue) + 1] = m
  BY AppendProperties, LenProperties DEF Types
<1>2. Answered(Acks)' = Answered(Acks) \cup {m}
  <2>1. Queued' = Queued \cup {m}
    BY QueueAppend DEF Types
  <2> QED
    BY <2>1 DEF Answered
<1>3. \A q \in Answered(Acks) : q.target # m.target
  BY DEF TokenInv
<1>4. ASSUME NEW i \in DOMAIN queue', NEW j \in DOMAIN queue',
             queue'[i].type \in Acks, queue'[j].type \in Acks,
             queue'[i].target = queue'[j].target
      PROVE  i = j
  <2>1. \A k \in DOMAIN queue : queue[k].type \in Acks => queue[k].target # m.target
    BY <1>3 DEF Answered, Queued
  <2>2. CASE i \in DOMAIN queue /\ j \in DOMAIN queue
    BY <1>1, <1>4, <2>2 DEF TokenInv
  <2>3. CASE i \in DOMAIN queue /\ j = Len(queue) + 1
    BY <1>1, <1>4, <2>1, <2>3
  <2>4. CASE i = Len(queue) + 1 /\ j \in DOMAIN queue
    BY <1>1, <1>4, <2>1, <2>4
  <2> QED
    BY <1>1, <2>2, <2>3, <2>4
<1>5. ASSUME NEW u \in tasks', u.effect.type \in Emissions
      PROVE  /\ u.left = <<>>
             /\ u.effect.target \in state.busy
             /\ u.effect.status = state.status[u.effect.target]
             /\ \A q \in Answered(Acks)' : q.target # u.effect.target
             /\ \A v \in tasks' : Emits(v.effect, u.effect.target) => v = u
  <2>1. u \in tasks /\ u # t
    BY <1>5
  <2>2. u.effect.target # m.target
    BY <1>5, <2>1 DEF TokenInv, Emits
  <2> QED
    BY <1>2, <1>5, <2>1, <2>2 DEF TokenInv
<1>6. \A q \in Answered(Acks)' : q.target \in state.busy
  BY <1>2 DEF TokenInv
<1> QED
  BY <1>4, <1>5, <1>6 DEF TokenInv

(* What other tasks say answers no emission.                               *)
LEMMA OtherSays ==
  ASSUME Types, ItemInv, NEW t \in tasks, t.effect.type \notin Emissions, RunTask(t)
  PROVE  /\ \E m \in Messages : m.type \notin Acks /\ queue' = Append(queue, m)
         /\ sent' = sent
         /\ \A u \in tasks' : u \in tasks \/ u.effect = t.effect
         /\ \A u \in tasks : u.effect.type \in Emissions => u \in tasks'
<1>1. PICK m \in Messages : /\ queue' = Append(queue, m)
                            /\ Continues(t, m) \/ Finishes(t, m)
  BY TaskStep
<1>2. t.effect \in Effects
  BY DEF Types, Tasks
<1>3. m.type \notin Acks
  <2>1. CASE Continues(t, m)
    BY <2>1 DEF Continues, Chatter, Acks
  <2>2. CASE Finishes(t, m)
    BY <1>2, <2>2 DEF Finishes, EndOf, Ends, Effects, SetupEffects, FinishEffects, Emissions, Acks
  <2> QED
    BY <1>1, <2>1, <2>2
<1>4. sent' = sent
  BY DEF RunTask, Emitting, Emissions
<1>5. /\ \A u \in tasks' : u \in tasks \/ u.effect = t.effect
      /\ \A u \in tasks : u.effect.type \in Emissions => u \in tasks'
  BY <1>1 DEF Continues, Finishes
<1> QED
  BY <1>1, <1>3, <1>4, <1>5

(* Every step of a task.                                                   *)
LEMMA TaskVoices ==
  ASSUME Types, Inv, TokenInv, OpenedInv, HeardInv, NEW t \in tasks, RunTask(t)
  PROVE  TokenInv' /\ OpenedInv' /\ HeardInv'
<1>1. state' = state /\ faults' = faults
  BY DEF RunTask
<1>2. OpenedInv'
  <2>1. \E a : Script(t, a)
    BY DEF RunTask, Script
  <2> QED
    BY <1>1, <2>1, TaskOpens DEF Inv
<1>3. CASE t.effect.type \in Emissions
  <2>1. PICK m \in Messages :
          /\ m.type \in Acks /\ m.target = t.effect.target
          /\ m.type = "ProgressApplied" => m.ok
          /\ queue' = Append(queue, m)
    BY <1>3, EmissionSays
  <2>2. /\ tasks' = tasks \ {t} /\ t.effect.target \in Target
        /\ sent' = [sent EXCEPT ![t.effect.target] = t.effect.status]
    BY <1>3, EmissionSays
  <2>3. TokenInv'
    BY <1>1, <1>3, <2>1, <2>2, TokenAnswered
  <2>4. Answered(Acks)' = Answered(Acks) \cup {m}
    <3>1. Queued' = Queued \cup {m}
      BY <2>1, QueueAppend DEF Types
    <3> QED
      BY <2>1, <3>1 DEF Answered
  <2>5. /\ \A q \in Answered(Acks) : q.target # m.target
        /\ t.effect.status = state.status[m.target] /\ m.target \in state.busy
    BY <1>3, <2>1 DEF TokenInv
  <2>6. sent' \in [Target -> Status] /\ sent'[m.target] = state.status[m.target]
        /\ \A x \in Target \ {m.target} : sent'[x] = sent[x]
    BY <2>1, <2>2, <2>5, TaskTypes DEF Types, Inv
  <2>7. ASSUME faults = 0
        PROVE  /\ \A q \in Answered(Acks)' :
                    /\ sent'[q.target] = state.status[q.target]
                    /\ q.type = "ProgressApplied" => q.ok
               /\ \A x \in state.busy :
                    \/ \E e \in Running' : Emits(e, x)
                    \/ \E q \in Answered(Acks)' : q.target = x
               /\ \A x \in Target \ state.busy : sent'[x] = state.status[x]
               /\ \A u \in tasks' : u.effect.type = "EmitProgress" =>
                    After(sent'[u.effect.target], u.effect.status)
    <3>1. /\ \A q \in Answered(Acks) :
               /\ sent[q.target] = state.status[q.target]
               /\ q.type = "ProgressApplied" => q.ok
          /\ \A x \in state.busy :
               (\E e \in Running : Emits(e, x)) \/ (\E q \in Answered(Acks) : q.target = x)
          /\ \A x \in Target \ state.busy : sent[x] = state.status[x]
          /\ \A u \in tasks : u.effect.type = "EmitProgress" =>
               After(sent[u.effect.target], u.effect.status)
      BY <2>7 DEF HeardInv
    <3>2. \A q \in Answered(Acks) : q.target \in Target
      BY DEF TokenInv, Types, CreateState
    <3>3. \A q \in Answered(Acks)' :
            /\ sent'[q.target] = state.status[q.target]
            /\ q.type = "ProgressApplied" => q.ok
      BY <2>1, <2>4, <2>5, <2>6, <3>1, <3>2
    <3>4. ASSUME NEW x \in state.busy
          PROVE  (\E e \in Running' : Emits(e, x)) \/ (\E q \in Answered(Acks)' : q.target = x)
      <4>1. CASE x = m.target
        BY <2>4, <4>1
      <4>2. CASE x # m.target
        <5>1. \A u \in tasks : Emits(u.effect, x) => u \in tasks'
          BY <2>1, <2>2, <4>2 DEF Emits
        <5>2. \A e \in Running : Emits(e, x) => e \in Running'
          BY <5>1 DEF Running
        <5> QED
          BY <2>4, <3>1, <5>2
      <4> QED
        BY <4>1, <4>2
    <3>5. ASSUME NEW u \in tasks', u.effect.type = "EmitProgress"
          PROVE  After(sent'[u.effect.target], u.effect.status)
      <4>1. u \in tasks /\ u # t /\ u.effect.type \in Emissions
        BY <2>2, <3>5 DEF Emissions
      <4>2. u.effect.target \in Target \ {m.target}
        BY <1>3, <2>1, <4>1 DEF TokenInv, Emits, Types, CreateState
      <4> QED
        BY <2>6, <3>1, <3>5, <4>1, <4>2
    <3> QED
      BY <2>5, <2>6, <3>1, <3>3, <3>4, <3>5
  <2>8. HeardInv'
    BY <1>1, <2>7 DEF HeardInv
  <2> QED
    BY <1>2, <2>3, <2>8
<1>4. CASE t.effect.type \notin Emissions
  <2>1. PICK m \in Messages : m.type \notin Acks /\ queue' = Append(queue, m)
    BY <1>4, OtherSays DEF Inv
  <2>2. /\ sent' = sent
        /\ \A u \in tasks' : u \in tasks \/ u.effect = t.effect
        /\ \A u \in tasks : u.effect.type \in Emissions => u \in tasks'
    BY <1>4, OtherSays DEF Inv
  <2>3. /\ queue' \in Seq(Messages) /\ Len(queue) \in Nat
        /\ DOMAIN queue = 1 .. Len(queue) /\ DOMAIN queue' = 1 .. (Len(queue) + 1)
        /\ \A i \in 1 .. Len(queue) : queue'[i] = queue[i]
        /\ queue'[Len(queue) + 1] = m
    BY <2>1, AppendProperties, LenProperties DEF Types
  <2>4. Answered(Acks)' = Answered(Acks)
    <3>1. Queued' = Queued \cup {m}
      BY <2>1, QueueAppend DEF Types
    <3> QED
      BY <2>1, <3>1 DEF Answered
  <2>5. \A i, j \in DOMAIN queue' :
          queue'[i].type \in Acks /\ queue'[j].type \in Acks
            /\ queue'[i].target = queue'[j].target => i = j
    <3> TAKE i, j \in DOMAIN queue'
    <3> HAVE queue'[i].type \in Acks /\ queue'[j].type \in Acks
             /\ queue'[i].target = queue'[j].target
    <3>1. i \in DOMAIN queue /\ j \in DOMAIN queue
      BY <2>1, <2>3
    <3>2. queue'[i] = queue[i] /\ queue'[j] = queue[j]
      BY <2>3, <3>1
    <3> QED
      BY <3>1, <3>2 DEF TokenInv
  <2>6. \A u \in tasks' : u.effect.type \in Emissions => u \in tasks
    BY <1>4, <2>2
  <2>7. TokenInv'
    <3>1. ASSUME NEW u \in tasks', u.effect.type \in Emissions
          PROVE  /\ u.left = <<>>
                 /\ u.effect.target \in state.busy
                 /\ u.effect.status = state.status[u.effect.target]
                 /\ \A q \in Answered(Acks)' : q.target # u.effect.target
                 /\ \A v \in tasks' : Emits(v.effect, u.effect.target) => v = u
      BY <2>4, <2>6, <3>1 DEF TokenInv, Emits
    <3> QED
      BY <1>1, <2>4, <2>5, <3>1 DEF TokenInv
  <2>8. \A e \in Running : e.type \in Emissions => e \in Running'
    BY <2>2 DEF Running
  <2>9. HeardInv'
    <3>1. \A u \in tasks' : u.effect.type = "EmitProgress" => u \in tasks
      BY <2>6 DEF Emissions
    <3> QED
      BY <1>1, <2>2, <2>4, <2>8, <3>1 DEF HeardInv, Emits
  <2> QED
    BY <1>2, <2>7, <2>9
<1> QED
  BY <1>3, <1>4

(* A status that cannot be written is answered too.                        *)
LEMMA FailEmissionVoices ==
  ASSUME Types, TokenInv, OpenedInv, NEW t \in tasks, FailEmission(t)
  PROVE  TokenInv' /\ OpenedInv' /\ faults' # 0
<1> DEFINE m == Applied(t.effect.target, FALSE)
<1>1. t.effect \in Effects /\ t.effect.type \in Emissions
  BY DEF Types, Tasks, FailEmission, Emissions
<1>2. /\ m \in Messages /\ m.type \in Acks /\ m.target = t.effect.target
      /\ RealTalk(m) /\ ~Follows(m)
  BY <1>1 DEF Applied, Messages, Told, Acks, Effects, Emissions, SetupEffects, FinishEffects,
     RealTalk, Follows
<1>3. /\ queue' = Append(queue, m) /\ tasks' = tasks \ {t} /\ state' = state
      /\ faults' = faults + 1
  BY DEF FailEmission, Fault
<1> HIDE DEF m
<1>4. TokenInv'
  BY <1>1, <1>2, <1>3, TokenAnswered
<1>5. OpenedInv'
  BY <1>2, <1>3, OpenMore
<1>6. faults' # 0
  BY <1>3, BoundsAssumption DEF Types
<1> QED
  BY <1>4, <1>5, <1>6

-----------------------------------------------------------------------------
(* What the caller is told of the plan.                                    *)

(* Only an install lock that was not waited for is there before anything   *)
(* was said of the plan; and nothing is said of it once the lock is there. *)
Waits(m) ==
  /\ m.type \notin {"RequestLockAcquired", "Prepared"}
  /\ m.type = "InstallAcquired" => m.waited
Unheard == PlanKey \notin state.busy /\ Answered(Talk) = {}
FreshInv ==
  faults = 0 /\ ~state.prepared =>
    /\ \A u \in tasks : u.effect.type \in SetupEffects =>
         /\ state.result = "none"
         /\ IF u.left = <<>> THEN Unheard ELSE Waits(u.left[Len(u.left)])
    /\ \A m \in Answered(SetupMessages) :
         state.result = "none" /\ (Unheard \/ Waits(m))
PlanTalk ==
  /\ state.prepared =>
       /\ \A m \in Answered(Talk) : m.target # PlanKey
       /\ \A u \in tasks : \A k \in DOMAIN u.left :
            u.left[k].type \in Talk => u.left[k].target # PlanKey
  /\ ~state.prepared =>
       \A i, j \in DOMAIN queue :
         i < j /\ queue[i].type \in SetupMessages => queue[j].type \notin Talk

(* The end of a call that holds the install lock and did not wait for it   *)
(* is among what its caller is told.                                       *)
Closing ==
  Doing({"Register"}) # {} \/ Answered({"Registered"}) # {} \/ state.result # "none"
Shown(s, closing) ==
  LET q == s.pending[PlanKey]
      st == s.status[PlanKey].st IN
  /\ s.status[PlanKey] # NoStatus
  /\ \A i \in DOMAIN q : q[i].what \in Terminal
  /\ closing => st \in Terminal \/ q # <<>>
  /\ s.result # "err" => st # "Failed" /\ \A i \in DOMAIN q : q[i].what # "Failed"
PlanInv ==
  state.prepared =>
    /\ state.publishing \/ ~world.published => state.status[PlanKey] # NoStatus
    /\ faults = 0 /\ ~state.waited => Shown(state, Closing)

(* All of it.                                                              *)
Tells == /\ TokenInv /\ OpenedInv /\ HeardInv /\ PlanTalk /\ FreshInv /\ PlanInv

(* An emission touches one target and no outcome.                          *)
LEMMA SameElse ==
  ASSUME NEW s \in CreateState, NEW t \in Target
  PROVE  LET r == PumpOr(Same, s, t) IN
         r.result = s.result /\ r.busy \subseteq s.busy \cup {t}
<1> DEFINE r == PumpOr(Same, s, t)
<1>1. \/ r = s
      \/ r = [s EXCEPT !.pending[t] = <<>>]
      \/ r = Rest(s, t)
      \/ r = Emitted(s, t)
  BY DEF PumpOr, Same, Rest, Emitted, Chosen, Live
<1>2. /\ [s EXCEPT !.pending[t] = <<>>].result = s.result
      /\ [s EXCEPT !.pending[t] = <<>>].busy = s.busy
  BY DEF CreateState
<1>3. Rest(s, t).result = s.result /\ Rest(s, t).busy = s.busy
  BY DEF CreateState, Rest
<1>4. Emitted(s, t).result = s.result /\ Emitted(s, t).busy = s.busy \cup {t}
  BY DEF CreateState, Rest, Emitted, Effect
<1> HIDE DEF r
<1>5. r.result = s.result /\ r.busy \subseteq s.busy \cup {t}
  BY <1>1, <1>2, <1>3, <1>4
<1> QED
  BY <1>5 DEF r

(* The same of an event that is put in its queue.                          *)
LEMMA EnqueueElse ==
  ASSUME NEW s \in CreateState, NEW t \in Target, NEW e \in Events, NEW r,
         r = PumpOr(Same, Appended(s, t, e), t)
  PROVE  r.result = s.result /\ r.busy \subseteq s.busy \cup {t}
<1> DEFINE a == Appended(s, t, e)
<1>1. a \in CreateState /\ a.result = s.result /\ a.busy = s.busy
  <2> DEFINE p == [s.pending EXCEPT ![t] = Append(@, e)]
  <2>1. p \in [Target -> Seq(Events)]
    BY DEF CreateState
  <2>2. a = [s EXCEPT !.pending = p]
    BY DEF Appended
  <2> HIDE DEF p, a
  <2> QED
    BY <2>1, <2>2 DEF CreateState
<1> HIDE DEF a
<1> QED
  BY <1>1, SameElse DEF a

(* Of the plan's target, a queue that is looked at.                        *)
LEMMA SpokenElse ==
  ASSUME NEW s \in CreateState, NEW t \in Target,
         Live(s, t) = {} \/ ~Unstarted(Chosen(s, t), s.status[t])
  PROVE  LET r == Spoken(s, t) IN
         /\ r.result = s.result /\ r.busy \subseteq s.busy \cup {t}
         /\ \A u \in Target \ {t} : r.pending[u] = s.pending[u] /\ r.status[u] = s.status[u]
<1>1. CASE Live(s, t) = {}
  BY <1>1 DEF Spoken, CreateState
<1>2. CASE Live(s, t) # {}
  <2>1. Spoken(s, t) = Emitted(s, t)
    BY <1>2 DEF Spoken
  <2>2. Emitted(s, t).result = s.result
    BY DEF CreateState, Rest, Emitted, Effect
  <2> QED
    BY <1>2, <2>1, <2>2, EmittedFields
<1> QED
  BY <1>1, <1>2

(* The end of the plan is told, or waits to be.                            *)
LEMMA ShownSaid ==
  ASSUME NEW s \in CreateState, NEW r \in CreateState, NEW e \in Events, NEW c,
         e.what \in Terminal, Shown(s, c), Said(s, PlanKey, e, r),
         r.result # "err" => s.result # "err" /\ e.what # "Failed"
  PROVE  Shown(r, TRUE)
<1> DEFINE q == s.pending[PlanKey]
           p == r.pending[PlanKey]
           old == s.status[PlanKey]
           new == r.status[PlanKey]
<1>0. PlanKey \in Target /\ q \in Seq(Events) /\ p \in Seq(Events)
      /\ old \in Status /\ new \in Status
  BY DEF CreateState, Target
<1>1. /\ old # NoStatus
      /\ \A i \in DOMAIN q : q[i].what \in Terminal
      /\ s.result # "err" => old.st # "Failed" /\ \A i \in DOMAIN q : q[i].what # "Failed"
  BY DEF Shown
<1>2. CASE p = Append(q, e) /\ new = old
  <2>1. /\ DOMAIN q = 1 .. Len(q) /\ Len(q) \in Nat
        /\ Len(p) = Len(q) + 1 /\ DOMAIN p = 1 .. Len(p)
        /\ \A i \in 1 .. Len(q) : p[i] = q[i]
        /\ p[Len(q) + 1] = e
    BY <1>0, <1>2, AppendProperties, LenProperties
  <2>2. p # <<>>
    BY <1>0, <2>1, EmptySeq
  <2> HIDE DEF p, q, new, old
  <2>3. ASSUME NEW i \in DOMAIN p PROVE p[i] = e \/ (i \in DOMAIN q /\ p[i] = q[i])
    <3>1. i \in 1 .. Len(q) \/ i = Len(q) + 1
      BY <2>1
    <3> QED
      BY <2>1, <3>1
  <2>4. \A i \in DOMAIN p : p[i].what \in Terminal
    BY <1>1, <2>3
  <2>5. r.result # "err" => new.st # "Failed" /\ \A i \in DOMAIN p : p[i].what # "Failed"
    BY <1>1, <1>2, <2>3
  <2> QED
    BY <1>1, <1>2, <2>2, <2>4, <2>5 DEF Shown, p, new
<1>3. CASE p = <<>> /\ new = IF Late(e, old) THEN old ELSE Reduced(e, old)
  <2>1. old \in [ty : {"InstallShared", "Download", "Unpack"},
                 st : {"Running"} \cup Terminal, tried : Nat]
    BY <1>0, <1>1 DEF Status
  <2>2. CASE Late(e, old)
    <3>1. new = old /\ old.st \in Terminal
      BY <1>3, <2>2 DEF Late
    <3> QED
      BY <1>1, <1>3, <3>1 DEF Shown
  <2>3. CASE ~Late(e, old)
    <3>1. new = [old EXCEPT !.st = e.what]
      BY <1>3, <2>3 DEF Reduced, Terminal
    <3>2. new.st = e.what /\ new.ty # "none"
      BY <2>1, <3>1
    <3>3. new # NoStatus
      BY <3>2 DEF NoStatus
    <3> QED
      BY <1>1, <1>3, <3>2, <3>3 DEF Shown
  <2> QED
    BY <2>2, <2>3
<1> QED
  BY <1>2, <1>3 DEF Said

(* So it is when the queue is looked at.                                   *)
LEMMA ShownSpoken ==
  ASSUME NEW s \in CreateState, NEW c, Shown(s, c),
         ~Unstarted(Chosen(s, PlanKey), s.status[PlanKey])
  PROVE  Shown(Spoken(s, PlanKey), c)
<1> DEFINE q == s.pending[PlanKey]
           old == s.status[PlanKey]
           r == Spoken(s, PlanKey)
           p == r.pending[PlanKey]
           new == r.status[PlanKey]
<1>0. PlanKey \in Target /\ q \in Seq(Events) /\ old \in Status
      /\ DOMAIN q = 1 .. Len(q) /\ Len(q) \in Nat
  BY LenProperties DEF CreateState, Target
<1>1. /\ old # NoStatus
      /\ \A i \in DOMAIN q : q[i].what \in Terminal
      /\ c => old.st \in Terminal \/ q # <<>>
      /\ s.result # "err" => old.st # "Failed" /\ \A i \in DOMAIN q : q[i].what # "Failed"
  BY DEF Shown
<1>2. r.result = s.result
  BY <1>0, SpokenElse
<1>3. CASE Live(s, PlanKey) = {}
  <2>1. p = <<>> /\ new = old
    BY <1>0, <1>3 DEF Spoken, CreateState
  <2>2. q # <<>> => old.st \in Terminal
    <3> HAVE q # <<>>
    <3>1. 1 \in DOMAIN q
      BY <1>0, EmptySeq
    <3> QED
      BY <1>3, <3>1 DEF Live, Late
  <2> HIDE DEF r, p, new, q, old
  <2> QED
    BY <1>1, <1>2, <2>1, <2>2 DEF Shown, r, p, new
<1>4. CASE Live(s, PlanKey) # {}
  <2> DEFINE e == Chosen(s, PlanKey)
  <2>1. r = Emitted(s, PlanKey)
    BY <1>4 DEF Spoken
  <2>2. PICK k \in DOMAIN q :
          /\ e = q[k]
          /\ p \in Seq(Events) /\ Len(p) = Len(q) - k
          /\ \A i \in 1 .. (Len(q) - k) : p[i] = q[k + i]
    <3> DEFINE x == Emitted(s, PlanKey).pending[PlanKey]
    <3>1. PICK k \in DOMAIN q :
            /\ e = q[k]
            /\ x \in Seq(Events) /\ Len(x) = Len(q) - k
            /\ \A i \in 1 .. (Len(q) - k) : x[i] = q[k + i]
      BY <1>0, <1>4, EmittedFields
    <3>2. p = x
      BY <2>1
    <3> HIDE DEF p, q, e, x, r
    <3> QED
      BY <3>1, <3>2
  <2>3. e \in Events /\ new = Reduced(e, old)
    BY <1>0, <1>4, <2>1, EmittedFields
  <2>4. \A i \in DOMAIN p : \E j \in DOMAIN q : p[i] = q[j]
    <3> TAKE i \in DOMAIN p
    <3> HIDE DEF r, p, q, e
    <3>1. DOMAIN p = 1 .. (Len(q) - k)
      BY <2>2, LenProperties
    <3>2. i \in 1 .. (Len(q) - k) /\ k + i \in DOMAIN q
      BY <1>0, <2>2, <3>1
    <3> QED
      BY <2>2, <3>2
  <2> HIDE DEF r, p, new, q, e, old
  <2>5. old \in [ty : {"InstallShared", "Download", "Unpack"},
                 st : {"Running"} \cup Terminal, tried : Nat]
    BY <1>0, <1>1 DEF Status
  <2>6. e.what \in Terminal /\ (s.result # "err" => e.what # "Failed")
    BY <1>1, <2>2
  <2>7. new.st = e.what /\ new.ty # "none"
    <3>1. new = [old EXCEPT !.st = e.what]
      BY <2>3, <2>6 DEF Reduced, Terminal
    <3> QED
      BY <2>5, <3>1
  <2>8. new # NoStatus
    BY <2>7 DEF NoStatus
  <2>9. \A i \in DOMAIN p : p[i].what \in Terminal /\ (s.result # "err" => p[i].what # "Failed")
    BY <1>1, <2>4
  <2> QED
    BY <1>2, <2>6, <2>7, <2>8, <2>9 DEF Shown, r, p, new
<1> QED
  BY <1>3, <1>4

(* What is left to be heard after an event, and the tasks that run then.   *)
LEMMA ReceiveLeaves ==
  ASSUME Types, Inv, NEW type, Receive(type), NEW n \in CreateState, Become(n, tasks)
  PROVE  /\ Queued' \subseteq Queued /\ faults' = faults /\ world' = world
         /\ \A i \in DOMAIN queue' : i + 1 \in DOMAIN queue /\ queue'[i] = queue[i + 1]
         /\ DOMAIN queue \subseteq Nat /\ DOMAIN queue' \subseteq Nat \ {0}
         /\ 1 \in DOMAIN queue /\ queue[1] = Head(queue)
         /\ \A u \in tasks' : u \in tasks \/ (u.left = <<>> /\ u.effect \in n.effects)
         /\ Running' = Running \cup n.effects
         /\ state'.prepared = n.prepared /\ state'.publishing = n.publishing
         /\ state'.result = n.result /\ state'.waited = n.waited
         /\ state'.busy = n.busy /\ state'.status = n.status /\ state'.pending = n.pending
<1>1. /\ Queued' \subseteq Queued /\ faults' = faults /\ queue' \in Seq(Messages)
  BY ReceiveFrame
<1>2. /\ \A i \in DOMAIN queue' : i + 1 \in DOMAIN queue /\ queue'[i] = queue[i + 1]
      /\ 1 \in DOMAIN queue /\ queue[1] = Head(queue)
  BY ReceiveTook DEF Took
<1>3. DOMAIN queue \subseteq Nat /\ DOMAIN queue' \subseteq Nat \ {0}
  BY <1>1, LenProperties DEF Types
<1>4. Begun(n, tasks)
  BY BecomeStarts
<1>5. /\ \A u \in tasks' : u \in tasks \/ (u.left = <<>> /\ u.effect \in n.effects)
      /\ state'.busy = n.busy /\ state'.status = n.status /\ state'.pending = n.pending
      /\ state'.waited = n.waited
  BY BecomeVoices
<1> QED
  BY <1>1, <1>2, <1>3, <1>4, <1>5 DEF Begun, Running

(* Nothing more is said of the plan.                                       *)
LEMMA TalkReceives ==
  ASSUME Types, Inv, TokenInv, PlanTalk, NEW type, Receive(type), NEW n \in CreateState,
         Become(n, tasks),
         n.prepared = state.prepared \/ (type = "InstallAcquired" /\ n.prepared)
  PROVE  PlanTalk'
<1>1. /\ Queued' \subseteq Queued /\ state'.prepared = n.prepared
      /\ \A u \in tasks' : u \in tasks \/ u.left = <<>>
  BY ReceiveLeaves
<1>2. /\ \A i \in DOMAIN queue' : i + 1 \in DOMAIN queue /\ queue'[i] = queue[i + 1]
      /\ DOMAIN queue \subseteq Nat /\ DOMAIN queue' \subseteq Nat \ {0}
      /\ 1 \in DOMAIN queue /\ queue[1].type = type
  BY ReceiveLeaves DEF Receive
<1>3. CASE n.prepared = state.prepared
  <2>1. Answered(Talk)' \subseteq Answered(Talk)
    BY <1>1 DEF Answered
  <2>2. \A i, j \in DOMAIN queue' : i < j => i + 1 < j + 1
    BY <1>2
  <2>3. ASSUME ~state.prepared, NEW i \in DOMAIN queue', NEW j \in DOMAIN queue', i < j,
               queue'[i].type \in SetupMessages
        PROVE  queue'[j].type \notin Talk
    <3>1. i + 1 \in DOMAIN queue /\ j + 1 \in DOMAIN queue /\ i + 1 < j + 1
      BY <1>2, <2>2, <2>3
    <3> QED
      BY <1>2, <2>3, <3>1 DEF PlanTalk
  <2>4. ASSUME state.prepared, NEW u \in tasks', NEW k \in DOMAIN u.left, u.left[k].type \in Talk
        PROVE  u.left[k].target # PlanKey
    BY <1>1, <2>4 DEF PlanTalk
  <2>5. state.prepared => \A m \in Answered(Talk)' : m.target # PlanKey
    BY <2>1 DEF PlanTalk
  <2> QED
    BY <1>1, <1>3, <2>3, <2>4, <2>5 DEF PlanTalk
<1>4. CASE type = "InstallAcquired" /\ n.prepared
  <2>1. ~state.prepared /\ \A e \in Running : e.type \in Emissions
    BY <1>4, SettingUp DEF SetupMessages
  <2>2. \A u \in tasks' : u.left = <<>>
    BY <1>1, <2>1 DEF TokenInv, Running
  <2>3. \A i \in DOMAIN queue' : queue'[i].type \notin Talk
    <3> TAKE i \in DOMAIN queue'
    <3>1. 1 < i + 1 /\ i + 1 \in DOMAIN queue /\ queue'[i] = queue[i + 1]
      BY <1>2
    <3>2. queue[1].type \in SetupMessages
      BY <1>2, <1>4 DEF SetupMessages
    <3> QED
      BY <1>2, <2>1, <3>1, <3>2 DEF PlanTalk
  <2>4. Answered(Talk)' = {}
    BY <2>3 DEF Answered, Queued
  <2> QED
    BY <1>1, <1>4, <2>2, <2>4 DEF PlanTalk
<1> QED
  BY <1>3, <1>4

(* Before the install lock is there, an emission that ended or progress    *)
(* that is heard leaves what was said of the plan as it was.               *)
LEMMA FreshReceives ==
  ASSUME Types, Inv, FreshInv, NEW type, Receive(type), NEW n \in CreateState,
         Become(n, tasks), n.prepared = state.prepared,
         \A x \in n.effects : x.type \notin SetupEffects,
         faults = 0 /\ ~state.prepared =>
           /\ n.result = state.result
           /\ PlanKey \in n.busy => PlanKey \in state.busy \/ type \in Talk
  PROVE  FreshInv'
<1> SUFFICES ASSUME faults = 0, ~state.prepared PROVE FreshInv'
  BY ReceiveLeaves DEF FreshInv
<1>1. /\ Queued' \subseteq Queued /\ state'.prepared = n.prepared /\ state'.result = n.result
      /\ \A u \in tasks' : u \in tasks \/ u.effect \in n.effects
      /\ state'.busy = n.busy
  BY ReceiveLeaves
<1>2. Head(queue) \in Queued /\ Head(queue).type = type
  BY ReceiveFrame
<1>3. Unheard => Unheard'
  <2> HAVE Unheard
  <2>1. type \notin Talk
    BY <1>2 DEF Unheard, Answered
  <2> QED
    BY <1>1, <2>1 DEF Unheard, Answered
<1>4. Answered(SetupMessages)' \subseteq Answered(SetupMessages)
  BY <1>1 DEF Answered
<1>5. \A u \in tasks' : u.effect.type \in SetupEffects => u \in tasks
  BY <1>1
<1>6. state'.result = state.result
  BY <1>1
<1>7. /\ \A u \in tasks' : u.effect.type \in SetupEffects =>
           /\ state'.result = "none"
           /\ IF u.left = <<>> THEN Unheard' ELSE Waits(u.left[Len(u.left)])
      /\ \A m \in Answered(SetupMessages)' :
           state'.result = "none" /\ (Unheard' \/ Waits(m))
  BY <1>3, <1>4, <1>5, <1>6 DEF FreshInv
<1> QED
  BY <1>7 DEF FreshInv

(* A step of the setup that is over.                                       *)
LEMMA FreshSetup ==
  ASSUME Types, Inv, FreshInv, NEW type \in SetupMessages, type # "InstallAcquired",
         Receive(type), NEW n \in CreateState, Become(n, tasks), n.prepared = state.prepared,
         \/ \A x \in n.effects : x.type \notin SetupEffects
         \/ /\ type \in {"RequestLockAcquired", "Prepared"}
            /\ n.busy = state.busy /\ n.result = state.result
  PROVE  FreshInv'
<1> SUFFICES ASSUME faults = 0, ~state.prepared PROVE FreshInv'
  BY ReceiveLeaves DEF FreshInv
<1>1. /\ Queued' \subseteq Queued /\ state'.prepared = n.prepared /\ state'.result = n.result
      /\ \A u \in tasks' : u \in tasks \/ (u.left = <<>> /\ u.effect \in n.effects)
      /\ state'.busy = n.busy
  BY ReceiveLeaves
<1>2. /\ Head(queue) \in Queued /\ Head(queue).type = type
      /\ Doing(SetupEffects) = {} /\ Answered(SetupMessages)' = {}
  BY ReceiveFrame
<1>3. \A u \in tasks : u.effect.type \notin SetupEffects
  BY <1>2 DEF Doing, Running
<1>4. CASE \A x \in n.effects : x.type \notin SetupEffects
  BY <1>1, <1>2, <1>3, <1>4 DEF FreshInv
<1>5. CASE /\ type \in {"RequestLockAcquired", "Prepared"}
           /\ n.busy = state.busy /\ n.result = state.result
  <2>1. Head(queue) \in Answered(SetupMessages) /\ ~Waits(Head(queue))
    BY <1>2, <1>5 DEF Answered, Waits
  <2>2. Unheard /\ state.result = "none"
    BY <2>1 DEF FreshInv
  <2>3. Unheard'
    BY <1>1, <1>5, <2>2 DEF Unheard, Answered
  <2> QED
    BY <1>1, <1>2, <1>3, <1>5, <2>2, <2>3 DEF FreshInv
<1> QED
  BY <1>4, <1>5

(* Once the install lock is there, the end of the plan is still told.      *)
LEMMA PlanReceives ==
  ASSUME Types, Inv, PlanInv, NEW type, Receive(type), NEW n \in CreateState,
         Become(n, tasks), n.prepared = state.prepared, n.waited = state.waited,
         NEW b, Voiced(b, n, {}),
         state.prepared /\ n.publishing => state.publishing \/ ~world.published,
         NEW c,
         state.prepared /\ faults = 0 /\ ~state.waited => Shown(n, c),
         \/ c = TRUE
         \/ /\ c = Closing /\ n.result = state.result
            /\ \A x \in n.effects : x.type # "Register"
  PROVE  PlanInv'
<1> SUFFICES ASSUME state.prepared PROVE PlanInv'
  BY ReceiveLeaves DEF PlanInv
<1>1. /\ Queued' \subseteq Queued /\ faults' = faults /\ world' = world
      /\ Running' = Running \cup n.effects
      /\ state'.prepared = n.prepared /\ state'.publishing = n.publishing
      /\ state'.result = n.result /\ state'.waited = n.waited
      /\ state'.status = n.status /\ state'.pending = n.pending
  BY ReceiveLeaves
<1>2. PlanKey \in Target
  BY DEF Target
<1>3. state'.publishing \/ ~world'.published => state'.status[PlanKey] # NoStatus
  BY <1>1, <1>2 DEF PlanInv, Voiced
<1>4. Closing' => c
  BY <1>1 DEF Closing, Doing, Answered
<1>5. faults' = 0 /\ ~state'.waited => Shown(state', Closing')
  BY <1>1, <1>4 DEF Shown
<1> QED
  BY <1>3, <1>5 DEF PlanInv

-----------------------------------------------------------------------------
(* Each event of the reducer.                                              *)

(* What a failure or progress starts is no setup and no registration.      *)
LEMMA EmissionTypes ==
  ASSUME NEW s, s.effects = {}, NEW r, Kept(s, r)
  PROVE  \A x \in r.effects :
           x.type \in Emissions /\ x.type \notin SetupEffects /\ x.type # "Register"
<1>1. \A x \in r.effects : x.type \in Emissions
  BY DEF Kept
<1> QED
  BY <1>1 DEF Emissions, SetupEffects

(* A step of the setup is over.                                            *)
LEMMA SetupTell ==
  ASSUME Types, Inv, Tells, NEW type \in SetupMessages, type # "InstallAcquired",
         Receive(type), NEW n \in CreateState, Become(n, tasks), n.prepared = state.prepared,
         Voiced(state.busy, n, {}),
         \/ \A x \in n.effects : x.type \notin SetupEffects
         \/ /\ type \in {"RequestLockAcquired", "Prepared"}
            /\ n.busy = state.busy /\ n.result = state.result
  PROVE  Tells'
<1>1. type \notin Acks /\ type \notin Talk /\ state.busy \ {} = state.busy
  BY DEF SetupMessages, Acks, Talk
<1>2. TokenInv' /\ OpenedInv' /\ HeardInv'
  <2>1. \A t \in Target : ~Opens(Head(queue), t)
    BY <1>1 DEF Opens, Receive
  <2> QED
    BY <1>1, <2>1, ReceiveVoices DEF Tells
<1>3. ~state.prepared
  BY ReceiveFrame DEF Inv, SetupInv, Answered
<1>4. PlanInv'
  BY <1>3, ReceiveLeaves DEF PlanInv
<1> QED
  BY <1>2, <1>4, TalkReceives, FreshSetup DEF Tells

(* The locks, the request, and those that are not to be had.               *)
LEMMA SetupTells ==
  ASSUME Types, Inv, Tells, RequestLockAcquired \/ Prepared \/ EffectFailed
  PROVE  Tells'
<1>1. /\ state \in CreateState /\ state.effects = {} /\ Voiced(state.busy, state, {})
  BY VoicedStart DEF Types, Tells
<1>2. ASSUME NEW type \in {"RequestLockAcquired", "Prepared"}, Receive(type),
             NEW next \in SetupEffects, Become(Effect(state, [type |-> next]), tasks)
      PROVE  Tells'
  <2> DEFINE x == [type |-> next]
             n == Effect(state, x)
  <2>1. x \in Effects /\ x.type \notin Emissions
    BY DEF Effects, SetupEffects, Emissions
  <2> HIDE DEF x
  <2>2. Voiced(state.busy, n, {}) /\ n.busy = state.busy
    BY <1>1, <2>1, EffectVoiced
  <2>3. n \in CreateState /\ n.prepared = state.prepared /\ n.result = state.result
    BY <1>1, <2>1, EffectFields
  <2>4. Become(n, tasks)
    BY <1>2 DEF x
  <2> HIDE DEF n
  <2>5. type \in SetupMessages /\ type # "InstallAcquired"
    BY DEF SetupMessages
  <2> QED
    BY <1>2, <2>2, <2>3, <2>4, <2>5, SetupTell
<1>3. ASSUME NEW type \in {"Prepared", "EffectFailed"}, Receive(type),
             Become(FailCreate(state), tasks)
      PROVE  Tells'
  <2> DEFINE n == FailCreate(state)
  <2>1. Kept(state, n)
    BY <1>1, FailKept
  <2>2. Voiced(state.busy, n, {})
    BY <1>1, FailVoiced
  <2>3. Become(n, tasks)
    BY <1>3
  <2> HIDE DEF n
  <2>4. /\ n \in CreateState /\ n.prepared = state.prepared
        /\ \A x \in n.effects : x.type \notin SetupEffects
    BY <1>1, <2>1, EmissionTypes DEF Kept
  <2>5. type \in SetupMessages /\ type # "InstallAcquired"
    BY DEF SetupMessages
  <2> QED
    BY <1>3, <2>2, <2>3, <2>4, <2>5, SetupTell
<1> QED
  BY <1>2, <1>3 DEF RequestLockAcquired, Prepared, EffectFailed, SetupEffects

(* The install lock is there: the plan is started or found, unless another *)
(* holder of the lock has been followed.                                   *)
LEMMA InstallTells ==
  ASSUME Types, Inv, Tells, InstallAcquired
  PROVE  Tells'
<1> DEFINE m == Head(queue)
           held == [state EXCEPT !.prepared = TRUE, !.waited = m.waited]
           building == [held EXCEPT !.wanted = Keys]
           reuse == [type |-> "Register"]
<1>1. Receive("InstallAcquired") /\ Voiced(state.busy, state, {})
  BY VoicedStart DEF InstallAcquired, Tells
<1>2. m \in Queued /\ m \in Messages /\ m.type = "InstallAcquired"
  BY <1>1, ReceiveFrame
<1>3. /\ ~state.prepared /\ world.published = m.cached /\ ~state.publishing
      /\ \A e \in Running : e.type \in Emissions
      /\ \A q \in Queued' : q.type \in Side
  BY <1>1, SettingUp DEF SetupMessages
<1>4. m.cached \in BOOLEAN /\ m.waited \in BOOLEAN /\ Keys \subseteq Dl /\ PlanKey \in Target
  BY <1>2, PlansAssumption, ElementOfSeq DEF Messages, Chatter, Told, Keys, Types, Target
<1>5. faults = 0 => /\ state.result = "none"
                    /\ ~m.waited => PlanKey \notin state.busy /\ state.pending[PlanKey] = <<>>
  <2> HAVE faults = 0
  <2>1. state.result = "none" /\ (Unheard \/ Waits(m))
    BY <1>2, <1>3 DEF Tells, FreshInv, Answered, SetupMessages
  <2> QED
    BY <1>2, <1>4, <2>1 DEF Waits, Unheard, Tells, TokenInv
<1>6. /\ held \in CreateState /\ held.prepared /\ held.waited = m.waited
      /\ held.publishing = state.publishing /\ held.result = state.result
      /\ held.effects = {} /\ held.status = state.status /\ held.busy = state.busy
      /\ held.pending = state.pending
  BY <1>4 DEF Types, CreateState
<1>7. /\ building \in CreateState /\ building.prepared /\ building.waited = m.waited
      /\ building.publishing = state.publishing /\ building.result = state.result
      /\ building.effects = {} /\ building.status = state.status
      /\ building.busy = state.busy /\ building.pending = state.pending
  <2> HIDE DEF held
  <2> QED
    BY <1>4, <1>6 DEF CreateState
<1> HIDE DEF m, held, building
<1>8. ASSUME NEW n \in CreateState, Become(n, tasks), Voiced(state.busy, n, {}),
             n.prepared, n.publishing = state.publishing, n.waited = m.waited,
             ~world.published => n.status[PlanKey] # NoStatus,
             NEW c, Closing' => c, faults = 0 /\ ~m.waited => Shown(n, c)
      PROVE  Tells'
  <2>1. /\ state'.prepared = n.prepared /\ state'.publishing = n.publishing
        /\ state'.result = n.result /\ state'.waited = n.waited
        /\ state'.status = n.status /\ state'.pending = n.pending
        /\ faults' = faults /\ world' = world
    BY <1>1, <1>8, ReceiveLeaves
  <2>2. "InstallAcquired" \notin Acks /\ "InstallAcquired" \notin Talk
        /\ state.busy \ {} = state.busy
    BY DEF Acks, Talk
  <2>3. TokenInv' /\ OpenedInv' /\ HeardInv'
    <3>1. \A t \in Target : ~Opens(Head(queue), t)
      BY <1>2, <2>2 DEF Opens, m
    <3> QED
      BY <1>1, <1>8, <2>2, <3>1, ReceiveVoices DEF Tells
  <2>4. PlanTalk'
    BY <1>1, <1>8, TalkReceives DEF Tells
  <2>5. FreshInv'
    BY <1>8, <2>1 DEF FreshInv
  <2>6. PlanInv'
    <3>1. faults' = 0 /\ ~state'.waited => Shown(state', Closing')
      BY <1>8, <2>1 DEF Shown
    <3> QED
      BY <1>3, <1>8, <2>1, <3>1 DEF PlanInv
  <2> QED
    BY <2>3, <2>4, <2>5, <2>6 DEF Tells
<1>9. ASSUME NEW h \in {held, building}, NEW ev \in {"Cached", "AttemptStarted"}, NEW e,
             e = [what |-> ev, ty |-> "InstallShared"]
      PROVE  LET s == Enqueue(h, PlanKey, e) IN
             /\ Kept(h, s) /\ Voiced(state.busy, s, {}) /\ s.status[PlanKey] # NoStatus
             /\ s.result = state.result /\ s.prepared /\ s.waited = m.waited
             /\ s.publishing = state.publishing
             /\ faults = 0 /\ ~m.waited =>
                  /\ s.pending[PlanKey] = <<>>
                  /\ s.status[PlanKey].st = IF ev = "Cached" THEN "Completed" ELSE "Running"
  <2> DEFINE s == Enqueue(h, PlanKey, e)
  <2>1. e \in Events /\ Real(e) /\ e.what = ev /\ e.ty = "InstallShared"
    BY <1>9 DEF Events, Kinds, Real
  <2>2. ~Unstarted(e, h.status[PlanKey]) /\ ~Late(e, h.status[PlanKey])
    BY <2>1 DEF Unstarted, Late, Terminal
  <2>3. Voiced(state.busy, h, {}) /\ h \in CreateState
    <3>1. h.effects = {} /\ state.effects = {} /\ h.status = state.status
          /\ h.busy = state.busy /\ h.pending = state.pending
      BY <1>6, <1>7 DEF Types
    <3> QED
      BY <1>1, <1>6, <1>7, <3>1, VoicedSame
  <2>4. /\ s = PumpOr(Same, Appended(h, PlanKey, e), PlanKey)
        /\ Kept(h, s) /\ Voiced(state.busy, s, {}) /\ Said(h, PlanKey, e, s)
        /\ s.status[PlanKey] # NoStatus
    BY <1>4, <2>1, <2>2, <2>3, EnqueueVoiced
  <2>5. s.result = h.result
    BY <1>4, <2>1, <2>3, <2>4, EnqueueElse
  <2> HIDE DEF s
  <2>6. s.prepared /\ s.waited = m.waited /\ s.publishing = state.publishing
        /\ s.result = state.result
    BY <1>6, <1>7, <2>4, <2>5 DEF Kept
  <2>7. faults = 0 /\ ~m.waited =>
          /\ s.pending[PlanKey] = <<>>
          /\ s.status[PlanKey] = Reduced(e, h.status[PlanKey])
    <3>1. h.busy = state.busy
      BY <1>6, <1>7
    <3> QED
      BY <1>5, <2>2, <2>4, <3>1 DEF Said
  <2>8. Reduced(e, h.status[PlanKey]).st = IF ev = "Cached" THEN "Completed" ELSE "Running"
    BY <2>1 DEF Reduced
  <2> QED
    BY <2>4, <2>6, <2>7, <2>8 DEF s
<1>10. CASE m.cached /\ m.waited
  <2> DEFINE n == Effect(held, reuse)
  <2>1. reuse \in Effects /\ reuse.type \notin Emissions
    BY DEF Effects, FinishEffects, Emissions
  <2> HIDE DEF reuse
  <2>2. Voiced(state.busy, held, {})
    BY <1>1, <1>6, VoicedSame DEF Types
  <2>3. Voiced(state.busy, n, {}) /\ n.waited = m.waited
    BY <1>6, <2>1, <2>2, EffectVoiced
  <2>4. n \in CreateState /\ n.prepared /\ n.publishing = state.publishing
    BY <1>6, <2>1, EffectFields
  <2>5. Become(n, tasks)
    BY <1>4, <1>10 DEF InstallAcquired, held, m, reuse
  <2> HIDE DEF n
  <2> QED
    BY <1>3, <1>8, <1>10, <2>3, <2>4, <2>5
<1>11. CASE m.cached /\ ~m.waited
  <2> DEFINE e == Cached("InstallShared")
             s == Enqueue(held, PlanKey, e)
             n == Effect(s, reuse)
  <2>1. reuse \in Effects /\ reuse.type \notin Emissions
    BY DEF Effects, FinishEffects, Emissions
  <2>2. e = [what |-> "Cached", ty |-> "InstallShared"]
    BY DEF Cached
  <2>3. Become(n, tasks)
    BY <1>4, <1>11 DEF InstallAcquired, held, m, reuse
  <2> HIDE DEF reuse, e
  <2>4. /\ Kept(held, s) /\ Voiced(state.busy, s, {}) /\ s.status[PlanKey] # NoStatus
        /\ s.result = state.result /\ s.prepared /\ s.waited = m.waited
        /\ s.publishing = state.publishing
        /\ faults = 0 =>
             s.pending[PlanKey] = <<>> /\ s.status[PlanKey].st = "Completed"
    BY <1>9, <1>11, <2>2
  <2> HIDE DEF s
  <2>5. s \in CreateState
    BY <2>4 DEF Kept
  <2>6. /\ Voiced(state.busy, n, {}) /\ n.waited = m.waited
        /\ n.status = s.status /\ n.pending = s.pending
    BY <2>1, <2>4, <2>5, EffectVoiced
  <2>7. /\ n \in CreateState /\ n.prepared /\ n.publishing = state.publishing
        /\ n.result = state.result
    BY <2>1, <2>4, <2>5, EffectFields
  <2> HIDE DEF n
  <2>8. faults = 0 => Shown(n, TRUE)
    BY <1>5, <2>4, <2>6, <2>7 DEF Shown, Terminal
  <2> QED
    BY <1>3, <1>8, <1>11, <2>3, <2>6, <2>7, <2>8
<1>12. CASE ~m.cached
  <2> DEFINE e == Started("InstallShared")
             s == Enqueue(building, PlanKey, e)
             x == [type |-> "PrepareInstall"]
             n == [s EXCEPT !.effects = @ \cup Fetches \cup {x}]
  <2>1. e = [what |-> "AttemptStarted", ty |-> "InstallShared"]
    BY DEF Started
  <2>2. Become(n, tasks)
    BY <1>4, <1>12 DEF InstallAcquired, building, held, m, Fetches
  <2>3. /\ x \in Effects /\ x.type = "PrepareInstall"
        /\ \A f \in Fetches : f \in Effects /\ f.type = "Download"
    BY <1>4 DEF Effects, Fetches
  <2> HIDE DEF e, x
  <2>4. /\ Kept(building, s) /\ Voiced(state.busy, s, {}) /\ s.status[PlanKey] # NoStatus
        /\ s.result = state.result /\ s.prepared /\ s.waited = m.waited
        /\ s.publishing = state.publishing
        /\ faults = 0 /\ ~m.waited =>
             s.pending[PlanKey] = <<>> /\ s.status[PlanKey].st = "Running"
    BY <1>9, <2>1
  <2> HIDE DEF s
  <2>5. s \in CreateState /\ \A f \in s.effects : f.type \in Emissions
    BY <1>7, <2>4 DEF Kept
  <2>6. /\ n \in CreateState /\ n.prepared /\ n.publishing = state.publishing
        /\ n.result = state.result /\ n.waited = m.waited
        /\ n.status = s.status /\ n.pending = s.pending /\ n.busy = s.busy
        /\ n.effects = s.effects \cup Fetches \cup {x}
    <3>1. Fetches \subseteq Effects
      BY <2>3
    <3> QED
      BY <2>3, <2>4, <2>5, <3>1 DEF CreateState
  <2> HIDE DEF n
  <2>7. Voiced(state.busy, n, {})
    <3>1. \A f \in n.effects \ s.effects : f.type \notin Emissions
      BY <2>3, <2>6 DEF Emissions
    <3> QED
      BY <2>4, <2>6, <3>1, VoicedSame
  <2>8. faults = 0 /\ ~m.waited => ~Closing'
    <3>1. \A f \in Running' : f.type # "Register"
      <4>1. Running' = Running \cup n.effects
        BY <1>1, <2>2, <2>6, ReceiveLeaves
      <4> QED
        BY <1>3, <2>3, <2>5, <2>6, <4>1 DEF Emissions
    <3>2. \A q \in Queued' : q.type # "Registered"
      BY <1>3 DEF Side
    <3>3. state'.result = state.result
      BY <1>1, <2>2, <2>6, ReceiveLeaves
    <3> QED
      BY <1>5, <3>1, <3>2, <3>3 DEF Closing, Doing, Answered
  <2>9. faults = 0 /\ ~m.waited => Shown(n, FALSE)
    BY <1>5, <2>4, <2>6 DEF Shown
  <2>10. faults = 0 /\ ~m.waited => Shown(n, Closing')
    BY <2>8, <2>9 DEF Shown
  <2>11. n.status[PlanKey] # NoStatus
    BY <2>4, <2>6
  <2> QED
    BY <1>8, <2>2, <2>6, <2>7, <2>10, <2>11
<1> QED
  BY <1>4, <1>10, <1>11, <1>12

(* What happens once the install lock is there, besides progress.          *)
LEMMA PreparedTell ==
  ASSUME Types, Inv, Tells, NEW type, type \notin Acks, type \notin Talk,
         type \notin SetupMessages, Receive(type), state.prepared,
         NEW n \in CreateState, Become(n, tasks), n.prepared, n.waited = state.waited,
         Voiced(state.busy, n, {}),
         n.publishing => state.publishing \/ ~world.published,
         NEW c, faults = 0 /\ ~state.waited => Shown(n, c),
         \/ c = TRUE
         \/ /\ c = Closing /\ n.result = state.result
            /\ \A x \in n.effects : x.type # "Register"
  PROVE  Tells'
<1>1. state.busy \ {} = state.busy /\ n.prepared = state.prepared
  BY DEF CreateState, Types
<1>2. TokenInv' /\ OpenedInv' /\ HeardInv'
  <2>1. \A t \in Target : ~Opens(Head(queue), t)
    BY DEF Opens, Receive
  <2> QED
    BY <1>1, <2>1, ReceiveVoices DEF Tells
<1>3. PlanTalk'
  BY <1>1, TalkReceives DEF Tells
<1>4. FreshInv'
  <2>1. state'.prepared = n.prepared
    BY ReceiveLeaves
  <2> QED
    BY <2>1 DEF FreshInv
<1>5. PlanInv'
  BY <1>1, PlanReceives DEF Tells
<1> QED
  BY <1>2, <1>3, <1>4, <1>5 DEF Tells

(* The reducer notes something else than progress.                         *)
Aside(r) ==
  /\ r \in CreateState /\ r.effects = {}
  /\ r.prepared = state.prepared /\ r.publishing = state.publishing
  /\ r.waited = state.waited /\ r.result = state.result
  /\ r.status = state.status /\ r.busy = state.busy /\ r.pending = state.pending

(* It leaves what was shown of the plan.                                   *)
LEMMA AsideShown ==
  ASSUME Types, Tells, NEW r, Aside(r)
  PROVE  /\ Voiced(state.busy, r, {})
         /\ state.prepared /\ faults = 0 /\ ~state.waited => Shown(r, Closing)
<1>1. Voiced(state.busy, state, {}) /\ state.effects = {}
  BY VoicedStart DEF Types, Tells
<1>2. Voiced(state.busy, r, {})
  BY <1>1, VoicedSame DEF Aside
<1>3. state.prepared /\ faults = 0 /\ ~state.waited => Shown(r, Closing)
  BY DEF Aside, Tells, PlanInv, Shown
<1> QED
  BY <1>2, <1>3

(* A failure once the install lock is there is told of (fail_create).      *)
LEMMA FailTell ==
  ASSUME Types, Inv, Tells, NEW type, type \notin Acks, type \notin Talk,
         type \notin SetupMessages, Receive(type), state.prepared,
         state.publishing \/ ~world.published,
         NEW r, Aside(r), Become(FailCreate(r), tasks)
  PROVE  Tells'
<1> DEFINE n == FailCreate(r)
<1>1. /\ r \in CreateState /\ r.effects = {} /\ r.prepared /\ r.result = state.result
      /\ r.publishing = state.publishing /\ r.waited = state.waited
      /\ r.status = state.status /\ r.pending = state.pending
  BY DEF Aside
<1>2. Voiced(state.busy, r, {}) /\ (faults = 0 /\ ~state.waited => Shown(r, Closing))
  BY AsideShown
<1>3. state.status[PlanKey] # NoStatus
  BY DEF Tells, PlanInv
<1>4. Kept(r, n) /\ n.result # "none"
  BY <1>1, FailKept
<1>5. /\ Voiced(state.busy, n, {})
      /\ r.result # "none" => n = r
      /\ r.result = "none" => Said(r, PlanKey, Failed, n)
  BY <1>1, <1>2, <1>3, FailVoiced
<1>6. Become(n, tasks)
  OBVIOUS
<1> HIDE DEF n
<1>7. /\ n \in CreateState /\ n.prepared /\ n.waited = state.waited
      /\ n.publishing = state.publishing
      /\ n.result = r.result \/ (r.result = "none" /\ n.result = "err")
  BY <1>1, <1>4 DEF Kept
<1>8. ASSUME faults = 0, ~state.waited PROVE Shown(n, TRUE)
  <2>1. CASE r.result # "none"
    <3>1. Closing
      BY <1>1, <2>1 DEF Closing
    <3> QED
      BY <1>2, <1>5, <1>8, <2>1, <3>1 DEF Shown
  <2>2. CASE r.result = "none"
    <3>1. Failed \in Events /\ Failed.what \in Terminal
      BY DEF Failed, Events, Terminal
    <3>2. n.result = "err"
      BY <1>4, <1>7, <2>2
    <3> QED
      BY <1>1, <1>2, <1>5, <1>7, <1>8, <2>2, <3>1, <3>2, ShownSaid
  <2> QED
    BY <2>1, <2>2
<1> QED
  BY <1>5, <1>6, <1>7, <1>8, PreparedTell

(* What is ready is started (advance_items).                               *)
LEMMA AdvanceTell ==
  ASSUME Types, Inv, Tells, NEW type, type \notin Acks, type \notin Talk,
         type \notin SetupMessages, Receive(type), state.prepared,
         state.publishing \/ ~world.published,
         NEW r, Aside(r), NEW n \in {r, Advance(r)}, Become(n, tasks)
  PROVE  Tells'
<1>1. /\ r \in CreateState /\ r.effects = {} /\ r.prepared /\ r.result = state.result
      /\ r.waited = state.waited /\ r.status = state.status /\ r.pending = state.pending
  BY DEF Aside
<1>2. Voiced(state.busy, r, {}) /\ (faults = 0 /\ ~state.waited => Shown(r, Closing))
  BY AsideShown
<1>3. /\ n \in CreateState /\ n.prepared /\ n.result = state.result
      /\ n.waited = state.waited /\ n.status = state.status /\ n.pending = state.pending
      /\ Voiced(state.busy, n, {})
  BY <1>1, <1>2, AdvanceType, AdvanceVoiced
<1>4. \A x \in n.effects : x.type # "Register"
  <2>1. CASE n = r
    BY <1>1, <2>1
  <2>2. CASE Publishes(r, n)
    <3> DEFINE p == [r EXCEPT !.publishing = TRUE]
    <3>1. p.effects = {}
      BY <1>1 DEF CreateState
    <3> HIDE DEF p
    <3>2. n = Effect(p, [type |-> "PublishInstall"])
      BY <2>2 DEF Publishes, p
    <3>3. n.effects \subseteq {[type |-> "PublishInstall"]}
      BY <1>3, <3>1, <3>2 DEF Effect, CreateState
    <3> QED
      BY <3>3
  <2>3. CASE Executes(r, n)
    <3> DEFINE p == [r EXCEPT !.itemRunning = TRUE]
    <3>1. p.effects = {} /\ p \in CreateState
      BY <1>1 DEF CreateState
    <3> HIDE DEF p
    <3>2. n = Effect(p, [type |-> "ExecuteItem", index |-> r.next])
      BY <2>3 DEF Executes, p
    <3>3. n.effects = {[type |-> "ExecuteItem", index |-> r.next]}
      BY <3>1, <3>2 DEF Effect, CreateState
    <3> QED
      BY <3>3
  <2> QED
    BY <2>1, <2>2, <2>3, AdvanceCases
<1>5. faults = 0 /\ ~state.waited => Shown(n, Closing)
  BY <1>1, <1>2, <1>3 DEF Shown
<1> QED
  BY <1>3, <1>4, <1>5, PreparedTell

(* The root, a download, an item.                                          *)
LEMMA BuildTells ==
  ASSUME Types, Inv, Tells, InstallPrepared \/ DownloadFinished \/ ItemFinished
  PROVE  Tells'
<1>0. state \in CreateState /\ Aside(state)
  BY DEF Types, Aside
<1>1. ASSUME NEW type \in BuildMessages, Receive(type), NEW r, Aside(r),
             NEW n \in {r, Advance(r), FailCreate(r)}, Become(n, tasks)
      PROVE  Tells'
  <2>1. state.prepared /\ (state.publishing \/ ~world.published)
    BY <1>1, BuildHeard
  <2>2. type \notin Acks /\ type \notin Talk /\ type \notin SetupMessages
    BY DEF BuildMessages, Acks, Talk, SetupMessages
  <2> QED
    BY <1>1, <2>1, <2>2, AdvanceTell, FailTell
<1>2. CASE InstallPrepared
  <2> DEFINE r == [state EXCEPT !.temporary = TRUE]
  <2>1. Aside(r)
    BY <1>0 DEF CreateState, Aside
  <2>2. Receive("InstallPrepared") /\ "InstallPrepared" \in BuildMessages
    BY <1>2 DEF InstallPrepared, BuildMessages
  <2>3. \/ Become(FailCreate(state), tasks)
        \/ Become(Advance(r), tasks)
        \/ Become(state, tasks)
    BY <1>2 DEF InstallPrepared, Staged
  <2> HIDE DEF r
  <2> QED
    BY <1>0, <1>1, <2>1, <2>2, <2>3
<1>3. CASE DownloadFinished
  <2> DEFINE d == Head(queue).key
             left == [state EXCEPT !.wanted = @ \ {d}]
             done == [left EXCEPT !.completed = @ \cup {d}]
             lost == [left EXCEPT !.downloadFailed = TRUE]
  <2>1. Receive("DownloadFinished") /\ "DownloadFinished" \in BuildMessages
    BY <1>3 DEF DownloadFinished, BuildMessages
  <2>2. d \in Dl
    BY <2>1, ReceiveFrame DEF Messages, Chatter, Told
  <2>3. \/ Become(FailCreate(lost), tasks)
        \/ Become(Advance(done), tasks)
        \/ Become(state, tasks)
    BY <1>3 DEF DownloadFinished
  <2> HIDE DEF d
  <2>4. Aside(left)
    BY <1>0 DEF CreateState, Aside
  <2>5. Aside(done) /\ Aside(lost)
    <3> HIDE DEF left
    <3> QED
      BY <2>2, <2>4 DEF CreateState, Aside
  <2> HIDE DEF done, lost
  <2> QED
    BY <1>0, <1>1, <2>1, <2>3, <2>5
<1>4. CASE ItemFinished
  <2> DEFINE idle == [state EXCEPT !.itemRunning = FALSE]
             after == [idle EXCEPT !.next = @ + 1]
  <2>1. Receive("ItemFinished") /\ "ItemFinished" \in BuildMessages
    BY <1>4 DEF ItemFinished, BuildMessages
  <2>2. \/ Become(FailCreate(idle), tasks)
        \/ Become(Advance(after), tasks)
        \/ Become(state, tasks)
    BY <1>4 DEF ItemFinished
  <2>3. Aside(idle)
    BY <1>0 DEF CreateState, Aside
  <2>4. Aside(after)
    <3> HIDE DEF idle
    <3> DEFINE following == idle.next + 1
    <3>1. following \in Nat
      BY <2>3 DEF CreateState, Aside
    <3>2. after = [idle EXCEPT !.next = following]
      OBVIOUS
    <3> HIDE DEF following, after
    <3> QED
      BY <2>3, <3>1, <3>2 DEF CreateState, Aside
  <2> HIDE DEF idle, after
  <2> QED
    BY <1>0, <1>1, <2>1, <2>2, <2>3, <2>4
<1> QED
  BY <1>2, <1>3, <1>4

(* The publication.                                                        *)
LEMMA PublishedTells ==
  ASSUME Types, Inv, Tells, Published
  PROVE  Tells'
<1> DEFINE s == Enqueue(state, PlanKey, Completed)
           x == [type |-> "Register"]
           n == Effect(s, x)
<1>0. state \in CreateState /\ state.effects = {} /\ Aside(state) /\ PlanKey \in Target
  BY DEF Types, Aside, Target
<1>1. Receive("Published") /\ Head(queue) \in Queued /\ Head(queue).type = "Published"
  BY ReceiveFrame DEF Published
<1>2. state.publishing /\ state.prepared /\ state.status[PlanKey] # NoStatus
  BY <1>1 DEF Inv, FinishInv, Tells, PlanInv
<1>3. "Published" \notin Acks /\ "Published" \notin Talk /\ "Published" \notin SetupMessages
  BY DEF Acks, Talk, SetupMessages
<1>4. CASE ~Head(queue).ok
  BY <1>0, <1>1, <1>2, <1>3, <1>4, FailTell DEF Published
<1>5. CASE Head(queue).ok
  <2>1. Become(n, tasks)
    BY <1>5 DEF Published
  <2>2. Completed \in Events /\ Real(Completed) /\ Completed.what = "Completed"
    BY DEF Completed, Events, Real
  <2>3. x \in Effects /\ x.type \notin Emissions
    BY DEF Effects, FinishEffects, Emissions
  <2>4. Voiced(state.busy, state, {})
         /\ (faults = 0 /\ ~state.waited => Shown(state, Closing))
    BY <1>0, <1>2, AsideShown
  <2>5. /\ s = PumpOr(Same, Appended(state, PlanKey, Completed), PlanKey)
        /\ Kept(state, s) /\ Voiced(state.busy, s, {}) /\ Said(state, PlanKey, Completed, s)
    BY <1>0, <1>2, <2>2, <2>4, BegunStarted, EnqueueVoiced
  <2>6. s.result = state.result
    BY <1>0, <2>2, <2>5, EnqueueElse
  <2> HIDE DEF s, x
  <2>7. s \in CreateState /\ s.prepared = state.prepared /\ s.waited = state.waited
    BY <2>5 DEF Kept
  <2>8. /\ Voiced(state.busy, n, {}) /\ n.waited = s.waited
        /\ n.status = s.status /\ n.pending = s.pending
    BY <2>3, <2>5, <2>7, EffectVoiced
  <2>9. n \in CreateState /\ n.prepared = s.prepared /\ n.result = s.result
    BY <2>3, <2>7, EffectFields
  <2>10. faults = 0 /\ ~state.waited => Shown(s, TRUE)
    <3> HAVE faults = 0 /\ ~state.waited
    <3>1. Completed.what \in Terminal /\ Completed.what # "Failed"
      BY <2>2 DEF Terminal
    <3> QED
      BY <1>0, <2>2, <2>4, <2>5, <2>6, <2>7, <3>1, ShownSaid
  <2> HIDE DEF n
  <2>11. faults = 0 /\ ~state.waited => Shown(n, TRUE)
    BY <2>8, <2>9, <2>10 DEF Shown
  <2>12. n.prepared /\ n.waited = state.waited
    BY <1>2, <2>7, <2>8, <2>9
  <2> QED
    BY <1>1, <1>2, <1>3, <2>1, <2>8, <2>9, <2>11, <2>12, PreparedTell
<1> QED
  BY <1>4, <1>5

(* The registration is the outcome of a call that has not failed.          *)
LEMMA RegisteredTells ==
  ASSUME Types, Inv, Tells, Registered
  PROVE  Tells'
<1> DEFINE n == [state EXCEPT !.result =
                   IF @ = "none" THEN (IF Head(queue).ok THEN "ok" ELSE "err") ELSE @]
<1>0. state \in CreateState /\ state.effects = {} /\ Aside(state)
  BY DEF Types, Aside
<1>1. Receive("Registered") /\ Head(queue) \in Queued /\ Head(queue).type = "Registered"
  BY ReceiveFrame DEF Registered
<1>2. state.prepared /\ Closing
  <2>1. Closing
    BY <1>1 DEF Closing, Answered
  <2>2. state.prepared
    BY <1>1 DEF Inv, SetupInv, Only, SetupMessages, Side
  <2> QED
    BY <2>1, <2>2
<1>3. "Registered" \notin Acks /\ "Registered" \notin Talk /\ "Registered" \notin SetupMessages
  BY DEF Acks, Talk, SetupMessages
<1>4. Become(n, tasks)
  BY DEF Registered
<1>5. /\ n \in CreateState /\ n.effects = {} /\ n.prepared = state.prepared
      /\ n.waited = state.waited /\ n.publishing = state.publishing
      /\ n.status = state.status /\ n.busy = state.busy /\ n.pending = state.pending
      /\ n.result # "err" => state.result # "err"
  BY <1>0 DEF CreateState
<1> HIDE DEF n
<1>6. /\ Voiced(state.busy, state, {})
      /\ faults = 0 /\ ~state.waited => Shown(state, Closing)
  BY <1>0, <1>2, AsideShown
<1>7. Voiced(state.busy, n, {})
  BY <1>0, <1>5, <1>6, VoicedSame
<1>8. faults = 0 /\ ~state.waited => Shown(n, TRUE)
  BY <1>2, <1>5, <1>6 DEF Shown
<1>9. n.publishing => state.publishing \/ ~world.published
  BY <1>5
<1> QED
  BY <1>1, <1>2, <1>3, <1>4, <1>5, <1>7, <1>8, <1>9, PreparedTell

(* Progress of a target, of its own or of another holder.                  *)
LEMMA HearTell ==
  ASSUME Types, Inv, Tells, NEW type \in Talk, Receive(type),
         NEW t \in Target, t = Head(queue).target, NEW e \in Events, Real(e),
         ~Unstarted(e, state.status[t]), Become(Enqueue(state, t, e), tasks)
  PROVE  Tells'
<1> DEFINE n == Enqueue(state, t, e)
<1>0. state \in CreateState /\ state.effects = {} /\ Voiced(state.busy, state, {})
  BY VoicedStart DEF Types, Tells
<1>1. /\ n = PumpOr(Same, Appended(state, t, e), t)
      /\ Kept(state, n) /\ Voiced(state.busy, n, {}) /\ n.status[t] # NoStatus
      /\ \A u \in Target \ {t} : n.pending[u] = state.pending[u] /\ n.status[u] = state.status[u]
  BY <1>0, EnqueueVoiced
<1>2. n.result = state.result
  BY <1>0, <1>1, EnqueueElse
<1>3. Become(n, tasks)
  OBVIOUS
<1> HIDE DEF n
<1>4. /\ n \in CreateState /\ n.prepared = state.prepared /\ n.waited = state.waited
      /\ n.publishing = state.publishing
      /\ \A x \in n.effects : x.type \notin SetupEffects /\ x.type # "Register"
  BY <1>0, <1>1, EmissionTypes DEF Kept
<1>5. type \notin Acks /\ type # "InstallAcquired" /\ state.busy \ {} = state.busy
  BY DEF Talk, Acks
<1>6. TokenInv' /\ OpenedInv' /\ HeardInv'
  <2>1. \A u \in Target : Opens(Head(queue), u) => n.status[u] # NoStatus
    BY <1>1 DEF Opens
  <2> QED
    BY <1>1, <1>3, <1>4, <1>5, <2>1, ReceiveVoices DEF Tells
<1>7. PlanTalk'
  BY <1>3, <1>4, TalkReceives DEF Tells
<1>8. FreshInv'
  BY <1>2, <1>3, <1>4, FreshReceives DEF Tells
<1>9. state.prepared => t # PlanKey
  <2>1. Head(queue) \in Answered(Talk)
    BY ReceiveFrame DEF Answered
  <2> QED
    BY <2>1 DEF Tells, PlanTalk
<1>10. state.prepared /\ faults = 0 /\ ~state.waited => Shown(n, Closing)
  <2> HAVE state.prepared /\ faults = 0 /\ ~state.waited
  <2>1. Shown(state, Closing)
    BY DEF Tells, PlanInv
  <2>2. n.pending[PlanKey] = state.pending[PlanKey] /\ n.status[PlanKey] = state.status[PlanKey]
    BY <1>1, <1>9 DEF Target
  <2> QED
    BY <1>2, <2>1, <2>2 DEF Shown
<1>11. PlanInv'
  BY <1>1, <1>2, <1>3, <1>4, <1>10, PlanReceives DEF Tells
<1> QED
  BY <1>6, <1>7, <1>8, <1>11 DEF Tells

(* Progress follows on an attempt that has been reduced.                   *)
LEMMA HearTells ==
  ASSUME Types, Inv, Tells, ProgressEvent \/ ObservedStatus
  PROVE  Tells'
<1> DEFINE m == Head(queue)
<1>1. ASSUME NEW type \in Talk, Receive(type)
      PROVE  /\ m \in Messages /\ m.type = type /\ type \in Side /\ RealTalk(m)
             /\ Follows(m) => state.status[m.target] # NoStatus
  <2>1. /\ m \in Messages /\ m.type = type /\ 1 \in DOMAIN queue /\ queue[1] = m
    BY <1>1, ReceiveTook
  <2>2. ~ \E j \in DOMAIN queue : j < 1
    BY LenProperties DEF Types
  <2> QED
    BY <2>1, <2>2 DEF Tells, OpenedInv, Talk, Side
<1>2. CASE ProgressEvent
  <2>1. Receive("Progress") /\ Become(Enqueue(state, m.target, m.event), tasks)
    BY <1>2 DEF ProgressEvent
  <2>2. /\ m \in Messages /\ m.type = "Progress" /\ "Progress" \in Side /\ "Progress" \in Talk
        /\ RealTalk(m) /\ (Follows(m) => state.status[m.target] # NoStatus)
    BY <1>1, <2>1 DEF Talk
  <2>3. m.target \in Target /\ m.event \in Events /\ Real(m.event)
    BY <2>2, SideTypes DEF RealTalk, Real
  <2>4. ~Unstarted(m.event, state.status[m.target])
    BY <2>2 DEF Follows, Unstarted
  <2> HIDE DEF m
  <2> QED
    BY <2>1, <2>2, <2>3, <2>4, HearTell DEF m
<1>3. CASE ObservedStatus
  <2>1. Receive("ObservedStatus") /\ Become(Enqueue(state, m.target, Observed(m.status)), tasks)
    BY <1>3 DEF ObservedStatus
  <2>2. /\ m \in Messages /\ m.type = "ObservedStatus" /\ "ObservedStatus" \in Side
        /\ "ObservedStatus" \in Talk /\ RealTalk(m)
    BY <1>1, <2>1 DEF Talk
  <2> DEFINE e == Observed(m.status)
  <2>3. m.target \in Target /\ e \in Events /\ Real(e)
    BY <2>2, SideTypes DEF RealTalk, Real, Observed
  <2>4. ~Unstarted(e, state.status[m.target])
    BY DEF Unstarted, Observed, Terminal
  <2>5. Become(Enqueue(state, m.target, e), tasks)
    BY <2>1
  <2> HIDE DEF m, e
  <2> QED
    BY <2>1, <2>2, <2>3, <2>4, <2>5, HearTell DEF m
<1> QED
  BY <1>2, <1>3

(* An emission is answered: the next of its target follows.                *)
LEMMA AckTell ==
  ASSUME Types, Inv, Tells, NEW type \in Acks, Receive(type),
         NEW idle, idle = [state EXCEPT !.busy = @ \ {Head(queue).target}],
         NEW s \in {idle, FailCreate(idle)}, faults = 0 => s = idle,
         Become(Pump(s, Head(queue).target), tasks)
  PROVE  Tells'
<1> DEFINE t == Head(queue).target
           b == state.busy \ {t}
           n == Pump(s, t)
<1>0. state \in CreateState /\ state.effects = {}
  BY DEF Types
<1>1. Head(queue) \in Queued /\ Head(queue) \in Messages /\ Head(queue).type = type
  BY ReceiveFrame
<1>2. t \in state.busy /\ t \in Target /\ state.status[t] # NoStatus
  <2>1. Head(queue) \in Answered(Acks) /\ type \in Side
    BY <1>1 DEF Answered, Acks, Side
  <2>2. t \in state.busy /\ t \in Target
    BY <1>1, <2>1, SideTypes DEF Tells, TokenInv
  <2> QED
    BY <2>2 DEF Tells, TokenInv
<1>3. Become(n, tasks)
  OBVIOUS
<1> HIDE DEF t
<1>4. /\ idle \in CreateState /\ Kept(state, idle) /\ idle.busy = b /\ idle.effects = {}
      /\ idle.status = state.status /\ idle.pending = state.pending
      /\ idle.result = state.result
  <2>1. idle = [state EXCEPT !.busy = @ \ {t}]
    BY DEF t
  <2>2. Kept(state, idle)
    BY <1>0, <2>1, IdleKept
  <2> QED
    BY <1>0, <2>1, <2>2 DEF CreateState, Kept
<1>5. Voiced(b, idle, {t})
  <2>1. \A u \in Target :
          /\ u \in state.busy => state.status[u] # NoStatus
          /\ u \notin state.busy => state.pending[u] = <<>>
          /\ Numbered(state.status[u])
          /\ \A i \in DOMAIN state.pending[u] : Real(state.pending[u][i])
    BY DEF Tells, TokenInv
  <2> QED
    BY <1>4, <2>1 DEF Voiced
<1>6. Kept(state, s) /\ s \in CreateState /\ Voiced(b, s, {t})
  <2>1. \A u \in {t} : idle.status[u] # NoStatus
    BY <1>2, <1>4
  <2>2. Voiced(b, FailCreate(idle), {t}) /\ Kept(idle, FailCreate(idle))
    BY <1>4, <1>5, <2>1, FailVoiced, FailKept
  <2>3. Kept(state, FailCreate(idle))
    BY <1>4, <2>2, KeptTrans
  <2> QED
    BY <1>4, <1>5, <2>2, <2>3, ZenonT(40) DEF Kept
<1>7. s.status[t] # NoStatus
  BY <1>2, <1>6 DEF Voiced
<1>8. Voiced(b, n, {}) /\ (t \notin s.busy => n = Spoken(s, t)) /\ Kept(s, n)
  BY <1>2, <1>6, <1>7, PumpVoiced, PumpKept
<1>9. Kept(state, n)
  BY <1>6, <1>8, KeptTrans
<1>10. faults = 0 =>
         /\ n = Spoken(idle, t) /\ n.result = state.result
         /\ n.busy \subseteq state.busy
         /\ \A u \in Target \ {t} :
              n.pending[u] = state.pending[u] /\ n.status[u] = state.status[u]
  <2> HAVE faults = 0
  <2>1. s = idle /\ t \notin idle.busy
    BY <1>4
  <2>2. n = Spoken(idle, t)
    BY <1>8, <2>1
  <2>3. ~Unstarted(Chosen(idle, t), idle.status[t])
    BY <1>2, <1>4, BegunStarted
  <2> HIDE DEF n
  <2>4. /\ n.result = idle.result /\ n.busy \subseteq idle.busy \cup {t}
        /\ \A u \in Target \ {t} : n.pending[u] = idle.pending[u] /\ n.status[u] = idle.status[u]
    BY <1>2, <1>4, <2>2, <2>3, SpokenElse, ZenonT(40)
  <2> QED
    BY <1>2, <1>4, <2>2, <2>4
<1> HIDE DEF n
<1>11. /\ n \in CreateState /\ n.prepared = state.prepared /\ n.waited = state.waited
       /\ n.publishing = state.publishing
       /\ \A x \in n.effects : x.type \notin SetupEffects /\ x.type # "Register"
  BY <1>0, <1>9, EmissionTypes DEF Kept
<1>12. type \notin Talk /\ type # "InstallAcquired"
  BY DEF Talk, Acks
<1>13. TokenInv' /\ OpenedInv' /\ HeardInv'
  <2>1. \A u \in Target : ~Opens(Head(queue), u)
    BY <1>1, <1>12 DEF Opens
  <2>2. Voiced(state.busy \ (IF type \in Acks THEN {Head(queue).target} ELSE {}), n, {})
    BY <1>8 DEF t
  <2> QED
    BY <1>3, <1>11, <2>1, <2>2, ReceiveVoices DEF Tells
<1>14. PlanTalk'
  BY <1>3, <1>11, <1>12, TalkReceives DEF Tells
<1>15. FreshInv'
  BY <1>3, <1>10, <1>11, FreshReceives DEF Tells
<1>16. state.prepared /\ faults = 0 /\ ~state.waited => Shown(n, Closing)
  <2> HAVE state.prepared /\ faults = 0 /\ ~state.waited
  <2>1. Shown(state, Closing)
    BY DEF Tells, PlanInv
  <2>2. Shown(idle, Closing)
    BY <1>4, <2>1 DEF Shown
  <2>3. CASE t = PlanKey
    <3>1. ~Unstarted(Chosen(idle, PlanKey), idle.status[PlanKey])
      BY <1>2, <1>4, <2>3, BegunStarted
    <3> QED
      BY <1>4, <1>10, <2>2, <2>3, <3>1, ShownSpoken
  <2>4. CASE t # PlanKey
    <3>1. n.pending[PlanKey] = state.pending[PlanKey] /\ n.status[PlanKey] = state.status[PlanKey]
      BY <1>10, <2>4 DEF Target
    <3> QED
      BY <1>10, <2>1, <3>1 DEF Shown
  <2> QED
    BY <2>3, <2>4
<1>17. PlanInv'
  <2>1. CASE faults = 0
    BY <1>3, <1>8, <1>10, <1>11, <1>16, <2>1, PlanReceives DEF Tells
  <2>2. CASE faults # 0
    <3>1. state.prepared /\ faults = 0 /\ ~state.waited => Shown(n, TRUE)
      BY <2>2
    <3> QED
      BY <1>3, <1>8, <1>11, <3>1, PlanReceives DEF Tells
  <2> QED
    BY <2>1, <2>2
<1> QED
  BY <1>13, <1>14, <1>15, <1>17 DEF Tells

(* Written or not, forwarded or written.                                   *)
LEMMA AckTells ==
  ASSUME Types, Inv, Tells, ProgressApplied \/ StatusForwarded
  PROVE  Tells'
<1> DEFINE t == Head(queue).target
           idle == [state EXCEPT !.busy = @ \ {t}]
<1>1. CASE ProgressApplied
  <2> DEFINE s == IF Head(queue).ok THEN idle ELSE FailCreate(idle)
  <2>1. Receive("ProgressApplied") /\ Become(Pump(s, t), tasks) /\ "ProgressApplied" \in Acks
    BY <1>1 DEF ProgressApplied, Acks
  <2>2. faults = 0 => s = idle
    <3>1. Head(queue) \in Answered(Acks) /\ Head(queue).type = "ProgressApplied"
      BY <2>1, ReceiveFrame DEF Answered
    <3> QED
      BY <3>1 DEF Tells, HeardInv
  <2>3. s \in {idle, FailCreate(idle)}
    OBVIOUS
  <2> HIDE DEF s
  <2> QED
    BY <2>1, <2>2, <2>3, AckTell
<1>2. CASE StatusForwarded
  <2>1. Receive("StatusForwarded") /\ Become(Pump(idle, t), tasks) /\ "StatusForwarded" \in Acks
    BY <1>2 DEF StatusForwarded, Acks
  <2>2. idle \in {idle, FailCreate(idle)}
    OBVIOUS
  <2> QED
    BY <2>1, <2>2, AckTell
<1> QED
  BY <1>1, <1>2

(* Whatever is heard.                                                      *)
LEMMA DispatchTells ==
  ASSUME Types, Inv, Tells, Dispatch
  PROVE  Tells'
BY SetupTells, InstallTells, BuildTells, PublishedTells, RegisteredTells, HearTells, AckTells
   DEF Dispatch

-----------------------------------------------------------------------------
(* Each step of a task, of the plan.                                       *)

(* The next of what a task has to say, and what it has to say then.        *)
LEMMA ScriptNext ==
  ASSUME Types, ItemInv, OpenedInv, NEW t \in tasks, NEW a, Script(t, a)
  PROVE  /\ Answer(t.effect, a) /\ a \in Seq(Messages) /\ Len(a) \in Nat \ {0}
         /\ DOMAIN a = 1 .. Len(a) /\ Head(a) = a[1] /\ Head(a) \in Messages
         /\ queue' = Append(queue, a[1]) /\ Queued' = Queued \cup {a[1]}
         /\ DOMAIN queue = 1 .. Len(queue) /\ DOMAIN queue' = 1 .. (Len(queue) + 1)
         /\ Len(queue) \in Nat /\ queue'[Len(queue) + 1] = a[1]
         /\ \A i \in 1 .. Len(queue) : queue'[i] = queue[i]
         /\ Len(a) = 1 => tasks' = tasks \ {t}
         /\ Len(a) # 1 =>
              \E u \in Tasks :
                /\ tasks' = (tasks \ {t}) \cup {u} /\ u.effect = t.effect
                /\ u.left = Tail(a) /\ u.left # <<>>
                /\ Len(u.left) = Len(a) - 1 /\ DOMAIN u.left = 1 .. (Len(a) - 1)
                /\ \A k \in DOMAIN u.left : k + 1 \in DOMAIN a /\ u.left[k] = a[k + 1]
<1>1. Answer(t.effect, a)
  BY ScriptOpened
<1>2. /\ a \in Seq(Messages) /\ a # <<>> /\ Len(a) \in Nat \ {0} /\ DOMAIN a = 1 .. Len(a)
      /\ Head(a) = a[1] /\ Head(a) \in Messages
      /\ Tail(a) \in Seq(Messages) /\ Len(Tail(a)) = Len(a) - 1
      /\ \A i \in 1 .. Len(Tail(a)) : Tail(a)[i] = a[i + 1]
      /\ DOMAIN Tail(a) = 1 .. (Len(a) - 1)
  BY <1>1, EmptySeq, LenProperties, HeadTailProperties, ElementOfSeq DEF Answer
<1>3. queue' = Append(queue, a[1]) /\ queue \in Seq(Messages)
  BY <1>2 DEF Script, Types
<1>4. Queued' = Queued \cup {a[1]}
  BY <1>2, <1>3, QueueAppend
<1>5. /\ DOMAIN queue = 1 .. Len(queue) /\ DOMAIN queue' = 1 .. (Len(queue) + 1)
      /\ Len(queue) \in Nat /\ queue'[Len(queue) + 1] = a[1]
      /\ \A i \in 1 .. Len(queue) : queue'[i] = queue[i]
  BY <1>2, <1>3, AppendProperties, LenProperties
<1>6. Len(a) = 1 => tasks' = tasks \ {t}
  BY DEF Script
<1>7. ASSUME Len(a) # 1
      PROVE  \E u \in Tasks :
               /\ tasks' = (tasks \ {t}) \cup {u} /\ u.effect = t.effect
               /\ u.left = Tail(a) /\ u.left # <<>>
               /\ Len(u.left) = Len(a) - 1 /\ DOMAIN u.left = 1 .. (Len(a) - 1)
               /\ \A k \in DOMAIN u.left : k + 1 \in DOMAIN a /\ u.left[k] = a[k + 1]
  <2> DEFINE u == [t EXCEPT !.left = Tail(a)]
  <2>1. u \in Tasks /\ u.effect = t.effect /\ u.left = Tail(a)
    BY <1>2 DEF Types, Tasks
  <2>2. tasks' = (tasks \ {t}) \cup {u}
    BY <1>7 DEF Script
  <2>3. Tail(a) # <<>>
    <3>1. Len(Tail(a)) # 0
      BY <1>2, <1>7
    <3>2. \A s \in Seq(Messages) : s = <<>> => Len(s) = 0
      BY EmptySeq
    <3> QED
      BY <1>2, <3>1, <3>2
  <2>4. \A k \in DOMAIN Tail(a) : k + 1 \in DOMAIN a /\ Tail(a)[k] = a[k + 1]
    BY <1>2
  <2> HIDE DEF u
  <2> QED
    BY <1>2, <2>1, <2>2, <2>3, <2>4
<1> QED
  BY <1>1, <1>2, <1>3, <1>4, <1>5, <1>6, <1>7

(* Once the install lock is there, tasks speak of downloads.               *)
LEMMA ScriptTalk ==
  ASSUME Types, Inv, PlanTalk, state.prepared, NEW t \in tasks, NEW a, Script(t, a)
  PROVE  \A k \in DOMAIN a : a[k].type \in Talk => a[k].target # PlanKey
<1>1. /\ t \in Tasks /\ t.effect \in Effects /\ t.effect \in Running /\ plan \in Plans
  BY DEF Types, Tasks, Running
<1>2. CASE t.left # <<>>
  BY <1>2 DEF Script, PlanTalk
<1>3. CASE t.left = <<>>
  <2>1. a \in Answers(t.effect)
    BY <1>3 DEF Script
  <2>2. t.effect.type = "ExecuteItem" => t.effect.index \in DOMAIN plan
    BY <1>1 DEF Inv, ItemInv, Doing
  <2>3. t.effect.type # "AcquireInstall"
    BY <1>1 DEF Inv, SetupInv, Doing, SetupEffects
  <2>4. PICK x \in Target :
          /\ Starts(a, x)
          /\ t.effect.type = "Download" => x = t.effect.key
          /\ t.effect.type = "ExecuteItem" => x = plan[t.effect.index]
          /\ t.effect.type \notin {"Download", "ExecuteItem"} =>
               Len(a) = 1 /\ a[1].type \notin Talk
    BY <1>1, <2>1, <2>2, <2>3, AnswersStart
  <2>5. CASE t.effect.type \in {"Download", "ExecuteItem"}
    <3>1. x \in Dl
      <4>1. t.effect.type = "Download" => t.effect.key \in Dl
        BY <1>1 DEF Effects, SetupEffects, FinishEffects, Emissions
      <4>2. t.effect.type = "ExecuteItem" => plan[t.effect.index] \in Dl
        BY <1>1, <2>2, PlansAssumption, ElementOfSeq, LenProperties
      <4> QED
        BY <2>4, <2>5, <4>1, <4>2
    <3> QED
      BY <2>4, <3>1, PlanKeyAssumption DEF Starts, About
  <2>6. CASE t.effect.type \notin {"Download", "ExecuteItem"}
    <3>1. Answer(t.effect, a)
      BY <1>1, <2>1, <2>2, AnswersShape
    <3>2. DOMAIN a = {1}
      BY <2>4, <2>6, <3>1, LenProperties DEF Answer
    <3> QED
      BY <2>4, <2>6, <3>2
  <2> QED
    BY <2>5, <2>6
<1> QED
  BY <1>2, <1>3

(* Before it is there, only the wait for it speaks.                        *)
LEMMA ScriptSetup ==
  ASSUME Types, Inv, TokenInv, OpenedInv, ~state.prepared, NEW t \in tasks, RunTask(t),
         NEW a, Script(t, a)
  PROVE  \/ /\ t.effect.type \in SetupEffects
            /\ Answered(SetupMessages) = {}
            /\ \A v \in tasks : v.effect.type \in SetupEffects => v = t
         \/ /\ t.effect.type \in Emissions /\ a[1].type \in Acks
            /\ tasks' = tasks \ {t}
<1>1. t.effect \in Running
  BY DEF Running
<1>2. t.effect.type \in SetupEffects \/ t.effect.type \in Emissions
  BY <1>1 DEF Inv, SetupInv, Only
<1>3. CASE t.effect.type \in SetupEffects
  <2>1. Answered(SetupMessages) = {}
    BY <1>1, <1>3 DEF Inv, SetupInv, Doing
  <2>2. \A v \in tasks : v.effect.type \in SetupEffects => v = t
    BY <1>3 DEF Inv, LoneInv, Lone, Rival
  <2> QED
    BY <1>3, <2>1, <2>2
<1>4. CASE t.effect.type \in Emissions
  <2>1. PICK m \in Messages : m.type \in Acks /\ queue' = Append(queue, m)
    BY <1>4, EmissionSays
  <2>2. tasks' = tasks \ {t}
    BY <1>4, EmissionSays
  <2>3. queue'[Len(queue) + 1] = a[1]
    BY ScriptNext DEF Inv
  <2>4. queue'[Len(queue) + 1] = m
    BY <2>1, AppendProperties DEF Types
  <2> QED
    BY <1>4, <2>1, <2>2, <2>3, <2>4
<1> QED
  BY <1>2, <1>3, <1>4

(* A task says nothing more of the plan once the lock is there.            *)
LEMMA TalkTask ==
  ASSUME Types, Inv, TokenInv, OpenedInv, PlanTalk, NEW t \in tasks, RunTask(t),
         NEW a, Script(t, a)
  PROVE  PlanTalk'
<1>1. /\ Queued' = Queued \cup {a[1]} /\ DOMAIN a = 1 .. Len(a) /\ Len(a) \in Nat \ {0}
      /\ Len(a) = 1 => tasks' = tasks \ {t}
      /\ DOMAIN queue = 1 .. Len(queue) /\ DOMAIN queue' = 1 .. (Len(queue) + 1)
      /\ Len(queue) \in Nat /\ queue'[Len(queue) + 1] = a[1]
      /\ \A i \in 1 .. Len(queue) : queue'[i] = queue[i]
  BY ScriptNext DEF Inv
<1>2. state' = state
  BY DEF RunTask
<1>3. CASE state.prepared
  <2>1. \A k \in DOMAIN a : a[k].type \in Talk => a[k].target # PlanKey
    BY <1>3, ScriptTalk
  <2>2. \A m \in Answered(Talk)' : m.target # PlanKey
    <3>1. 1 \in DOMAIN a
      BY <1>1
    <3> QED
      BY <1>1, <1>3, <2>1, <3>1 DEF PlanTalk, Answered
  <2>3. ASSUME NEW u \in tasks', NEW k \in DOMAIN u.left, u.left[k].type \in Talk
        PROVE  u.left[k].target # PlanKey
    <3>1. CASE u \in tasks
      BY <1>3, <2>3, <3>1 DEF PlanTalk
    <3>2. CASE u \notin tasks
      <4>1. Len(a) # 1
        BY <1>1, <3>2
      <4>2. \A j \in DOMAIN u.left : j + 1 \in DOMAIN a /\ u.left[j] = a[j + 1]
        BY <3>2, <4>1, ScriptNext DEF Inv
      <4> QED
        BY <2>1, <2>3, <4>2
    <3> QED
      BY <3>1, <3>2
  <2> QED
    BY <1>2, <1>3, <2>2, <2>3 DEF PlanTalk
<1>4. CASE ~state.prepared
  <2>1. a[1].type \in Talk => Answered(SetupMessages) = {}
    BY <1>4, ScriptSetup DEF Talk, Acks
  <2>2. ASSUME NEW i \in DOMAIN queue', NEW j \in DOMAIN queue', i < j,
               queue'[i].type \in SetupMessages
        PROVE  queue'[j].type \notin Talk
    <3>1. i \in DOMAIN queue /\ queue'[i] = queue[i]
      BY <1>1, <2>2
    <3>2. CASE j \in DOMAIN queue
      <4>1. queue'[j] = queue[j]
        BY <1>1, <3>2
      <4> QED
        BY <1>4, <2>2, <3>1, <3>2, <4>1 DEF PlanTalk
    <3>3. CASE j = Len(queue) + 1
      <4>1. queue[i] \in Answered(SetupMessages)
        BY <2>2, <3>1 DEF Answered, Queued
      <4> QED
        BY <1>1, <2>1, <3>3, <4>1
    <3> QED
      BY <1>1, <3>2, <3>3
  <2> QED
    BY <1>2, <1>4, <2>2 DEF PlanTalk
<1> QED
  BY <1>3, <1>4

(* A lock that was waited for is there after what was seen meanwhile.      *)
LEMMA ScriptWaits ==
  ASSUME Types, Inv, FreshInv, faults = 0, ~state.prepared,
         NEW t \in tasks, t.effect.type \in SetupEffects, NEW a, Script(t, a)
  PROVE  /\ state.result = "none"
         /\ Waits(a[Len(a)]) \/ (Len(a) = 1 /\ Unheard)
<1>1. t \in Tasks /\ t.effect \in Effects /\ plan \in Plans
      /\ state.result = "none"
      /\ IF t.left = <<>> THEN Unheard ELSE Waits(t.left[Len(t.left)])
  BY DEF Types, Tasks, FreshInv
<1>2. CASE t.left # <<>>
  BY <1>1, <1>2 DEF Script
<1>3. CASE t.left = <<>>
  <2>1. a \in Answers(t.effect)
    BY <1>3 DEF Script
  <2>2. t.effect.type # "ExecuteItem" /\ t.effect.type # "Download"
    BY DEF SetupEffects
  <2>3. CASE t.effect.type = "AcquireInstall"
    <3>1. a \in InstallAnswers
      BY <2>1, <2>3 DEF Answers
    <3>2. Len(a) # 1 => (a[Len(a)].type = "InstallAcquired" => a[Len(a)].waited)
      BY <1>1, <3>1, InstallStarts
    <3>3. Answer(t.effect, a)
      BY <1>1, <2>1, <2>2, AnswersShape
    <3>4. a[Len(a)].type \in {"InstallAcquired", "EffectFailed"}
      BY <2>3, <3>3 DEF Answer, EndOf, Ends
    <3> QED
      BY <1>1, <1>3, <3>2, <3>4 DEF Waits
  <2>4. CASE t.effect.type # "AcquireInstall"
    BY <1>1, <1>3, <2>1, <2>2, <2>4, AnswersStart
  <2> QED
    BY <2>3, <2>4
<1> QED
  BY <1>1, <1>2, <1>3

(* What is heard of the plan before its lock is there.                     *)
LEMMA FreshTask ==
  ASSUME Types, Inv, TokenInv, OpenedInv, FreshInv, NEW t \in tasks, RunTask(t),
         NEW a, Script(t, a)
  PROVE  FreshInv'
<1>0. state' = state /\ faults' = faults
  BY DEF RunTask
<1> SUFFICES ASSUME faults = 0, ~state.prepared PROVE FreshInv'
  BY <1>0 DEF FreshInv
<1>1. /\ Answer(t.effect, a) /\ Queued' = Queued \cup {a[1]}
      /\ Len(a) \in Nat \ {0} /\ DOMAIN a = 1 .. Len(a)
      /\ Len(a) = 1 => tasks' = tasks \ {t}
  BY ScriptNext DEF Inv
<1>2. CASE t.effect.type \in Emissions /\ a[1].type \in Acks /\ tasks' = tasks \ {t}
  <2>1. a[1].type \notin Talk /\ a[1].type \notin SetupMessages
    BY <1>2 DEF Talk, Acks, SetupMessages
  <2>2. Answered(Talk)' = Answered(Talk) /\ Answered(SetupMessages)' = Answered(SetupMessages)
    BY <1>1, <2>1 DEF Answered
  <2>3. Unheard' = Unheard
    BY <1>0, <2>2 DEF Unheard
  <2> QED
    BY <1>0, <1>2, <2>2, <2>3 DEF FreshInv
<1>3. CASE /\ t.effect.type \in SetupEffects
           /\ Answered(SetupMessages) = {}
           /\ \A v \in tasks : v.effect.type \in SetupEffects => v = t
  <2>1. state.result = "none" /\ (Waits(a[Len(a)]) \/ (Len(a) = 1 /\ Unheard))
    BY <1>3, ScriptWaits
  <2>2. CASE Len(a) = 1
    <3>1. a[1].type \notin Talk
      BY <1>1, <1>3, <2>2 DEF Answer, EndOf, Ends, SetupEffects, Talk
    <3>2. Unheard => Unheard'
      BY <1>0, <1>1, <3>1 DEF Unheard, Answered
    <3>3. Answered(SetupMessages)' \subseteq {a[1]}
      BY <1>1, <1>3 DEF Answered
    <3>4. \A v \in tasks' : v.effect.type \notin SetupEffects
      BY <1>1, <1>3, <2>2
    <3>5. \A m \in Answered(SetupMessages)' : Unheard' \/ Waits(m)
      BY <2>1, <2>2, <3>2, <3>3
    <3> QED
      BY <1>0, <2>1, <3>4, <3>5 DEF FreshInv
  <2>3. CASE Len(a) # 1
    <3>1. PICK u \in Tasks :
            /\ tasks' = (tasks \ {t}) \cup {u} /\ u.left # <<>>
            /\ Len(u.left) = Len(a) - 1 /\ DOMAIN u.left = 1 .. (Len(a) - 1)
            /\ \A k \in DOMAIN u.left : k + 1 \in DOMAIN a /\ u.left[k] = a[k + 1]
      BY <2>3, ScriptNext DEF Inv
    <3>2. Waits(u.left[Len(u.left)])
      <4> DEFINE n == Len(u.left)
      <4>1. Len(a) \in Nat /\ Len(a) >= 2 /\ n = Len(a) - 1
        <5>1. Len(a) \in Nat \ {0}
          BY <1>1
        <5>2. n = Len(a) - 1
          BY <3>1
        <5> HIDE DEF n
        <5> QED
          BY <2>3, <5>1, <5>2
      <4>2. n \in 1 .. (Len(a) - 1) /\ n + 1 = Len(a)
        <5> HIDE DEF n
        <5> QED
          BY <4>1
      <4>3. n \in DOMAIN u.left /\ n + 1 = Len(a)
        BY <3>1, <4>2
      <4>4. u.left[n] = a[n + 1]
        BY <3>1, <4>3
      <4> QED
        BY <2>1, <2>3, <4>3, <4>4
    <3>3. a[1] \in Chatter
      BY <1>1, <2>3 DEF Answer
    <3>4. Answered(SetupMessages)' = {}
      BY <1>1, <1>3, <3>3 DEF Answered, Chatter, SetupMessages
    <3>5. \A v \in tasks' : v.effect.type \in SetupEffects => v = u
      BY <1>3, <3>1
    <3> QED
      BY <1>0, <2>1, <3>1, <3>2, <3>4, <3>5 DEF FreshInv
  <2> QED
    BY <2>2, <2>3
<1> QED
  BY <1>2, <1>3, ScriptSetup

(* A task ends nothing of the plan by itself.                              *)
LEMMA PlanTask ==
  ASSUME Types, Inv, PlanInv, NEW t \in tasks, RunTask(t)
  PROVE  PlanInv'
<1>0. state' = state /\ faults' = faults
  BY DEF RunTask
<1> SUFFICES ASSUME state.prepared PROVE PlanInv'
  BY <1>0 DEF PlanInv
<1>1. PICK m \in Messages : /\ queue' = Append(queue, m) /\ world' = Done(m)
                            /\ Continues(t, m) \/ Finishes(t, m)
  BY TaskStep DEF Inv
<1>2. t.effect \in Running /\ t.effect \in Effects /\ Queued' = Queued \cup {m}
  BY <1>1, QueueAppend DEF Running, Types, Tasks
<1>3. \A u \in tasks' : u \in tasks \/ u.effect = t.effect
  BY <1>1 DEF Continues, Finishes
<1>4. m.type = "Registered" => t.effect.type = "Register"
  <2>1. CASE Continues(t, m)
    BY <2>1 DEF Continues, Chatter
  <2>2. CASE Finishes(t, m)
    BY <1>2, <2>2 DEF Finishes, EndOf, Ends, Effects, SetupEffects, FinishEffects, Emissions
  <2> QED
    BY <1>1, <2>1, <2>2
<1>5. Closing' => Closing
  <2>1. Doing({"Register"})' \subseteq Doing({"Register"})
    BY <1>2, <1>3 DEF Doing, Running
  <2>2. Answered({"Registered"})' # {} => Doing({"Register"}) # {} \/ Answered({"Registered"}) # {}
    BY <1>2, <1>4 DEF Answered, Doing
  <2> QED
    BY <1>0, <2>1, <2>2 DEF Closing
<1>6. faults = 0 /\ ~state.waited => Shown(state, Closing)'
  BY <1>0, <1>5 DEF PlanInv, Shown
<1>7. ~state.publishing /\ world.published => world'.published
  <2> HAVE ~state.publishing /\ world.published
  <2>1. t.effect.type \in {"Register"} \cup Emissions
    BY <1>2 DEF Inv, PhaseInv, Only
  <2>2. m.type \notin {"InstallAcquired", "Published"}
    <3>1. CASE Continues(t, m)
      BY <3>1 DEF Continues, Chatter
    <3>2. CASE Finishes(t, m)
      BY <2>1, <3>2 DEF Finishes, EndOf, Ends, Emissions
    <3> QED
      BY <1>1, <3>1, <3>2
  <2>3. Done(m).published = world.published
    BY <2>2 DEF Done, Types
  <2> QED
    BY <1>1, <2>3
<1>8. state.publishing \/ ~world'.published => state.status[PlanKey] # NoStatus
  BY <1>7 DEF PlanInv
<1> QED
  BY <1>0, <1>6, <1>8 DEF PlanInv

(* Every step of a task.                                                   *)
LEMMA TaskTells ==
  ASSUME Types, Inv, Tells, NEW t \in tasks, RunTask(t)
  PROVE  Tells'
<1>1. TokenInv' /\ OpenedInv' /\ HeardInv'
  BY TaskVoices DEF Tells
<1>2. PICK a : Script(t, a)
  BY DEF RunTask, Script
<1>3. PlanTalk' /\ FreshInv' /\ PlanInv'
  BY <1>2, TalkTask, FreshTask, PlanTask DEF Tells
<1> QED
  BY <1>1, <1>3 DEF Tells

(* A status that cannot be written.                                        *)
LEMMA FailEmissionTells ==
  ASSUME Types, Inv, Tells, NEW t \in tasks, FailEmission(t)
  PROVE  Tells'
<1> DEFINE m == Applied(t.effect.target, FALSE)
<1>1. TokenInv' /\ OpenedInv' /\ faults' # 0
  BY FailEmissionVoices DEF Tells
<1>2. /\ queue' = Append(queue, m) /\ tasks' = tasks \ {t}
      /\ state' = state /\ world' = world
  BY DEF FailEmission
<1>3. m \in Messages /\ m.type \notin Talk
  <2>1. t.effect \in Effects /\ t.effect.type = "EmitProgress"
    BY DEF Types, Tasks, FailEmission
  <2>2. t.effect.target \in Target
    BY <2>1 DEF Effects, SetupEffects, FinishEffects
  <2> QED
    BY <2>2 DEF Applied, Messages, Told, Talk
<1> HIDE DEF m
<1>4. /\ DOMAIN queue = 1 .. Len(queue) /\ DOMAIN queue' = 1 .. (Len(queue) + 1)
      /\ Len(queue) \in Nat /\ queue'[Len(queue) + 1] = m
      /\ \A i \in 1 .. Len(queue) : queue'[i] = queue[i]
      /\ Queued' = Queued \cup {m}
  BY <1>2, <1>3, AppendProperties, LenProperties, QueueAppend DEF Types
<1>5. PlanTalk'
  <2>1. Answered(Talk)' = Answered(Talk)
    BY <1>3, <1>4 DEF Answered
  <2>2. ASSUME ~state.prepared, NEW i \in DOMAIN queue', NEW j \in DOMAIN queue', i < j,
               queue'[i].type \in SetupMessages
        PROVE  queue'[j].type \notin Talk
    <3>1. CASE j = Len(queue) + 1
      BY <1>3, <1>4, <3>1
    <3>2. CASE j # Len(queue) + 1
      <4>1. i \in DOMAIN queue /\ j \in DOMAIN queue /\ queue'[i] = queue[i] /\ queue'[j] = queue[j]
        BY <1>4, <2>2, <3>2
      <4> QED
        BY <2>2, <4>1 DEF Tells, PlanTalk
    <3> QED
      BY <3>1, <3>2
  <2> QED
    BY <1>2, <2>1, <2>2 DEF Tells, PlanTalk
<1>6. PlanInv'
  BY <1>1, <1>2 DEF Tells, PlanInv
<1>7. HeardInv' /\ FreshInv'
  BY <1>1 DEF HeardInv, FreshInv
<1> QED
  BY <1>1, <1>5, <1>6, <1>7 DEF Tells

(* A task that panics.                                                     *)
LEMMA PanicTells ==
  ASSUME Types, Inv, Tells, NEW t \in tasks, JoinPanic(t)
  PROVE  Tells'
<1> DEFINE n == FailCreate(state)
<1>1. TokenInv' /\ OpenedInv' /\ faults' # 0
  BY PanicVoices DEF Tells
<1>2. queue' = queue /\ Become(n, tasks \ {t})
  BY DEF JoinPanic
<1>3. Kept(state, n) /\ Voiced(state.busy, n, {}) /\ n \in CreateState
  BY VoicedStart, FailVoiced, FailKept DEF Types, Tells, Kept
<1> HIDE DEF n
<1>4. /\ state'.prepared = state.prepared /\ state'.publishing = state.publishing
      /\ state'.status = n.status /\ world' = world
      /\ \A u \in tasks' : u \in tasks \/ u.left = <<>>
  <2>1. Begun(n, tasks \ {t})
    BY <1>2, <1>3, BecomeStarts
  <2>2. state'.status = n.status /\ \A u \in tasks' : u \in tasks \/ u.left = <<>>
    BY <1>2, <1>3, BecomeVoices
  <2> QED
    BY <1>3, <2>1, <2>2 DEF Begun, Kept
<1>5. PlanTalk'
  <2>1. Answered(Talk)' = Answered(Talk)
    BY <1>2 DEF Answered, Queued
  <2>2. state.prepared =>
          \A u \in tasks' : \A k \in DOMAIN u.left :
            u.left[k].type \in Talk => u.left[k].target # PlanKey
    BY <1>4 DEF Tells, PlanTalk
  <2> QED
    BY <1>2, <1>4, <2>1, <2>2 DEF Tells, PlanTalk
<1>6. PlanInv'
  BY <1>1, <1>3, <1>4 DEF Tells, PlanInv, Voiced, Target
<1>7. HeardInv' /\ FreshInv'
  BY <1>1 DEF HeardInv, FreshInv
<1> QED
  BY <1>1, <1>5, <1>6, <1>7 DEF Tells

(* A step that changes nothing but that the call has returned.             *)
LEMMA StillTells ==
  ASSUME Tells, UNCHANGED <<plan, state, tasks, queue, sent, world, faults>>
  PROVE  Tells'
<1>1. Running' = Running /\ Queued' = Queued
  BY DEF Running, Queued
<1>2. TokenInv' /\ HeardInv'
  BY <1>1 DEF Tells, TokenInv, HeardInv, Answered
<1>3. OpenedInv'
  BY <1>1 DEF Tells, OpenedInv
<1>4. PlanTalk' /\ FreshInv'
  BY <1>1 DEF Tells, PlanTalk, FreshInv, Unheard, Answered
<1>5. PlanInv'
  BY <1>1 DEF Tells, PlanInv, Shown, Closing, Doing, Answered
<1> QED
  BY <1>2, <1>3, <1>4, <1>5 DEF Tells

(* A call starts with nothing said.                                        *)
LEMMA TellsInit == Init => Tells
<1> SUFFICES ASSUME Init PROVE Tells
  OBVIOUS
<1>1. PICK first \in {"Prepare", "AcquireRequestLock"} :
        tasks = {[effect |-> [type |-> first], left |-> <<>>]}
  BY DEF Init
<1> DEFINE e == [type |-> first]
           u == [effect |-> e, left |-> <<>>]
<1>2. u.effect.type = first /\ u.left = <<>> /\ tasks = {u}
  BY <1>1
<1> HIDE DEF e, u
<1>3. \A v \in tasks : v = u /\ v.left = <<>> /\ v.effect.type \notin Emissions
                       /\ DOMAIN v.left = {}
  BY <1>2 DEF Emissions
<1>4. queue = <<>> /\ DOMAIN queue = {} /\ Queued = {}
  BY DEF Init, Queued
<1>5. \A types : Answered(types) = {}
  BY <1>4 DEF Answered
<1>6. /\ ~state.prepared /\ state.result = "none" /\ state.busy = {}
      /\ \A t \in Target : /\ state.status[t] = NoStatus /\ state.pending[t] = <<>>
                           /\ DOMAIN state.pending[t] = {} /\ sent[t] = NoStatus
  BY DEF Init
<1>7. TokenInv
  <2>1. Numbered(NoStatus)
    BY DEF Numbered
  <2> QED
    BY <1>3, <1>4, <1>5, <1>6, <2>1 DEF TokenInv
<1>8. OpenedInv
  BY <1>3, <1>4 DEF OpenedInv
<1>9. HeardInv
  BY <1>3, <1>5, <1>6 DEF HeardInv, Emissions
<1>10. PlanTalk /\ PlanInv
  BY <1>4, <1>6 DEF PlanTalk, PlanInv
<1>11. FreshInv
  BY <1>3, <1>5, <1>6 DEF FreshInv, Unheard
<1> QED
  BY <1>7, <1>8, <1>9, <1>10, <1>11 DEF Tells

(* Every step of the call.                                                 *)
LEMMA TellsStep ==
  ASSUME Types, Inv, Tells, [Next]_vars
  PROVE  Tells'
<1>1. ASSUME NEW t \in tasks, RunTask(t) PROVE Tells'
  BY <1>1, TaskTells
<1>2. ASSUME NEW t \in tasks, FailEmission(t) \/ JoinPanic(t) PROVE Tells'
  BY <1>2, FailEmissionTells, PanicTells
<1>3. CASE Dispatch
  BY <1>3, DispatchTells
<1>4. CASE Return \/ Quiet \/ UNCHANGED vars
  <2>1. UNCHANGED <<plan, state, tasks, queue, sent, world, faults>>
    BY <1>4 DEF Return, Quiet, vars
  <2> QED
    BY <2>1, StillTells
<1> QED
  BY <1>1, <1>2, <1>3, <1>4 DEF Next, Work

(* A call that returned with nothing lost has told all of it: its caller   *)
(* has seen the last status of every target, no event is left in a queue,  *)
(* and a plan that was installed without waiting for another holder is     *)
(* seen completed or failed, completed if the call returned Ok (run_create,*)
(* pump_progress, fail_create).                                            *)
THEOREM CallReports == Spec => []Reported
<1>1. Tells /\ Types /\ Inv /\ [Next]_vars => Tells'
  BY TellsStep
<1>2. Tells /\ Types /\ Inv => Reported
  <2> SUFFICES ASSUME Tells, Types, Inv, returned, faults = 0
               PROVE  /\ \A t \in Target : state.pending[t] = <<>> /\ sent[t] = state.status[t]
                      /\ state.prepared /\ ~state.waited => sent[PlanKey].st \in Terminal
                      /\ state.result = "ok" /\ ~state.waited => sent[PlanKey].st = "Completed"
    BY DEF Reported
  <2>1. tasks = {} /\ queue = <<>> /\ state.result # "none"
    BY DEF Inv, ReturnInv
  <2>2. Running = {} /\ Queued = {} /\ \A types : Answered(types) = {}
    BY <2>1 DEF Running, Queued, Answered
  <2>3. state.busy = {} /\ PlanKey \in Target
    BY <2>2 DEF Tells, HeardInv, Target
  <2>4. \A t \in Target : state.pending[t] = <<>> /\ sent[t] = state.status[t]
    BY <2>3 DEF Tells, HeardInv, TokenInv
  <2>5. ASSUME state.prepared, ~state.waited
        PROVE  /\ state.status[PlanKey].st \in Terminal
               /\ state.result = "ok" => state.status[PlanKey].st # "Failed"
    BY <2>1, <2>3, <2>4, <2>5 DEF Tells, PlanInv, Closing, Shown
  <2>6. state.result = "ok" => state.prepared
    BY DEF Inv, FinishInv, SetupInv
  <2> QED
    BY <2>3, <2>4, <2>5, <2>6 DEF Terminal
<1> QED
  BY <1>1, <1>2, TellsInit, CallInvariant, PTL DEF Spec

(* As long as every status is written, the caller sees the statuses of a   *)
(* target in the order of its attempts, for every plan, any number of      *)
(* statuses seen of other holders, and in whatever order the tasks answer: *)
(* once it has seen an attempt end, what the call reports next is of       *)
(* another one (pump_progress, Event::reduce). What the emission under way *)
(* carries came after the status the caller has seen (HeardInv).           *)
THEOREM CallNoLateProgress == Spec => NoLateProgress
<1>1. Types /\ Inv /\ Tells /\ [Next]_vars => Tells'
  BY TellsStep
<1>2. Types /\ Inv /\ Tells /\ [Next]_vars =>
        [faults = 0 =>
           \A t \in tasks : t.effect.type = "EmitProgress" /\ t \notin tasks' =>
             LET old == sent[t.effect.target]
                 new == sent'[t.effect.target] IN
             old # new /\ old.st \in Terminal =>
               <<new.ty, new.tried>> # <<old.ty, old.tried>>]_vars
  <2> SUFFICES ASSUME Types, Inv, Tells, [Next]_vars, faults = 0,
                      NEW t \in tasks, t.effect.type = "EmitProgress", t \notin tasks',
                      sent'[t.effect.target] # sent[t.effect.target]
               PROVE  After(sent[t.effect.target], sent'[t.effect.target])
    BY DEF After
  <2> DEFINE x == t.effect.target
  <2>1. t.effect.type \in Emissions /\ x \in Target /\ TokenInv
    BY DEF Emissions, Types, Tasks, Effects, SetupEffects, FinishEffects, Tells
  <2>2. After(sent[x], t.effect.status)
    BY DEF Tells, HeardInv
  <2>3. \E u \in tasks : RunTask(u)
    <3>1. sent' # sent
      OBVIOUS
    <3> QED
      BY <3>1 DEF Next, Work, Dispatch, RequestLockAcquired, Prepared, InstallAcquired,
         InstallPrepared, DownloadFinished, ItemFinished, Published, Registered,
         ProgressEvent, ObservedStatus, ProgressApplied, StatusForwarded, EffectFailed,
         Return, FailEmission, JoinPanic, Quiet, Become, vars
  <2>4. PICK u \in tasks : RunTask(u)
    BY <2>3
  <2>5. u = t
    <3>1. t.effect.type = "EmitProgress" /\ t \notin tasks' /\ t \in tasks
      OBVIOUS
    <3> QED
      BY <2>4, <3>1 DEF RunTask
  <2>6. sent' = [sent EXCEPT ![x] = t.effect.status]
    BY <2>1, <2>4, <2>5, EmissionSays
  <2>7. sent'[x] = t.effect.status
    BY <2>1, <2>6 DEF Types
  <2> QED
    BY <2>2, <2>7
<1> QED
  BY <1>1, <1>2, TellsInit, CallInvariant, PTL DEF Spec, NoLateProgress

=============================================================================
