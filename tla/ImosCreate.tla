----------------------------- MODULE ImosCreate -----------------------------
(***************************************************************************)
(* One create or install call of the store, from the inside: a reducer     *)
(* that owns the call's state and turns each event into effects, the tasks *)
(* that carry the effects out concurrently, and the channel through which  *)
(* they answer. What a task does to the store is in ImosStore; here it is  *)
(* the events it may send, in order, and the fact that it happened.        *)
(***************************************************************************)
EXTENDS Naturals, Sequences, FiniteSetsExt

CONSTANTS
  Dl,          \* download keys
  PlanKey,     \* the plan's key, the progress target of the installation
  Plans,       \* the plans a caller may submit, each the keys of its items
  Archives,    \* items that are unpacked, not copied
  Large,       \* items large enough to report progress
  Watched,     \* targets whose lock file is read while another call holds it
  MaxSeen,     \* bound on the statuses read from a lock file while waiting
  MaxTried,    \* bound on the attempts they number
  MaxFaults    \* bound on tasks that panic and statuses that cannot be written

ASSUME PlansAssumption == Plans \subseteq Seq(Dl)
ASSUME ItemsAssumption == Archives \subseteq Dl /\ Large \subseteq Dl
ASSUME PlanKeyAssumption == PlanKey \notin Dl
ASSUME WatchedAssumption == Watched \subseteq Dl \cup {PlanKey}
ASSUME BoundsAssumption == MaxSeen \in Nat /\ MaxTried \in Nat /\ MaxFaults \in Nat

VARIABLES
  plan,     \* the plan submitted
  state,    \* CreateState, as the reducer sees it
  tasks,    \* running effects, each with the events it has still to send
  queue,    \* the event channel
  returned, \* the call has returned
  sent,     \* the last status sent to the caller for each target
  world,    \* what the tasks have done outside the call
  faults    \* panics and failed emissions so far

vars == <<plan, state, tasks, queue, returned, sent, world, faults>>

Target == Dl \cup {PlanKey}
Keys == {plan[i] : i \in DOMAIN plan}

-----------------------------------------------------------------------------
(* Statuses and progress events.                                           *)

Terminal == {"Completed", "Failed"}
NoStatus == [ty |-> "none", st |-> "none", tried |-> 0]
Status == {NoStatus} \cup
  [ty : {"InstallShared", "Download", "Unpack"},
   st : {"Running"} \cup Terminal, tried : Nat]

Started(ty) == [what |-> "AttemptStarted", ty |-> ty]
Cached(ty) == [what |-> "Cached", ty |-> ty]
Progressed == [what |-> "Progressed"]
Completed == [what |-> "Completed"]
Failed == [what |-> "Failed"]
Observed(status) == [what |-> "Observed", status |-> status]

Late(e, old) == e.what \in {"Progressed"} \cup Terminal /\ old.st \in Terminal
UnstartedMutant(e, old) == e.what = "Progressed" /\ old = NoStatus  \* mutant
Unstarted(e, old) == e.what \in {"Progressed"} \cup Terminal /\ old = NoStatus

Reduced(e, old) ==
  CASE e.what = "AttemptStarted" ->
         [ty |-> e.ty, st |-> "Running",
          tried |-> IF old.ty = e.ty THEN old.tried + 1 ELSE 1]
    [] e.what = "Cached"     -> [ty |-> e.ty, st |-> "Completed", tried |-> 0]
    [] e.what = "Progressed" -> [old EXCEPT !.st = "Running"]
    [] e.what = "Observed"   -> e.status
    [] OTHER                 -> [old EXCEPT !.st = e.what]

-----------------------------------------------------------------------------
(* The reducer: each operator takes the call's state to its next one, with *)
(* the effects to start.                                                   *)

Effect(s, e) == [s EXCEPT !.effects = @ \cup {e}]

(* pump_progress: one emission of a target at a time, in order; progress   *)
(* after a terminal status is dropped.                                     *)
BusyMutant(s, t) == t \in s.busy \ Target    \* mutant: emissions overlap
Busy(s, t) == t \in s.busy

PumpOr(OnFailure(_), s, t) ==
  LET q == s.pending[t]
      live == {i \in DOMAIN q : ~Late(q[i], s.status[t])}
      e == q[Min(live)]
      rest == [s EXCEPT !.pending[t] = SubSeq(q, Min(live) + 1, Len(q))]
      new == Reduced(e, s.status[t])
  IN  CASE Busy(s, t)                -> s
        [] ~Busy(s, t) /\ live = {}  -> [s EXCEPT !.pending[t] = <<>>]
        [] OTHER ->
             IF Unstarted(e, s.status[t])
               THEN OnFailure(rest)
               ELSE Effect([rest EXCEPT !.status[t] = new, !.busy = @ \cup {t}],
                           [type |-> IF e.what = "Observed" THEN "ForwardStatus"
                                                            ELSE "EmitProgress",
                            target |-> t, status |-> new])

(* fail_create: the first failure is the outcome, later ones change        *)
(* nothing; a call that got its locks reports it.                          *)
Same(s) == s
FailCreate(s) ==
  IF s.result # "none" THEN s
  ELSE IF ~s.prepared THEN [s EXCEPT !.result = "err"]
  ELSE PumpOr(Same, [s EXCEPT !.result = "err",
                              !.pending[PlanKey] = Append(@, Failed)], PlanKey)

Pump(s, t) == PumpOr(FailCreate, s, t)
Enqueue(s, t, e) == Pump([s EXCEPT !.pending[t] = Append(@, e)], t)

(* advance_items: the next item once its download is there, one at a time, *)
(* and the publication after the last.                                     *)
ReadyMutant(s) == s.next \in DOMAIN plan /\ s.completed # {}  \* mutant: any download
Ready(s) == plan[s.next] \in s.completed

Stalled(s) ==
  s.result # "none" \/ s.itemRunning \/ s.publishing \/ ~s.prepared \/ ~s.temporary

Advance(s) ==
  IF Stalled(s) THEN s
  ELSE IF s.next > Len(plan)
    THEN Effect([s EXCEPT !.publishing = TRUE], [type |-> "PublishInstall"])
  ELSE IF Ready(s)
    THEN Effect([s EXCEPT !.itemRunning = TRUE],
                [type |-> "ExecuteItem", index |-> s.next])
  ELSE s

-----------------------------------------------------------------------------
(* What each effect may answer: the sequences of events its task can send. *)

Event(type) == [type |-> type]
Result(type, ok) == [type |-> type, ok |-> ok]
Applied(t, ok) == [type |-> "ProgressApplied", target |-> t, ok |-> ok]
Progress(t, e) == [type |-> "Progress", target |-> t, event |-> e]

(* Progress of an attempt on target t before its end.                      *)
Attempt(t, ty) ==
  <<Progress(t, Started(ty))>> \o
  (IF t \in Large THEN <<Progress(t, Progressed)>> ELSE <<>>)

(* A lock file holds the statuses its last holder reported through it: of  *)
(* its target, and of the items unpacked under an installation's lock.     *)
Held(lock) == IF lock = PlanKey THEN "InstallShared" ELSE "Download"
Attempted(ty) ==
  [ty : {ty}, st : {"Running"} \cup Terminal, tried : 1..MaxTried]
Observation(t, status) == [type |-> "ObservedStatus", target |-> t, status |-> status]
Lines(lock) ==
  {Observation(lock, s) :
     s \in Attempted(Held(lock)) \cup {Reduced(Cached(Held(lock)), NoStatus)}} \cup
  {Observation(d, s) : d \in {x \in Keys \cap Archives : lock = PlanKey},
                       s \in Attempted("Unpack")}

(* What is followed of the other holders while waiting for a lock: some of *)
(* the statuses they report. The file is cut at each acquisition and read  *)
(* on from the same place, so those of the next holder may miss their      *)
(* beginning.                                                              *)
ObservedOf(lock) ==
  IF lock \in Watched THEN UNION {[1..n -> Lines(lock)] : n \in 0..MaxSeen} ELSE {<<>>}

InstallAnswers ==
  LET acquired(cached, waited) ==
        [type |-> "InstallAcquired", cached |-> cached, waited |-> waited] IN
  {Append(seen, last) : seen \in ObservedOf(PlanKey),
     last \in {acquired(cached, TRUE) : cached \in BOOLEAN} \cup {Event("EffectFailed")}}
  \cup {<<acquired(cached, FALSE)>> : cached \in BOOLEAN}

(* What a download that may have waited answers once it has its lock.      *)
Downloaded(d, ok) == [type |-> "DownloadFinished", key |-> d, ok |-> ok]
DownloadTried(d) ==
  LET attempt == Attempt(d, "Download")
      kept == <<Downloaded(d, TRUE)>>
      damaged ==
        <<Progress(d, Started("Download")), Progress(d, Failed), Downloaded(d, FALSE)>>
      fetched == attempt \o <<Progress(d, Completed), Downloaded(d, TRUE)>>
      failed == attempt \o <<Progress(d, Failed), Downloaded(d, FALSE)>>
      broken == {<<Downloaded(d, FALSE)>>, Append(attempt, Downloaded(d, FALSE))}
  IN  {kept, damaged, fetched, failed} \cup broken

DownloadFound(d) == <<Progress(d, Cached("Download")), Downloaded(d, TRUE)>>
DownloadAnswers(d) ==
  {DownloadFound(d)} \cup
  {seen \o a : seen \in ObservedOf(d), a \in DownloadTried(d)}

ExecuteAnswers(i) ==
  LET finished(ok) == [type |-> "ItemFinished", index |-> i, ok |-> ok]
      last(ok) == <<Progress(plan[i], IF ok THEN Completed ELSE Failed), finished(ok)>>
  IN  {<<finished(FALSE)>>} \cup
      {IF plan[i] \in Archives THEN Attempt(plan[i], "Unpack") \o last(ok)
                               ELSE <<finished(ok)>> : ok \in BOOLEAN}

Answers(e) ==
  CASE e.type = "AcquireRequestLock" ->
         {<<Event("RequestLockAcquired")>>, <<Event("EffectFailed")>>}
    [] e.type = "PersistRequest" -> {<<Result("Prepared", ok)>> : ok \in BOOLEAN}
    [] e.type = "Prepare"        -> {<<Result("Prepared", ok)>> : ok \in BOOLEAN}
    [] e.type = "AcquireInstall" -> InstallAnswers
    [] e.type = "Download"       -> DownloadAnswers(e.key)
    [] e.type = "PrepareInstall" -> {<<Result("InstallPrepared", ok)>> : ok \in BOOLEAN}
    [] e.type = "ExecuteItem"    -> ExecuteAnswers(e.index)
    [] e.type = "PublishInstall" -> {<<Result("Published", ok)>> : ok \in BOOLEAN}
    [] e.type = "Register"       -> {<<Result("Registered", ok)>> : ok \in BOOLEAN}
    [] e.type = "EmitProgress"   -> {<<Applied(e.target, TRUE)>>}
    [] e.type = "ForwardStatus"  -> {<<[type |-> "StatusForwarded", target |-> e.target]>>}

-----------------------------------------------------------------------------

Init ==
  /\ plan \in Plans
  /\ state = [prepared |-> FALSE, waited |-> FALSE, temporary |-> FALSE,
              wanted |-> {}, completed |-> {}, downloadFailed |-> FALSE,
              next |-> 1, itemRunning |-> FALSE, publishing |-> FALSE,
              status |-> [t \in Target |-> NoStatus],
              busy |-> {}, pending |-> [t \in Target |-> <<>>],
              effects |-> {}, result |-> "none"]
  /\ \E first \in {"Prepare", "AcquireRequestLock"} :
       tasks = {[effect |-> [type |-> first], left |-> <<>>]}
  /\ queue = <<>>
  /\ returned = FALSE
  /\ sent = [t \in Target |-> NoStatus]
  /\ world = [fetched |-> {}, staged |-> FALSE, executed |-> 0,
              published |-> FALSE, registered |-> FALSE]
  /\ faults = 0

-----------------------------------------------------------------------------
(* Tasks.                                                                  *)

(* What a task has done by the time it sends an event.                     *)
Done(e) ==
  CASE e.type = "InstallAcquired"  -> [world EXCEPT !.published = e.cached]
    [] e.type = "DownloadFinished" ->
         [world EXCEPT !.fetched = IF e.ok THEN @ \cup {e.key} ELSE @]
    [] e.type = "InstallPrepared"  -> [world EXCEPT !.staged = e.ok]
    [] e.type = "ItemFinished"     ->
         [world EXCEPT !.executed = IF e.ok THEN @ + 1 ELSE @]
    [] e.type = "Published"        -> [world EXCEPT !.published = e.ok]
    [] e.type = "Registered"       -> [world EXCEPT !.registered = e.ok]
    [] OTHER                       -> world

(* A status is written to the lock file and sent to the caller before the  *)
(* task answers.                                                           *)
Emitting(t) == t.effect.type \in {"EmitProgress", "ForwardStatus"}

RunTask(t) ==
  /\ \E a \in (IF t.left = <<>> THEN Answers(t.effect) ELSE {t.left}) :
       /\ queue' = Append(queue, Head(a))
       /\ tasks' = (tasks \ {t}) \cup
                     (IF Len(a) = 1 THEN {} ELSE {[t EXCEPT !.left = Tail(a)]})
       /\ world' = Done(Head(a))
  /\ sent' = IF Emitting(t) THEN [sent EXCEPT ![t.effect.target] = t.effect.status]
                            ELSE sent
  /\ UNCHANGED <<plan, state, returned, faults>>

Fault == faults < MaxFaults /\ faults' = faults + 1

(* The lock file cannot be written: nothing reaches the caller either.     *)
FailEmission(t) ==
  /\ t.effect.type = "EmitProgress"
  /\ Fault
  /\ queue' = Append(queue, Applied(t.effect.target, FALSE))
  /\ tasks' = tasks \ {t}
  /\ UNCHANGED <<plan, state, returned, sent, world>>

-----------------------------------------------------------------------------
(* Events.                                                                 *)

Become(s, others) ==
  /\ state' = [s EXCEPT !.effects = {}]
  /\ tasks' = others \cup {[effect |-> e, left |-> <<>>] : e \in s.effects}
  /\ UNCHANGED <<plan, returned, sent, world>>

Receive(type) ==
  /\ ~returned
  /\ queue # <<>>
  /\ Head(queue).type = type
  /\ queue' = Tail(queue)
  /\ UNCHANGED faults

RequestLockAcquired ==
  /\ Receive("RequestLockAcquired")
  /\ Become(Effect(state, [type |-> "PersistRequest"]), tasks)

(* Prepared and RequestFilePrepared: the plan file is snapshotted and read.*)
Prepared ==
  /\ Receive("Prepared")
  /\ Become(IF Head(queue).ok THEN Effect(state, [type |-> "AcquireInstall"])
                              ELSE FailCreate(state), tasks)

InstallAcquired ==
  LET cached == Head(queue).cached
      waited == Head(queue).waited
      held == [state EXCEPT !.prepared = TRUE, !.waited = waited]
      found == Enqueue(held, PlanKey, Cached("InstallShared"))
      wanted == Enqueue([held EXCEPT !.wanted = Keys], PlanKey, Started("InstallShared"))
      fetches == {[type |-> "Download", key |-> d] : d \in Keys}
  IN
  /\ Receive("InstallAcquired")
  /\ \/ /\ cached
        /\ Become(Effect(IF waited THEN held ELSE found, [type |-> "Register"]), tasks)
     \/ /\ ~cached
        /\ Become([wanted EXCEPT !.effects =
                     @ \cup fetches \cup {[type |-> "PrepareInstall"]}], tasks)

(* A temporary root that comes after a failure is left to gc.              *)
StagedMutant(s) == [s EXCEPT !.temporary = TRUE]  \* mutant: items not started
Staged(s) == Advance([s EXCEPT !.temporary = TRUE])

InstallPrepared ==
  /\ Receive("InstallPrepared")
  /\ Become(IF ~Head(queue).ok THEN FailCreate(state)
            ELSE IF state.result = "none" THEN Staged(state)
            ELSE state, tasks)

DownloadFinished ==
  LET d == Head(queue).key
      left == [state EXCEPT !.wanted = @ \ {d}] IN
  /\ Receive("DownloadFinished")
  /\ Become(IF state.downloadFailed \/ d \notin state.wanted THEN state
            ELSE IF Head(queue).ok THEN Advance([left EXCEPT !.completed = @ \cup {d}])
            ELSE FailCreate([left EXCEPT !.downloadFailed = TRUE]), tasks)

ItemFinished ==
  LET idle == [state EXCEPT !.itemRunning = FALSE] IN
  /\ Receive("ItemFinished")
  /\ Become(IF \/ state.result # "none" \/ ~state.itemRunning
               \/ Head(queue).index # state.next THEN state
            ELSE IF Head(queue).ok THEN Advance([idle EXCEPT !.next = @ + 1])
            ELSE FailCreate(idle), tasks)

(* A published installation is registered whatever failed meanwhile.       *)
Published ==
  /\ Receive("Published")
  /\ Become(IF Head(queue).ok
              THEN Effect(Enqueue(state, PlanKey, Completed), [type |-> "Register"])
              ELSE FailCreate(state), tasks)

Registered ==
  /\ Receive("Registered")
  /\ Become([state EXCEPT !.result =
               IF @ = "none" THEN (IF Head(queue).ok THEN "ok" ELSE "err") ELSE @], tasks)

ProgressEvent ==
  /\ Receive("Progress")
  /\ Become(Enqueue(state, Head(queue).target, Head(queue).event), tasks)

ObservedStatus ==
  /\ Receive("ObservedStatus")
  /\ Become(Enqueue(state, Head(queue).target, Observed(Head(queue).status)), tasks)

ProgressApplied ==
  LET t == Head(queue).target
      idle == [state EXCEPT !.busy = @ \ {t}] IN
  /\ Receive("ProgressApplied")
  /\ Become(Pump(IF Head(queue).ok THEN idle ELSE FailCreate(idle), t), tasks)

StatusForwarded ==
  LET t == Head(queue).target IN
  /\ Receive("StatusForwarded")
  /\ Become(Pump([state EXCEPT !.busy = @ \ {t}], t), tasks)

EffectFailed ==
  /\ Receive("EffectFailed")
  /\ Become(FailCreate(state), tasks)

(* A task that panics sends no more; joining it reports the failure.       *)
JoinPanic(t) ==
  /\ ~returned
  /\ Fault
  /\ UNCHANGED queue
  /\ Become(FailCreate(state), tasks \ {t})

(* The call returns once it has an outcome, its tasks have ended and their *)
(* events are handled; its locks go with its state.                        *)
OverMutant == state.result # "none"           \* mutant: tasks outlive the call
Over == state.result # "none" /\ tasks = {}

Return ==
  /\ Over
  /\ queue = <<>>
  /\ ~returned
  /\ returned' = TRUE
  /\ UNCHANGED <<plan, state, tasks, queue, sent, world, faults>>

Dispatch ==
  \/ RequestLockAcquired \/ Prepared \/ InstallAcquired \/ InstallPrepared
  \/ DownloadFinished \/ ItemFinished \/ Published \/ Registered
  \/ ProgressEvent \/ ObservedStatus \/ ProgressApplied \/ StatusForwarded
  \/ EffectFailed

Work == Dispatch \/ Return \/ \E t \in tasks : RunTask(t)

Quiet == returned /\ UNCHANGED vars

Next ==
  \/ Work
  \/ \E t \in tasks : FailEmission(t) \/ JoinPanic(t)
  \/ Quiet

(* The runtime keeps polling the call, and every effect ends: a transfer   *)
(* that never does, or a lock never given up, keeps the call waiting.      *)
Spec == Init /\ [][Next]_vars
FairSpec == Spec /\ WF_vars(Work)

-----------------------------------------------------------------------------
(* Properties.                                                             *)

TypeOK ==
  /\ plan \in Plans
  /\ state.prepared \in BOOLEAN /\ state.waited \in BOOLEAN
  /\ state.temporary \in BOOLEAN /\ state.downloadFailed \in BOOLEAN
  /\ state.itemRunning \in BOOLEAN /\ state.publishing \in BOOLEAN
  /\ state.wanted \subseteq Keys /\ state.completed \subseteq Keys
  /\ state.next \in 1..(Len(plan) + 1)
  /\ state.status \in [Target -> Status]
  /\ state.busy \subseteq Target
  /\ state.effects = {}
  /\ state.result \in {"none", "ok", "err"}
  /\ returned \in BOOLEAN
  /\ sent \in [Target -> Status]
  /\ world.fetched \subseteq Keys
  /\ faults \in 0..MaxFaults

(* Whatever order the tasks end in, the call's effects on the store follow *)
(* the plan, a call that returned Ok has registered, and nothing happens   *)
(* after it returned (advance_items, run_create).                          *)
Build == INSTANCE ImosBuild WITH
  items <- plan,
  fetched <- world.fetched, staged <- world.staged, executed <- world.executed,
  published <- world.published, registered <- world.registered,
  outcome <- IF returned THEN state.result ELSE "none"
ImplementsBuild == Build!Spec

(* As long as every status is written, the caller sees the statuses of a   *)
(* target in the order of its attempts, whoever held the lock before: once *)
(* it has seen one end, what this call reports next is a new attempt, never*)
(* more of the ended one (pump_progress, Event::reduce). When a status is  *)
(* lost the attempt after it may have the number of one seen of another    *)
(* holder.                                                                 *)
NoLateProgress ==
  [][faults = 0 =>
       \A t \in tasks : t.effect.type = "EmitProgress" /\ t \notin tasks' =>
         LET old == sent[t.effect.target]
             new == sent'[t.effect.target] IN
         old # new /\ old.st \in Terminal =>
           <<new.ty, new.tried>> # <<old.ty, old.tried>>]_vars

(* A call that returns has told its caller everything: no status is left   *)
(* in a queue, and the installation is reported ended as it was found      *)
(* (run_create waits for the emissions, fail_create reports the failure).  *)
Reported ==
  returned /\ faults = 0 =>
    /\ \A t \in Target : state.pending[t] = <<>> /\ sent[t] = state.status[t]
    /\ state.prepared /\ ~state.waited => sent[PlanKey].st \in Terminal
    /\ state.result = "ok" /\ ~state.waited => sent[PlanKey].st = "Completed"

(* Every call returns once its effects end, whatever fails and in whatever *)
(* order the answers come (advance_items is tried after each of them).     *)
CallReturns == <>returned

=============================================================================
