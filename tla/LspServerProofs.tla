-------------------------- MODULE LspServerProofs --------------------------
(* What a client may rely on of the language server, for every number of   *)
(* documents, edits and requests.                                          *)
EXTENDS LspServer, TLAPS

USE LspAssumption

-----------------------------------------------------------------------------
(* Types.                                                                  *)

LEMMA NoTaskType ==
  ASSUME NEW s \in {"none", "ended"}
  PROVE  NoTask(s) \in Task
BY DEF NoTask, Task, NoSnapshot, Texts, Revisions

LEMMA NoRequestType ==
  ASSUME NEW s \in {"none", "result", "cancelled", "modified"}
  PROVE  NoRequest(s) \in Request
<1>1. (CHOOSE i \in Ids : TRUE) \in Ids
  OBVIOUS
<1>2. NoSnapshot \in Snapshot
  BY DEF NoSnapshot, Snapshot, Texts, Revisions
<1> QED
  BY <1>1, <1>2 DEF NoRequest, Request, Revisions

LEMMA OverlayTextsType == TypeOK => OverlayTexts \in Texts
BY DEF TypeOK, OverlayTexts, Texts, Document

LEMMA InitType == Init => TypeOK
<1> SUFFICES ASSUME Init PROVE TypeOK
  OBVIOUS
<1>1. NoSnapshot \in Snapshot
  BY DEF NoSnapshot, Snapshot, Texts, Revisions
<1>2. Closed \in Document
  BY DEF Closed, Document, Versions, Revisions
<1>3. tasks \in [1 .. MaxEdits -> Task] /\ requests \in [Tokens -> Request]
  BY NoTaskType, NoRequestType DEF Init
<1> QED
  BY <1>1, <1>2, <1>3 DEF Init, TypeOK, Revisions, Versions, Shown

LEMMA ReviseType ==
  ASSUME TypeOK, clock < MaxEdits, NEW u \in Uris, NEW v \in Versions, Revise(u, v)
  PROVE  /\ clock' \in Revisions
         /\ overlays' \in [Files -> Document]
         /\ held' \in [Uris -> Document]
         /\ documents' \in [Uris -> Versions]
         /\ tasks' \in [1 .. MaxEdits -> Task]
<1> DEFINE document == [version |-> v, text |-> IF v = 0 THEN 0 ELSE clock']
<1>1. clock' = clock + 1 /\ clock' \in Revisions /\ clock' \in 1 .. MaxEdits
  BY DEF TypeOK, Revise, Revisions
<1>2. document \in Document
  BY <1>1 DEF Document, Revisions
<1>3. tasks' = [tasks EXCEPT ![clock'].state = "ready"]
  BY DEF Revise, Schedule
<1>4. tasks' \in [1 .. MaxEdits -> Task]
  <2>1. tasks \in [1 .. MaxEdits -> Task] /\ tasks[clock'] \in Task
    BY <1>1 DEF TypeOK
  <2>2. [tasks[clock'] EXCEPT !.state = "ready"] \in Task
    BY <2>1 DEF Task
  <2> QED
    BY <1>3, <2>1, <2>2
<1> QED
  BY <1>1, <1>2, <1>4 DEF TypeOK, Revise

LEMMA CancelAllType ==
  ASSUME TypeOK, CancelAll
  PROVE  requests' \in [Tokens -> Request] /\ pending' \in [Ids -> 0 .. MaxRequests]
<1>1. ASSUME NEW k \in Tokens
      PROVE  [requests[k] EXCEPT !.cancelled = TRUE] \in Request
  <2>1. requests[k] \in Request
    BY DEF TypeOK
  <2> QED
    BY <2>1, ZenonT(40) DEF Request
<1>2. requests' \in [Tokens -> Request]
  BY <1>1 DEF TypeOK, CancelAll
<1> QED
  BY <1>2 DEF CancelAll

LEMMA OutcomeType == ASSUME NEW k \in Tokens
                     PROVE  Outcome(k) \in {"result", "cancelled", "modified"}
BY DEF Outcome

LEMMA TaskStepType ==
  ASSUME TypeOK, NEW r \in 1 .. MaxEdits, TaskStep(r)
  PROVE  TypeOK'
<1>1. CASE StartTask(r)
  <2>1. tasks' \in [1 .. MaxEdits -> Task]
    <3>1. tasks[r] \in Task /\ clock \in Revisions
      BY DEF TypeOK
    <3>2. [tasks[r] EXCEPT !.state = "started", !.revision = clock] \in Task
      BY <3>1, ZenonT(40) DEF Task
    <3> QED
      BY <1>1, <3>2 DEF StartTask, TypeOK
  <2> QED
    BY <1>1, <2>1 DEF StartTask, TypeOK, server, workspace, client
<1>2. CASE CopyDocuments(r)
  <2>1. tasks' \in [1 .. MaxEdits -> Task]
    <3>1. tasks[r] \in Task /\ OverlayTexts \in Texts
      BY OverlayTextsType DEF TypeOK
    <3>2. [tasks[r] EXCEPT !.state = "copied", !.texts = OverlayTexts] \in Task
      BY <3>1, ZenonT(40) DEF Task
    <3> QED
      BY <1>2, <3>2 DEF CopyDocuments, TypeOK
  <2> QED
    BY <1>2, <2>1 DEF CopyDocuments, TypeOK, server, workspace, client
<1>3. EndTask(r) => tasks' \in [1 .. MaxEdits -> Task]
  BY NoTaskType DEF EndTask, TypeOK
<1>4. CASE StaleTask(r)
  BY <1>3, <1>4 DEF StaleTask, TypeOK, server, workspace, client
<1>5. CASE FailTask(r)
  <2>1. tasks[r].revision \in Revisions
    BY DEF TypeOK, Task
  <2> QED
    BY <1>3, <1>5, <2>1 DEF FailTask, TypeOK, server, workspace, client
<1>6. CASE PublishTask(r)
  <2>1. tasks[r].revision \in Revisions /\ tasks[r].texts \in Texts
    BY DEF TypeOK, Task
  <2>2. published' \in Snapshot
    BY <1>6, <2>1 DEF PublishTask, Snapshot
  <2>3. shown' \in [Uris -> Shown]
    BY <1>6, <2>1 DEF PublishTask, PublishDiagnostics, TypeOK, Shown, Texts
  <2> QED
    BY <1>3, <1>6, <2>2, <2>3 DEF PublishTask, TypeOK, server
<1> QED
  BY <1>1, <1>2, <1>4, <1>5, <1>6 DEF TaskStep

LEMMA NextType == TypeOK /\ [Next]_vars => TypeOK'
<1> SUFFICES ASSUME TypeOK, [Next]_vars PROVE TypeOK'
  OBVIOUS
<1>1. CASE \E f \in Roots : Initialize(f)
  BY <1>1 DEF Initialize, TypeOK, workspace, client
<1>2. CASE Initialized
  BY <1>2 DEF Initialized, TypeOK, workspace, client
<1>3. CASE Shutdown
  BY <1>3, CancelAllType DEF Shutdown, TypeOK, workspace, client
<1>4. CASE Exit
  BY <1>4, CancelAllType DEF Exit, TypeOK, workspace, client
<1>5. ASSUME NEW u \in Uris, DidOpen(u) PROVE TypeOK'
  <2>1. 1 \in Versions
    BY DEF Versions
  <2> QED
    BY <1>5, <2>1, ReviseType DEF DidOpen, TypeOK
<1>6. ASSUME NEW u \in Uris, NEW v \in Versions, DidChange(u, v) PROVE TypeOK'
  BY <1>6, ReviseType DEF DidChange, TypeOK
<1>7. ASSUME NEW u \in Uris, DidClose(u) PROVE TypeOK'
  <2>1. 0 \in Versions
    BY DEF Versions
  <2> QED
    BY <1>7, <2>1, ReviseType DEF DidClose, TypeOK
<1>8. ASSUME NEW u \in Uris, OpenRefused(u) \/ Panic(u) PROVE TypeOK'
  BY <1>8 DEF OpenRefused, Panic, TypeOK, server, workspace, client
<1>9. ASSUME NEW k \in Tokens, NEW i \in Ids, Receive(k, i) PROVE TypeOK'
  <2>1. requests' \in [Tokens -> Request]
    BY <1>9 DEF Receive, TypeOK, Request
  <2>2. pending' \in [Ids -> 0 .. MaxRequests]
    BY <1>9 DEF Receive, TypeOK, Tokens
  <2> QED
    BY <1>9, <2>1, <2>2 DEF Receive, TypeOK, workspace, client
<1>10. ASSUME NEW i \in Ids, Cancel(i) PROVE TypeOK'
  <2>1. requests' \in [Tokens -> Request]
    <3>1. \A k \in Tokens : [requests[k] EXCEPT !.cancelled = TRUE] \in Request
      <4> SUFFICES ASSUME NEW k \in Tokens
                   PROVE  [requests[k] EXCEPT !.cancelled = TRUE] \in Request
        OBVIOUS
      <4>1. requests[k] \in Request
        BY DEF TypeOK
      <4> QED
        BY <4>1, ZenonT(40) DEF Request
    <3> QED
      BY <1>10, <3>1 DEF Cancel, TypeOK
  <2> QED
    BY <1>10, <2>1 DEF Cancel, TypeOK, workspace, client
<1>11. ASSUME NEW k \in Tokens, Answer(k) PROVE TypeOK'
  <2>1. requests' \in [Tokens -> Request]
    BY <1>11, OutcomeType, NoRequestType DEF Answer, TypeOK
  <2>2. pending' \in [Ids -> 0 .. MaxRequests]
    <3>1. pending' = [pending EXCEPT ![requests[k].id] = 0]
      BY <1>11 DEF Answer, Unregistered
    <3>2. pending \in [Ids -> 0 .. MaxRequests] /\ 0 \in 0 .. MaxRequests
      BY DEF TypeOK
    <3> QED
      BY <3>1, <3>2
  <2> QED
    BY <1>11, <2>1, <2>2 DEF Answer, TypeOK, workspace, client
<1>12. CASE UNCHANGED vars
  BY <1>12 DEF vars, TypeOK, server, workspace, client
<1> QED
  BY <1>1, <1>2, <1>3, <1>4, <1>5, <1>6, <1>7, <1>8, <1>9, <1>10, <1>11, <1>12,
     TaskStepType DEF Next

(* Every variable keeps its type.                                          *)
THEOREM LspTypeCorrect == Spec => []TypeOK
BY InitType, NextType, PTL DEF Spec

-----------------------------------------------------------------------------
(* What a task, the published snapshot and a request know of the overlays: *)
(* nothing is labelled with a revision to come, and what is labelled with  *)
(* the current one is the overlays.                                        *)
Knows(revision, texts) ==
    revision <= clock /\ (revision = clock => texts = OverlayTexts)

TasksKnow ==
    \A r \in 1 .. MaxEdits :
      /\ tasks[r].state = "started" => tasks[r].revision <= clock
      /\ tasks[r].state = "copied" => Knows(tasks[r].revision, tasks[r].texts)

RequestsKnow ==
    \A k \in Tokens :
      Waiting(k) => Knows(requests[k].snapshot.revision, requests[k].snapshot.texts)

KInv == /\ TypeOK
        /\ Knows(published.revision, published.texts)
        /\ TasksKnow
        /\ RequestsKnow

LEMMA InitKInv == Init => KInv
<1> SUFFICES ASSUME Init PROVE KInv
  OBVIOUS
<1>1. Knows(published.revision, published.texts)
  BY DEF Init, Knows, NoSnapshot, OverlayTexts, Closed
<1>2. TasksKnow
  BY DEF Init, TasksKnow, NoTask
<1>3. RequestsKnow
  BY DEF Init, RequestsKnow, Waiting, NoRequest
<1> QED
  BY <1>1, <1>2, <1>3, InitType DEF KInv

(* A new revision: everything known is of an older one.                    *)
LEMMA ReviseKnows ==
  ASSUME KInv, clock < MaxEdits, NEW u \in Uris, NEW v \in Versions, Revise(u, v),
         published' = published, requests' = requests
  PROVE  (Knows(published.revision, published.texts) /\ TasksKnow /\ RequestsKnow)'
<1> USE DEF KInv
<1>1. clock' = clock + 1 /\ clock \in Nat /\ clock' \in 1 .. MaxEdits
  BY DEF Revise, TypeOK, Revisions
<1>2. published.revision \in Nat /\ published.revision < clock'
  BY <1>1 DEF Knows, TypeOK, Snapshot, Revisions
<1>3. ASSUME NEW r \in 1 .. MaxEdits
      PROVE  /\ tasks'[r].revision = tasks[r].revision
             /\ tasks'[r].state = tasks[r].state \/ tasks'[r].state = "ready"
  BY <1>1 DEF Revise, Schedule, TypeOK, Task
<1>4. ASSUME NEW r \in 1 .. MaxEdits, tasks'[r].state \in {"started", "copied"}
      PROVE  tasks'[r].revision < clock'
  <2>1. tasks[r].state \in {"started", "copied"} /\ tasks'[r].revision = tasks[r].revision
    BY <1>3, <1>4
  <2>2. tasks[r].revision <= clock
    BY <2>1 DEF TasksKnow, Knows
  <2>3. tasks[r].revision \in Nat
    <3>1. tasks[r] \in Task
      BY DEF TypeOK
    <3> QED
      BY <3>1 DEF Task, Revisions
  <2> QED
    BY <1>1, <2>1, <2>2, <2>3
<1>5. ASSUME NEW k \in Tokens, Waiting(k)
      PROVE  requests[k].snapshot.revision < clock'
  BY <1>1, <1>5 DEF RequestsKnow, Knows, TypeOK, Request, Snapshot, Revisions
<1>6. TasksKnow'
  <2> SUFFICES ASSUME NEW r \in 1 .. MaxEdits, tasks'[r].state \in {"started", "copied"}
               PROVE  /\ tasks'[r].revision <= clock'
                      /\ tasks'[r].revision # clock'
    BY DEF TasksKnow, Knows
  <2>1. tasks[r].revision \in Nat
    BY DEF TypeOK, Task, Revisions
  <2> QED
    BY <1>1, <1>3, <1>4, <2>1
<1>7. RequestsKnow'
  <2> SUFFICES ASSUME NEW k \in Tokens, Waiting(k)
               PROVE  /\ requests[k].snapshot.revision <= clock'
                      /\ requests[k].snapshot.revision # clock'
    BY DEF RequestsKnow, Knows, Waiting
  <2>1. requests[k].snapshot.revision \in Nat
    BY DEF TypeOK, Request, Snapshot, Revisions
  <2> QED
    BY <1>1, <1>5, <2>1
<1> QED
  BY <1>2, <1>1, <1>6, <1>7 DEF Knows

LEMMA TaskStepKnows ==
  ASSUME KInv, NEW r \in 1 .. MaxEdits, TaskStep(r)
  PROVE  (Knows(published.revision, published.texts) /\ TasksKnow /\ RequestsKnow)'
<1> USE DEF KInv
<1>1. /\ clock' = clock /\ overlays' = overlays /\ requests' = requests
      /\ OverlayTexts' = OverlayTexts
  BY DEF TaskStep, StartTask, CopyDocuments, StaleTask, FailTask, PublishTask,
         workspace, OverlayTexts
<1>2. RequestsKnow'
  BY <1>1 DEF RequestsKnow, Knows, Waiting
<1>3. \A q \in 1 .. MaxEdits \ {r} : tasks'[q] = tasks[q]
  BY DEF TaskStep, StartTask, CopyDocuments, StaleTask, FailTask, PublishTask,
         EndTask, TypeOK
<1>4. CASE StartTask(r)
  <2>1. tasks'[r].state = "started" /\ tasks'[r].revision = clock /\ published' = published
    BY <1>4 DEF StartTask, TypeOK, Task, workspace
  <2>2. TasksKnow'
    BY <1>1, <1>3, <2>1 DEF TasksKnow, Knows, TypeOK, Revisions
  <2> QED
    BY <1>1, <1>2, <2>1, <2>2 DEF Knows
<1>5. CASE CopyDocuments(r)
  <2>1. /\ tasks'[r].state = "copied" /\ tasks'[r].revision = clock
        /\ tasks'[r].texts = OverlayTexts /\ published' = published
    BY <1>5 DEF CopyDocuments, Fresh, TypeOK, Task, workspace
  <2>2. TasksKnow'
    BY <1>1, <1>3, <2>1 DEF TasksKnow, Knows, TypeOK, Revisions
  <2> QED
    BY <1>1, <1>2, <2>1, <2>2 DEF Knows
<1>6. CASE StaleTask(r) \/ FailTask(r) \/ PublishTask(r)
  <2>1. tasks'[r].state = "ended"
    BY <1>6 DEF StaleTask, FailTask, PublishTask, EndTask, NoTask, TypeOK
  <2>2. TasksKnow'
    BY <1>1, <1>3, <2>1 DEF TasksKnow, Knows
  <2>3. Knows(published'.revision, published'.texts)
    BY <1>6 DEF StaleTask, FailTask, PublishTask, workspace, TasksKnow
  <2> QED
    BY <1>1, <1>2, <2>2, <2>3 DEF Knows
<1> QED
  BY <1>4, <1>5, <1>6 DEF TaskStep

(* A step that keeps the workspace and the tasks, and whose waiting        *)
(* requests keep their snapshots or just took the published one.           *)
LEMMA RequestStepKnows ==
  ASSUME KInv, UNCHANGED <<workspace, tasks>>,
         \A k \in Tokens : requests'[k].state = "waiting" =>
           \/ Waiting(k) /\ requests'[k].snapshot = requests[k].snapshot
           \/ requests'[k].snapshot = published
  PROVE  (Knows(published.revision, published.texts) /\ TasksKnow /\ RequestsKnow)'
<1>1. OverlayTexts' = OverlayTexts /\ clock' = clock /\ published' = published
  BY DEF workspace, OverlayTexts
<1>2. TasksKnow'
  BY <1>1 DEF KInv, TasksKnow, Knows
<1>3. RequestsKnow'
  BY <1>1 DEF KInv, RequestsKnow, Knows, Waiting
<1> QED
  BY <1>1, <1>2, <1>3 DEF KInv, Knows

LEMMA NextKInv == KInv /\ [Next]_vars => KInv'
<1> SUFFICES ASSUME KInv, [Next]_vars
             PROVE  (Knows(published.revision, published.texts) /\ TasksKnow /\ RequestsKnow)'
  BY NextType DEF KInv
<1> USE DEF KInv
<1>1. CASE (\E f \in Roots : Initialize(f)) \/ Initialized
           \/ (\E u \in Uris : OpenRefused(u) \/ Panic(u)) \/ UNCHANGED vars
  <2>1. UNCHANGED <<workspace, tasks, requests>>
    BY <1>1 DEF Initialize, Initialized, OpenRefused, Panic, vars
  <2> QED
    BY <2>1, RequestStepKnows DEF Waiting
<1>2. CASE Shutdown \/ Exit
  <2>1. UNCHANGED <<workspace, tasks>> /\ CancelAll
    BY <1>2 DEF Shutdown, Exit
  <2>2. ASSUME NEW k \in Tokens
        PROVE  /\ requests'[k].state = requests[k].state
               /\ requests'[k].snapshot = requests[k].snapshot
    BY <2>1 DEF CancelAll, TypeOK, Request
  <2> QED
    BY <2>1, <2>2, RequestStepKnows DEF Waiting
<1>3. ASSUME NEW u \in Uris, DidOpen(u) \/ (\E v \in Versions : DidChange(u, v)) \/ DidClose(u)
      PROVE  (Knows(published.revision, published.texts) /\ TasksKnow /\ RequestsKnow)'
  <2>1. 0 \in Versions /\ 1 \in Versions
    BY DEF Versions
  <2>2. /\ clock < MaxEdits /\ published' = published /\ requests' = requests
        /\ \E v \in Versions : Revise(u, v)
    BY <1>3, <2>1 DEF DidOpen, DidChange, DidClose
  <2> QED
    BY <2>2, ReviseKnows
<1>4. ASSUME NEW k \in Tokens, NEW i \in Ids, Receive(k, i)
      PROVE  (Knows(published.revision, published.texts) /\ TasksKnow /\ RequestsKnow)'
  <2>1. UNCHANGED <<workspace, tasks>>
    BY <1>4 DEF Receive
  <2>2. requests'[k].snapshot = published /\ \A j \in Tokens \ {k} : requests'[j] = requests[j]
    BY <1>4 DEF Receive, TypeOK
  <2> QED
    BY <2>1, <2>2, RequestStepKnows DEF Waiting
<1>5. ASSUME NEW i \in Ids, Cancel(i)
      PROVE  (Knows(published.revision, published.texts) /\ TasksKnow /\ RequestsKnow)'
  <2>1. UNCHANGED <<workspace, tasks>>
    BY <1>5 DEF Cancel
  <2>2. ASSUME NEW k \in Tokens
        PROVE  /\ requests'[k].state = requests[k].state
               /\ requests'[k].snapshot = requests[k].snapshot
    BY <1>5 DEF Cancel, TypeOK, Request
  <2> QED
    BY <2>1, <2>2, RequestStepKnows DEF Waiting
<1>6. ASSUME NEW k \in Tokens, Answer(k)
      PROVE  (Knows(published.revision, published.texts) /\ TasksKnow /\ RequestsKnow)'
  <2>1. UNCHANGED <<workspace, tasks>>
    BY <1>6 DEF Answer
  <2>2. requests'[k].state # "waiting"
    BY <1>6, OutcomeType DEF Answer, NoRequest, TypeOK
  <2>3. \A j \in Tokens \ {k} : requests'[j] = requests[j]
    BY <1>6 DEF Answer, TypeOK
  <2> QED
    BY <2>1, <2>2, <2>3, RequestStepKnows DEF Waiting
<1> QED
  BY <1>1, <1>2, <1>3, <1>4, <1>5, <1>6, TaskStepKnows DEF Next

THEOREM LspKnows == Spec => []KInv
BY InitKInv, NextKInv, PTL DEF Spec

(* The published snapshot of the current revision is of the overlays as    *)
(* they are, however edits and rebuilds interleave: the revision clock is  *)
(* enough of a lock between copying the documents and publishing.          *)
THEOREM LspPublishedWhole == Spec => []PublishedWhole
<1>1. KInv => PublishedWhole
  BY DEF KInv, Knows, PublishedWhole
<1> QED
  BY <1>1, LspKnows, PTL

(* Only an answer makes a request one with a result, from a snapshot of    *)
(* the current revision and for a request nobody cancelled.                *)
LEMMA ResultAnswered ==
  ASSUME TypeOK, [Next]_vars, NEW k \in Tokens,
         requests[k].state # "result", requests'[k].state = "result"
  PROVE  /\ Answer(k) /\ ~requests[k].cancelled
         /\ requests[k].snapshot.revision = clock
<1>1. CASE UNCHANGED requests
  BY <1>1
<1>2. CASE CancelAll
  BY <1>2 DEF CancelAll, TypeOK, Request
<1>3. ASSUME NEW j \in Tokens, NEW i \in Ids, Receive(j, i) PROVE FALSE
  BY <1>3 DEF Receive, TypeOK
<1>4. ASSUME NEW i \in Ids, Cancel(i) PROVE FALSE
  BY <1>4 DEF Cancel, TypeOK, Request
<1>5. ASSUME NEW j \in Tokens, Answer(j)
      PROVE  /\ j = k /\ ~requests[k].cancelled
             /\ requests[k].snapshot.revision = clock
  <2>1. j = k /\ Outcome(k) = "result"
    BY <1>5 DEF Answer, TypeOK, NoRequest
  <2> QED
    BY <2>1 DEF Outcome
<1>6. UNCHANGED requests \/ CancelAll
      \/ (\E i \in Ids : Cancel(i) \/ \E j \in Tokens : Receive(j, i))
      \/ \E j \in Tokens : Answer(j)
  BY DEF Next, Initialize, Initialized, Shutdown, Exit, DidOpen, DidChange, DidClose,
     OpenRefused, Panic, TaskStep, StartTask, CopyDocuments, StaleTask, FailTask,
     PublishTask, vars
<1> QED
  BY <1>1, <1>2, <1>3, <1>4, <1>5, <1>6

-----------------------------------------------------------------------------
(* The registry of tokens.                                                 *)

(* A careful client and the registry: unanswered requests have ids of their*)
(* own, and no token is registered but while the server runs.              *)
RInv == /\ TypeOK
        /\ TokensOwned
        /\ ActiveIdsDistinct
        /\ \A i \in Ids : pending[i] # 0 => lifecycle \in {"Running", "Panicked"}

LEMMA InitRInv == Init => RInv
<1> SUFFICES ASSUME Init PROVE RInv
  OBVIOUS
<1>1. TokensOwned /\ ActiveIdsDistinct
  BY DEF Init, TokensOwned, ActiveIdsDistinct, Waiting, NoRequest
<1> QED
  BY <1>1, InitType DEF RInv, Init

LEMMA CancelAllRegistry ==
  ASSUME RInv, CancelAll
  PROVE  (TokensOwned /\ ActiveIdsDistinct)' /\ \A i \in Ids : pending'[i] = 0
<1> USE DEF RInv
<1>1. \A i \in Ids : pending'[i] = 0
  BY DEF CancelAll
<1>2. ASSUME NEW k \in Tokens
      PROVE  /\ requests'[k].state = requests[k].state
             /\ requests'[k].id = requests[k].id
             /\ Waiting(k) => requests'[k].cancelled
  <2>1. requests[k] \in Request
    BY DEF TypeOK
  <2>2. requests[k].id \in Ids
    BY <2>1 DEF Request
  <2>3. CASE \E i \in Ids : pending[i] = k
    BY <2>1, <2>3 DEF CancelAll, Request
  <2>4. CASE ~ \E i \in Ids : pending[i] = k
    BY <2>1, <2>2, <2>4 DEF CancelAll, TokensOwned, Request
  <2> QED
    BY <2>3, <2>4
<1>3. TokensOwned'
  BY <1>1, <1>2 DEF TokensOwned, Waiting
<1>4. ActiveIdsDistinct'
  BY <1>2 DEF ActiveIdsDistinct, Waiting
<1> QED
  BY <1>1, <1>3, <1>4

LEMMA ReceiveRegistry ==
  ASSUME RInv, Careful, NEW k \in Tokens, NEW i \in Ids, Receive(k, i)
  PROVE  (TokensOwned /\ ActiveIdsDistinct)'
<1> USE DEF RInv
<1>1. /\ requests'[k].state = "waiting" /\ requests'[k].id = i
      /\ ~requests'[k].cancelled
      /\ \A j \in Tokens \ {k} : requests'[j] = requests[j]
      /\ pending'[i] = k /\ \A h \in Ids \ {i} : pending'[h] = pending[h]
  BY DEF Receive, TypeOK
<1>2. ~Waiting(k) /\ pending[i] = 0 /\ \A j \in Tokens : Waiting(j) => requests[j].id # i
  BY DEF Receive, Waiting
<1>3. k # 0 /\ \A h \in Ids : pending[h] # 0 => pending[h] \in Tokens
  BY DEF TypeOK, Tokens
<1>4. TokensOwned'
  <2>1. ASSUME NEW h \in Ids, pending'[h] # 0
        PROVE  /\ requests'[pending'[h]].state = "waiting"
               /\ requests'[pending'[h]].id = h /\ ~requests'[pending'[h]].cancelled
    BY <1>1, <1>2, <1>3, <2>1 DEF TokensOwned, Waiting
  <2>2. ASSUME NEW j \in Tokens, requests'[j].state = "waiting", ~requests'[j].cancelled
        PROVE  pending'[requests'[j].id] = j
    <3>1. CASE j = k
      BY <1>1, <3>1
    <3>2. CASE j # k
      <4>1. requests[j].id \in Ids
        BY DEF TypeOK, Request
      <4> QED
        BY <1>1, <1>2, <2>2, <3>2, <4>1 DEF TokensOwned, Waiting
    <3> QED
      BY <3>1, <3>2
  <2> QED
    BY <2>1, <2>2 DEF TokensOwned, Waiting
<1>5. ActiveIdsDistinct'
  BY <1>1, <1>2 DEF ActiveIdsDistinct, Waiting
<1> QED
  BY <1>4, <1>5

LEMMA CancelRegistry ==
  ASSUME RInv, NEW i \in Ids, Cancel(i)
  PROVE  (TokensOwned /\ ActiveIdsDistinct)'
<1> USE DEF RInv
<1>1. /\ pending[i] \in Tokens /\ Waiting(pending[i]) /\ requests[pending[i]].id = i
  BY DEF Cancel, TypeOK, TokensOwned, Tokens
<1>2. pending'[i] = 0 /\ \A h \in Ids \ {i} : pending'[h] = pending[h]
  BY DEF Cancel, TypeOK
<1>3. /\ \A j \in Tokens \ {pending[i]} : requests'[j] = requests[j]
      /\ requests'[pending[i]].cancelled
      /\ requests'[pending[i]].state = requests[pending[i]].state
      /\ requests'[pending[i]].id = i
  BY <1>1 DEF Cancel, TypeOK, Request
<1>4. \A j \in Tokens : requests[j].id \in Ids
  BY DEF TypeOK, Request
<1>5. TokensOwned'
  <2>1. ASSUME NEW h \in Ids, pending'[h] # 0
        PROVE  /\ requests'[pending'[h]].state = "waiting"
               /\ requests'[pending'[h]].id = h /\ ~requests'[pending'[h]].cancelled
    <3>1. h # i /\ pending'[h] = pending[h] /\ pending[h] \in Tokens
      BY <1>2, <2>1 DEF TypeOK, Tokens
    <3>2. Waiting(pending[h]) /\ requests[pending[h]].id = h /\ ~requests[pending[h]].cancelled
      BY <2>1, <3>1 DEF TokensOwned
    <3> QED
      BY <1>1, <1>3, <3>1, <3>2 DEF Waiting
  <2>2. ASSUME NEW j \in Tokens, requests'[j].state = "waiting", ~requests'[j].cancelled
        PROVE  pending'[requests'[j].id] = j
    <3>1. j # pending[i] /\ requests'[j] = requests[j]
      BY <1>3, <2>2
    <3>2. pending[requests[j].id] = j
      BY <2>2, <3>1 DEF TokensOwned, Waiting
    <3> QED
      BY <1>2, <1>4, <3>1, <3>2
  <2> QED
    BY <2>1, <2>2 DEF TokensOwned, Waiting
<1>6. ActiveIdsDistinct'
  BY <1>1, <1>3 DEF ActiveIdsDistinct, Waiting
<1> QED
  BY <1>5, <1>6

LEMMA AnswerRegistry ==
  ASSUME RInv, NEW k \in Tokens, Answer(k)
  PROVE  (TokensOwned /\ ActiveIdsDistinct)'
<1> USE DEF RInv
<1>1. Waiting(k) /\ requests'[k].state # "waiting"
      /\ \A j \in Tokens \ {k} : requests'[j] = requests[j]
  BY OutcomeType DEF Answer, NoRequest, TypeOK
<1>2. \A j \in Tokens : requests[j].id \in Ids
  BY DEF TypeOK, Request
<1>3. /\ pending'[requests[k].id] = 0
      /\ \A h \in Ids \ {requests[k].id} : pending'[h] = pending[h]
  <2>1. pending' = [pending EXCEPT ![requests[k].id] = 0]
    BY DEF Answer, Unregistered
  <2> QED
    BY <1>2, <2>1 DEF TypeOK
<1>4. TokensOwned'
  <2>1. ASSUME NEW h \in Ids, pending'[h] # 0
        PROVE  /\ requests'[pending'[h]].state = "waiting"
               /\ requests'[pending'[h]].id = h /\ ~requests'[pending'[h]].cancelled
    <3>1. h # requests[k].id /\ pending'[h] = pending[h] /\ pending[h] \in Tokens
      BY <1>3, <2>1 DEF TypeOK, Tokens
    <3>2. Waiting(pending[h]) /\ requests[pending[h]].id = h /\ ~requests[pending[h]].cancelled
      BY <2>1, <3>1 DEF TokensOwned
    <3> QED
      BY <1>1, <3>1, <3>2 DEF Waiting
  <2>2. ASSUME NEW j \in Tokens, requests'[j].state = "waiting", ~requests'[j].cancelled
        PROVE  pending'[requests'[j].id] = j
    <3>1. j # k /\ requests'[j] = requests[j]
      BY <1>1, <2>2
    <3>2. pending[requests[j].id] = j /\ requests[j].id # requests[k].id
      BY <1>1, <2>2, <3>1 DEF TokensOwned, Waiting, ActiveIdsDistinct
    <3> QED
      BY <1>2, <1>3, <3>1, <3>2
  <2> QED
    BY <2>1, <2>2 DEF TokensOwned, Waiting
<1>5. ActiveIdsDistinct'
  BY <1>1 DEF ActiveIdsDistinct, Waiting
<1> QED
  BY <1>4, <1>5

LEMMA NextRInv == Careful /\ RInv /\ [Next]_vars => RInv'
<1> SUFFICES ASSUME Careful, RInv, [Next]_vars PROVE RInv'
  OBVIOUS
<1> DEFINE Kept == (TokensOwned /\ ActiveIdsDistinct)'
           Alone == \A i \in Ids : pending'[i] # 0 => lifecycle' \in {"Running", "Panicked"}
<1>1. TypeOK'
  BY NextType DEF RInv
<1>2. CASE UNCHANGED <<requests, pending>> /\ lifecycle' \in {lifecycle, "Running", "Panicked"}
  <2>1. Kept
    BY <1>2 DEF RInv, TokensOwned, ActiveIdsDistinct, Waiting
  <2> QED
    BY <1>1, <1>2, <2>1 DEF RInv
<1>3. CASE Shutdown \/ Exit
  <2>1. Kept /\ Alone
    BY <1>3, CancelAllRegistry DEF Shutdown, Exit
  <2> QED
    BY <1>1, <2>1 DEF RInv
<1>4. ASSUME NEW k \in Tokens, NEW i \in Ids, Receive(k, i) PROVE RInv'
  <2>1. Alone
    BY <1>4 DEF Receive, Running
  <2> QED
    BY <1>1, <1>4, <2>1, ReceiveRegistry DEF RInv
<1>5. ASSUME NEW i \in Ids, Cancel(i) PROVE RInv'
  <2>1. Alone
    BY <1>5 DEF RInv, Cancel, TypeOK
  <2> QED
    BY <1>1, <1>5, <2>1, CancelRegistry DEF RInv
<1>6. ASSUME NEW k \in Tokens, Answer(k) PROVE RInv'
  <2>1. pending' = [pending EXCEPT ![requests[k].id] = 0] /\ lifecycle' = lifecycle
    BY <1>6 DEF Answer, Unregistered
  <2>2. Alone
    BY <2>1 DEF RInv, TypeOK
  <2> QED
    BY <1>1, <1>6, <2>2, AnswerRegistry DEF RInv
<1>7. CASE \E f \in Roots : Initialize(f)
  <2>1. UNCHANGED <<requests, pending>> /\ \A i \in Ids : pending[i] = 0
    BY <1>7 DEF Initialize, RInv
  <2>2. Kept /\ Alone
    BY <2>1 DEF RInv, TokensOwned, ActiveIdsDistinct, Waiting
  <2> QED
    BY <1>1, <2>2 DEF RInv
<1>8. CASE Initialized \/ (\E u \in Uris : OpenRefused(u) \/ Panic(u) \/ DidOpen(u) \/ DidClose(u)
                             \/ \E v \in Versions : DidChange(u, v))
           \/ (\E r \in 1 .. MaxEdits : TaskStep(r)) \/ UNCHANGED vars
  <2>1. UNCHANGED <<requests, pending>> /\ lifecycle' \in {lifecycle, "Running", "Panicked"}
    BY <1>8 DEF Initialized, OpenRefused, Panic, DidOpen, DidClose, DidChange, TaskStep,
       StartTask, CopyDocuments, StaleTask, FailTask, PublishTask, server, vars
  <2> QED
    BY <1>2, <2>1
<1> QED
  BY <1>3, <1>4, <1>5, <1>6, <1>7, <1>8 DEF Next

(* With a client that keeps the ids of its unanswered requests distinct,   *)
(* every registered token is the one of the unanswered request with that   *)
(* id, and every request that was not cancelled can still be.              *)
THEOREM LspTokensOwned == ASSUME Careful PROVE Spec => []TokensOwned
<1>1. Init => RInv
  BY InitRInv
<1>2. RInv /\ [Next]_vars => RInv'
  BY NextRInv
<1>3. RInv => TokensOwned
  BY DEF RInv
<1> QED
  BY <1>1, <1>2, <1>3, PTL DEF Spec

(* And a result is sent only while the server runs, for a request that was *)
(* not cancelled, from the texts of that moment.                           *)
THEOREM LspAnswersCurrent == ASSUME Careful PROVE Spec => AnswersCurrent
<1> DEFINE P == \A k \in Tokens :
         requests[k].state # "result" /\ requests'[k].state = "result"
           => /\ requests[k].snapshot.texts = OverlayTexts
              /\ Running
              /\ pending[requests[k].id] = k
<1>1. RInv /\ KInv /\ [Next]_vars => [P]_vars
  <2> SUFFICES ASSUME RInv, KInv, [Next]_vars, NEW k \in Tokens,
                      requests[k].state # "result", requests'[k].state = "result"
               PROVE  /\ requests[k].snapshot.texts = OverlayTexts
                      /\ Running
                      /\ pending[requests[k].id] = k
    OBVIOUS
  <2>1. /\ Answer(k) /\ ~requests[k].cancelled
        /\ requests[k].snapshot.revision = clock
    BY ResultAnswered DEF KInv
  <2>2. requests[k].snapshot.texts = OverlayTexts
    BY <2>1 DEF KInv, RequestsKnow, Knows, Answer
  <2>3. pending[requests[k].id] = k /\ requests[k].id \in Ids
    BY <2>1 DEF RInv, TokensOwned, Answer, TypeOK, Request
  <2>4. Running
    BY <2>1, <2>3 DEF RInv, Answer, Alive, Running, Tokens
  <2> QED
    BY <2>2, <2>3, <2>4
<1>2. Init => RInv
  BY InitRInv
<1>3. RInv /\ [Next]_vars => RInv'
  BY NextRInv
<1> QED
  BY <1>1, <1>2, <1>3, LspKnows, PTL DEF Spec, AnswersCurrent

-----------------------------------------------------------------------------
(* Diagnostics.                                                            *)

(* Two paths never name one file.                                          *)
NoAliases == \A u, v \in Uris : FileOf[u] = FileOf[v] => u = v

(* What the client holds of an open document is its overlay, under the     *)
(* version the server has for the path.                                    *)
DocumentsHeld ==
    \A u \in Uris :
      /\ held[u].version = documents[u]
      /\ documents[u] # 0 => held[u] = overlays[FileOf[u]]

LEMMA InitHeld == Init => DocumentsHeld
BY DEF Init, DocumentsHeld, Closed

LEMMA ReviseHeld ==
  ASSUME TypeOK, DocumentsHeld, NoAliases, NEW u \in Uris, NEW n \in Versions, Revise(u, n)
  PROVE  DocumentsHeld'
<1> DEFINE document == [version |-> n, text |-> IF n = 0 THEN 0 ELSE clock']
<1>1. /\ overlays' = [overlays EXCEPT ![FileOf[u]] = document]
      /\ held' = [held EXCEPT ![u] = document]
      /\ documents' = [documents EXCEPT ![u] = n]
  BY DEF Revise
<1>2. document.version = n
  OBVIOUS
<1>3. held'[u] = document /\ documents'[u] = n /\ overlays'[FileOf[u]] = document
  BY <1>1 DEF TypeOK
<1>4. ASSUME NEW v \in Uris \ {u}
      PROVE  /\ held'[v] = held[v] /\ documents'[v] = documents[v]
             /\ overlays'[FileOf[v]] = overlays[FileOf[v]]
  <2>1. FileOf[v] # FileOf[u] /\ FileOf[v] \in Files
    BY DEF NoAliases
  <2> QED
    BY <1>1, <2>1 DEF TypeOK
<1> HIDE DEF document
<1> QED
  BY <1>2, <1>3, <1>4 DEF DocumentsHeld

LEMMA NextHeld == NoAliases /\ TypeOK /\ DocumentsHeld /\ [Next]_vars => DocumentsHeld'
<1> SUFFICES ASSUME NoAliases, TypeOK, DocumentsHeld, [Next]_vars PROVE DocumentsHeld'
  OBVIOUS
<1>1. CASE UNCHANGED <<overlays, documents, held>>
  BY <1>1 DEF DocumentsHeld
<1>2. ASSUME NEW u \in Uris, NEW n \in Versions, Revise(u, n) PROVE DocumentsHeld'
  BY <1>2, ReviseHeld
<1>3. \/ UNCHANGED <<overlays, documents, held>>
      \/ \E u \in Uris : \E n \in Versions : Revise(u, n)
  <2>1. 0 \in Versions /\ 1 \in Versions
    BY DEF Versions
  <2> QED
    BY <2>1 DEF Next, Initialize, Initialized, Shutdown, Exit, DidOpen, DidChange, DidClose,
       OpenRefused, Panic, TaskStep, StartTask, CopyDocuments, StaleTask, FailTask,
       PublishTask, Receive, Cancel, Answer, vars, server, workspace, client
<1> QED
  BY <1>1, <1>2, <1>3

(* When no two paths name one file, the diagnostics a client is sent for a *)
(* document are computed from the very text it holds then, and carry its   *)
(* version, whatever edits raced the rebuild.                              *)
THEOREM LspDiagnosticsPaired == ASSUME NoAliases PROVE Spec => DiagnosticsPaired
<1> DEFINE P == \A u \in Uris : shown'[u] # shown[u] => shown'[u] = held[u]
<1>1. KInv /\ DocumentsHeld /\ [Next]_vars => [P]_vars
  <2> SUFFICES ASSUME KInv, DocumentsHeld, Next, NEW u \in Uris, shown'[u] # shown[u]
               PROVE  shown'[u] = held[u]
    BY DEF vars, client
  <2>1. PICK r \in 1 .. MaxEdits : PublishTask(r)
    BY DEF Next, Initialize, Initialized, Shutdown, Exit, DidOpen, DidChange, DidClose,
       OpenRefused, Panic, TaskStep, StartTask, CopyDocuments, StaleTask, FailTask,
       Receive, Cancel, Answer, client
  <2>2. tasks[r].texts = OverlayTexts
    BY <2>1 DEF PublishTask, Fresh, KInv, TasksKnow, Knows
  <2>3. documents[u] # 0 /\ shown'[u] = [version |-> documents[u],
                                         text |-> OverlayTexts[FileOf[u]]]
    BY <2>1, <2>2 DEF PublishTask, PublishDiagnostics
  <2>4. /\ held[u] \in Document /\ held[u] = overlays[FileOf[u]]
        /\ held[u].version = documents[u]
    BY <2>3 DEF DocumentsHeld, KInv, TypeOK
  <2>5. OverlayTexts[FileOf[u]] = held[u].text
    BY <2>4 DEF OverlayTexts
  <2> QED
    BY <2>3, <2>4, <2>5 DEF Document
<1>2. Init => DocumentsHeld
  BY InitHeld
<1>3. KInv /\ DocumentsHeld /\ [Next]_vars => DocumentsHeld'
  BY NextHeld DEF KInv
<1> QED
  BY <1>1, <1>2, <1>3, LspKnows, PTL DEF Spec, DiagnosticsPaired

=============================================================================
