----------------------------- MODULE LspServer -----------------------------
(* The language server (crates/telora/src/lsp.rs) with its workspace       *)
(* (mir_workspace.rs) and the revision clock and cancellation tokens of    *)
(* telora-core/src/query.rs.                                               *)
(*                                                                         *)
(* One thread runs the transport, the requests and the rebuild tasks: an   *)
(* action is what runs between two awaits.  Notifications are handled      *)
(* whole; a request and a rebuild yield at every checkpoint, and an edit,  *)
(* a cancellation or the shutdown may come in between.                     *)
(*                                                                         *)
(* A text is named by the revision that wrote it, and 0 is the text on     *)
(* disk.  Every file here is a source of the module graph, so that the     *)
(* snapshot has it whether it is open or not.                              *)
EXTENDS Integers, FiniteSets

CONSTANTS
    Uris,         \* the paths the client names documents by
    Files,        \* the canonical paths
    FileOf,       \* the canonical path of each
    Ids,          \* JSON-RPC request ids
    NoFile,       \* a root that is a directory: no workspace yet
    Roots,        \* the roots the client may name
    MayRefuse,    \* paths that may fail to canonicalize when opened
    Careful,      \* the client never repeats the id of an unanswered request
    MaxEdits,     \* bound on the revisions
    MaxVersion,   \* bound on the versions of a document
    MaxRequests,  \* bound on the requests
    MaxFailures   \* bound on the rebuilds the inventory fails

ASSUME LspAssumption ==
    /\ FileOf \in [Uris -> Files]
    /\ NoFile \notin Files
    /\ Ids # {}
    /\ Roots \subseteq Files \cup {NoFile}
    /\ MayRefuse \subseteq Uris
    /\ Careful \in BOOLEAN
    /\ {MaxEdits, MaxVersion, MaxRequests, MaxFailures} \subseteq Nat
    /\ MaxVersion >= 1

VARIABLES
    lifecycle,  \* State.lifecycle, or how the process ended
    root,       \* State.workspace: the file it was created for
    clock,      \* RevisionClock
    overlays,   \* Workspace documents: the version and text of each open file
    published,  \* the snapshot a request is answered from
    documents,  \* State.documents: the version of each open path, or 0
    tasks,      \* the rebuild each revision scheduled
    failed,     \* the revisions a rebuild of which failed
    requests,   \* the semantic requests, by token
    pending,    \* State.pending: the token of each id, or 0
    held,       \* the client: the document it last had accepted
    refused,    \* the client: the documents the server did not open
    shown       \* the client: the diagnostics it has

server == <<lifecycle, root, documents, pending>>
workspace == <<clock, overlays, published>>
client == <<held, refused, shown>>
vars == <<server, workspace, tasks, failed, requests, client>>

Revisions == 0 .. MaxEdits
Versions == 0 .. MaxVersion
Tokens == 1 .. MaxRequests

Document == [version : Versions, text : Revisions]
Closed == [version |-> 0, text |-> 0]

Texts == [Files -> Revisions]
Snapshot == [revision : Revisions, texts : Texts]

(* Revision 0 stands for "no snapshot": the first open makes revision 1.   *)
NoSnapshot == [revision |-> 0, texts |-> [f \in Files |-> 0]]

(* A rebuild: not scheduled; scheduled and not polled; awaiting its first  *)
(* checkpoint; past the copy of the documents; ended.                      *)
Task == [state : {"none", "ready", "started", "copied", "ended"},
         revision : Revisions, texts : Texts]

NoTask(state) == [state |-> state, revision |-> 0, texts |-> NoSnapshot.texts]

(* A request: not received; awaiting its checkpoint; and its answer.       *)
Request == [state : {"none", "waiting", "result", "cancelled", "modified"},
            id : Ids, cancelled : BOOLEAN, revision : Revisions,
            snapshot : Snapshot]

NoRequest(state) ==
    [state |-> state, id |-> CHOOSE i \in Ids : TRUE, cancelled |-> FALSE,
     revision |-> 0, snapshot |-> NoSnapshot]

Shown == [version : Versions, text : Revisions]

(* The overlays the workspace would be solved with now.                    *)
OverlayTexts == [f \in Files |-> overlays[f].text]

Open(f) == overlays[f].version # 0
Running == lifecycle = "Running"
Alive == lifecycle \notin {"Exited", "Panicked"}
Waiting(k) == requests[k].state = "waiting"

Init ==
    /\ lifecycle = "Uninitialized"
    /\ root = NoFile
    /\ clock = 0
    /\ overlays = [f \in Files |-> Closed]
    /\ published = NoSnapshot
    /\ documents = [u \in Uris |-> 0]
    /\ tasks = [r \in 1 .. MaxEdits |-> NoTask("none")]
    /\ failed = {}
    /\ requests = [k \in Tokens |-> NoRequest("none")]
    /\ pending = [i \in Ids |-> 0]
    /\ held = [u \in Uris |-> Closed]
    /\ refused = {}
    /\ shown = [u \in Uris |-> [version |-> 0, text |-> 0]]

-----------------------------------------------------------------------------
(* Lifecycle.                                                              *)

(* A root that is a file gets its workspace now, a directory none.  An     *)
(* initialize that fails leaves the server uninitialized.                  *)
Initialize(f) ==
    /\ lifecycle = "Uninitialized"
    /\ lifecycle' = "AwaitingInitialized"
    /\ root' = f
    /\ UNCHANGED <<documents, pending, workspace, tasks, failed, requests, client>>

Initialized ==
    /\ lifecycle = "AwaitingInitialized"
    /\ lifecycle' = "Running"
    /\ UNCHANGED <<root, documents, pending, workspace, tasks, failed, requests, client>>

CancelAll ==
    /\ requests' = [k \in Tokens |->
                      IF \E i \in Ids : pending[i] = k
                        THEN [requests[k] EXCEPT !.cancelled = TRUE]
                        ELSE requests[k]]
    /\ pending' = [i \in Ids |-> 0]

Shutdown ==
    /\ Running
    /\ lifecycle' = "Shutdown"
    /\ CancelAll
    /\ UNCHANGED <<root, documents, workspace, tasks, failed, client>>

(* The exit notification, or the end of the transport that drops Server.   *)
Exit ==
    /\ Alive
    /\ lifecycle' = "Exited"
    /\ CancelAll
    /\ UNCHANGED <<root, documents, workspace, tasks, failed, client>>

-----------------------------------------------------------------------------
(* Documents.                                                              *)

(* schedule_rebuild: the task of the revision that was just made.          *)
ScheduleMutant(r) ==                  \* mutant: not while another one runs
    tasks' = IF \E q \in 1 .. MaxEdits : tasks[q].state \in {"started", "copied"}
               THEN tasks ELSE [tasks EXCEPT ![r].state = "ready"]

Schedule(r) ==
    tasks' = [tasks EXCEPT ![r].state = "ready"]

(* Workspace open, change and close with what the handlers do around them: *)
(* the overlay of the file, the version of the path, a revision, a rebuild.*)
ReviseMutant(u, version) ==           \* mutant: a close advances no clock
    /\ clock' = IF version = 0 THEN clock ELSE clock + 1
    /\ LET document == [version |-> version, text |-> IF version = 0 THEN 0 ELSE clock']
       IN  /\ overlays' = [overlays EXCEPT ![FileOf[u]] = document]
           /\ held' = [held EXCEPT ![u] = document]
    /\ documents' = [documents EXCEPT ![u] = version]
    /\ Schedule(clock')

Revise(u, version) ==
    /\ clock' = clock + 1
    /\ LET document == [version |-> version, text |-> IF version = 0 THEN 0 ELSE clock']
       IN  /\ overlays' = [overlays EXCEPT ![FileOf[u]] = document]
           /\ held' = [held EXCEPT ![u] = document]
    /\ documents' = [documents EXCEPT ![u] = version]
    /\ Schedule(clock')

(* Versions are compared within one opening only: every opening starts at 1,*)
(* below the last version of the one before.                               *)
DidOpen(u) ==
    /\ Running /\ clock < MaxEdits
    /\ documents[u] = 0 /\ u \notin refused
    /\ root' = IF root = NoFile THEN FileOf[u] ELSE root
    /\ Revise(u, 1)
    /\ UNCHANGED <<lifecycle, pending, published, failed, requests, refused, shown>>

(* The path does not canonicalize: the error is logged and the client goes *)
(* on as if the document were open.                                        *)
OpenRefused(u) ==
    /\ Running
    /\ u \in MayRefuse /\ documents[u] = 0 /\ u \notin refused
    /\ refused' = refused \cup {u}
    /\ UNCHANGED <<server, workspace, tasks, failed, requests, held, shown>>

(* A change that is not newer than the open version, or whose edits do not *)
(* fit the text, changes nothing.                                          *)
DidChange(u, version) ==
    /\ Running /\ clock < MaxEdits
    /\ documents[u] # 0 /\ root # NoFile
    /\ Open(FileOf[u]) /\ version > overlays[FileOf[u]].version
    /\ Revise(u, version)
    /\ UNCHANGED <<lifecycle, root, pending, published, failed, requests, refused, shown>>

DidClose(u) ==
    /\ Running /\ clock < MaxEdits
    /\ documents[u] # 0 /\ root # NoFile
    /\ Open(FileOf[u])
    /\ Revise(u, 0)
    /\ UNCHANGED <<lifecycle, root, pending, published, failed, requests, refused, shown>>

(* A change or close of a document that was refused: without a workspace   *)
(* the handler panics, with one it reports that the document is not open.  *)
Panic(u) ==
    /\ Running /\ root = NoFile
    /\ u \in refused
    /\ lifecycle' = "Panicked"
    /\ UNCHANGED <<root, documents, pending, workspace, tasks, failed, requests, client>>

-----------------------------------------------------------------------------
(* Rebuild tasks.                                                          *)

(* QueryContext.check of a task: the revision is still the current one.    *)
FreshMutant(r) == tasks[r].revision <= clock  \* mutant: not checked after the yield
Fresh(r) == tasks[r].revision = clock

(* The task drops its context and its copy.                                *)
EndTask(r) == tasks' = [tasks EXCEPT ![r] = NoTask("ended")]

(* The first poll takes the context and yields.                            *)
StartTask(r) ==
    /\ Alive /\ tasks[r].state = "ready"
    /\ tasks' = [tasks EXCEPT ![r].state = "started", ![r].revision = clock]
    /\ UNCHANGED <<server, workspace, failed, requests, client>>

CopyDocuments(r) ==
    /\ Alive /\ tasks[r].state = "started"
    /\ Fresh(r)
    /\ tasks' = [tasks EXCEPT ![r].state = "copied", ![r].texts = OverlayTexts]
    /\ UNCHANGED <<server, workspace, failed, requests, client>>

(* A checkpoint of the task that finds a newer revision.                   *)
StaleTask(r) ==
    /\ Alive /\ tasks[r].state \in {"started", "copied"}
    /\ ~Fresh(r)
    /\ EndTask(r)
    /\ UNCHANGED <<server, workspace, failed, requests, client>>

(* The inventory does not load, or a document has no module name.  The     *)
(* task ends without a word.                                               *)
FailTask(r) ==
    /\ Alive /\ tasks[r].state \in {"started", "copied"}
    /\ Fresh(r)
    /\ Cardinality(failed) < MaxFailures \/ tasks[r].revision \in failed
    /\ failed' = failed \cup {tasks[r].revision}
    /\ EndTask(r)
    /\ UNCHANGED <<server, workspace, requests, client>>

(* publish_diagnostics: every open document, under the version the server  *)
(* has for its path.                                                       *)
PublishDiagnostics(texts) ==
    shown' = [u \in Uris |->
                IF documents[u] # 0
                  THEN [version |-> documents[u], text |-> texts[FileOf[u]]]
                  ELSE shown[u]]

(* The last checkpoint is behind: nothing yields until the diagnostics are *)
(* sent.  (The checkpoints between the copy and the last one change only   *)
(* how many are left.)                                                     *)
PublishTask(r) ==
    /\ Alive /\ tasks[r].state = "copied"
    /\ Fresh(r)
    /\ published' = [revision |-> tasks[r].revision, texts |-> tasks[r].texts]
    /\ PublishDiagnostics(tasks[r].texts)
    /\ EndTask(r)
    /\ UNCHANGED <<server, clock, overlays, failed, requests, held, refused>>

-----------------------------------------------------------------------------
(* Requests.                                                               *)

(* A request is registered, takes the published snapshot and a context at  *)
(* the current revision, and yields.  One that comes before the first      *)
(* snapshot is answered at once, and one under a registered id is refused. *)
Receive(k, i) ==
    /\ Running
    /\ requests[k].state = "none"
    /\ \A j \in Tokens : j < k => requests[j].state # "none"
    /\ Careful => \A j \in Tokens : Waiting(j) => requests[j].id # i
    /\ pending[i] = 0
    /\ published # NoSnapshot
    /\ requests' = [requests EXCEPT ![k] =
                      [state |-> "waiting", id |-> i, cancelled |-> FALSE,
                       revision |-> clock, snapshot |-> published]]
    /\ pending' = [pending EXCEPT ![i] = k]
    /\ UNCHANGED <<lifecycle, root, documents, workspace, tasks, failed, client>>

(* $/cancelRequest                                                         *)
Cancel(i) ==
    /\ Alive /\ pending[i] # 0
    /\ requests' = [requests EXCEPT ![pending[i]].cancelled = TRUE]
    /\ pending' = [pending EXCEPT ![i] = 0]
    /\ UNCHANGED <<lifecycle, root, documents, workspace, tasks, failed, client>>

(* What the checkpoint and ensure_current make of the request.             *)
OutcomeMutant(k) ==                     \* mutant: the snapshot may be older
    IF requests[k].cancelled THEN "cancelled"
    ELSE IF requests[k].revision # clock THEN "modified" ELSE "result"
OutcomeRaw(k) ==                        \* mutant: the query error as it is
    IF requests[k].cancelled THEN "cancelled"
    ELSE IF requests[k].revision # clock THEN "stale" ELSE "result"

Outcome(k) ==
    IF requests[k].cancelled THEN "cancelled"
    ELSE IF requests[k].revision # clock \/ requests[k].snapshot.revision # clock
           THEN "modified" ELSE "result"

UnregisteredMutant(k) == pending        \* mutant: the entry stays
Unregistered(k) == [pending EXCEPT ![requests[k].id] = 0]

Answer(k) ==
    /\ Alive /\ Waiting(k)
    /\ requests' = [requests EXCEPT ![k] = NoRequest(Outcome(k))]
    /\ pending' = Unregistered(k)
    /\ UNCHANGED <<lifecycle, root, documents, workspace, tasks, failed, client>>

-----------------------------------------------------------------------------
TaskStep(r) ==
    \/ StartTask(r)
    \/ CopyDocuments(r)
    \/ StaleTask(r)
    \/ FailTask(r)
    \/ PublishTask(r)

Next ==
    \/ \E f \in Roots : Initialize(f)
    \/ Initialized
    \/ Shutdown
    \/ Exit
    \/ \E u \in Uris :
         \/ DidOpen(u)
         \/ \E version \in Versions : DidChange(u, version)
         \/ OpenRefused(u)
         \/ DidClose(u)
         \/ Panic(u)
    \/ \E r \in 1 .. MaxEdits : TaskStep(r)
    \/ \E i \in Ids : Cancel(i) \/ \E k \in Tokens : Receive(k, i)
    \/ \E k \in Tokens : Answer(k)

Spec == Init /\ [][Next]_vars

(* The local set polls a task that was woken, and a yield wakes it.        *)
FairSpec == Spec /\ \A r \in 1 .. MaxEdits : WF_vars(TaskStep(r))

-----------------------------------------------------------------------------
(* Properties.                                                             *)

(* Every variable has its type.                                            *)
TypeOK ==
    /\ lifecycle \in {"Uninitialized", "AwaitingInitialized", "Running",
                      "Shutdown", "Exited", "Panicked"}
    /\ root \in Files \cup {NoFile}
    /\ clock \in Revisions
    /\ overlays \in [Files -> Document]
    /\ published \in Snapshot
    /\ documents \in [Uris -> Versions]
    /\ tasks \in [1 .. MaxEdits -> Task]
    /\ failed \subseteq Revisions
    /\ requests \in [Tokens -> Request]
    /\ pending \in [Ids -> 0 .. MaxRequests]
    /\ held \in [Uris -> Document]
    /\ refused \subseteq Uris
    /\ shown \in [Uris -> Shown]

(* The published snapshot of the current revision holds the overlays as    *)
(* they are: no edit is left out and no closed overlay is kept.  (The      *)
(* documents are copied after an await; the clock alone tells that they    *)
(* are still the same.)                                                    *)
PublishedWhole ==
    published.revision = clock => published.texts = OverlayTexts

(* A request gets a result only from a snapshot that holds the texts of    *)
(* this moment, only while the server runs, and never after the client     *)
(* cancelled it.                                                           *)
AnswersCurrent ==
    [][\A k \in Tokens :
         requests[k].state # "result" /\ requests'[k].state = "result"
           => /\ requests[k].snapshot.texts = OverlayTexts
              /\ Running
              /\ pending[requests[k].id] = k]_vars

(* A registered token is the one of the unanswered request with that id,   *)
(* and every unanswered request can still be cancelled unless it was: the  *)
(* completion of a request never takes the token of another.               *)
TokensOwned ==
    /\ \A i \in Ids : pending[i] # 0 =>
         /\ Waiting(pending[i]) /\ requests[pending[i]].id = i
         /\ ~requests[pending[i]].cancelled
    /\ \A k \in Tokens : Waiting(k) /\ ~requests[k].cancelled
         => pending[requests[k].id] = k

(* Diagnostics carry the version of the very text they were computed from: *)
(* what a client is shown for a document is about what it holds then.      *)
DiagnosticsPaired ==
    [][\A u \in Uris : shown'[u] # shown[u] => shown'[u] = held[u]]_vars

(* When the edits end, every open document gets the diagnostics of its     *)
(* last text, unless the server ended or a rebuild of that revision failed.*)
DiagnosticsSettle ==
    <>[](Alive /\ clock \notin failed
           => \A u \in Uris : held[u] # Closed => shown[u] = held[u])

(* What RFC 0046 says of a request whose id is still in use: it is refused.*)
ActiveIdsDistinct ==
    \A j, k \in Tokens : Waiting(j) /\ Waiting(k) /\ j # k
      => requests[j].id # requests[k].id

(* A notification the server cannot apply is reported and does not end it. *)
NeverPanics == lifecycle # "Panicked"

=============================================================================
