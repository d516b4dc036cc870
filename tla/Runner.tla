------------------------------- MODULE Runner -------------------------------
(* The runner of a service artifact, crates/telora-run/src/lib.rs: it      *)
(* initializes one instance of the guest, keeps a snapshot of the ready    *)
(* service as its baseline, and puts every request on an instance that is  *)
(* reset to it, or on a new one when the last call trapped.                *)
(*                                                                         *)
(* The runner has one owner and one thread; what is hard is that any call  *)
(* of the guest may trap (out of fuel, out of memory, an assertion) and    *)
(* any instantiation may fail.                                             *)
EXTENDS GuestService

CONSTANTS
    Given,     \* the sequences of sources a host may pass
    Requests,  \* request bodies
    NoReply,   \* no request was answered yet
    Failure,   \* the reply of a host that could not run a request
    MaxRuns    \* bound on the requests

ASSUME RunnerAssumption ==
    /\ Given \subseteq Seq(Data)
    /\ MaxRuns \in Nat

VARIABLES
    guest,     \* Runner.guest
    image,     \* artifact_snapshot: an initialized service is in the artifact
    baseline,  \* Runner.baseline, or NoBaseline
    ready,     \* Runner.ready
    poisoned,  \* Runner.poisoned
    pc,        \* where the call in progress is
    given,     \* the sources of initialize
    names,     \* the names of the guest's slots
    next,      \* the position of the next source to inject
    input,     \* the request in progress
    output,    \* what the guest wrote to its output buffer
    runs,      \* how many requests were made
    outcome,   \* how initialize ended
    reply,     \* the last reply
    misused    \* an assertion of the guest failed

flags == <<ready, poisoned, image, baseline>>
call == <<given, names, next, input, output, runs>>
vars == <<guest, flags, pc, call, outcome, reply, misused>>

(* What the handler of a complete service was built from.                  *)
Complete == [n \in Slots |-> n]

NoBaseline == [handler |-> NoValues, supplied |-> {}]

(* The snapshot in an artifact is one of an initialized service: the build *)
(* compiled the sources in.                                                *)
ImageBaseline == [handler |-> Complete, supplied |-> Slots]

Snapshots == [handler : [Slots -> Data \cup {Nothing}], supplied : SUBSET Slots]

Stages == {"idle", "import", "sources", "inject", "compact",
           "settle", "reset", "run", "call", "respond"}

Init ==
    /\ guest = Instantiated
    /\ image \in BOOLEAN
    /\ baseline = NoBaseline
    /\ ready = FALSE /\ poisoned = FALSE
    /\ pc = "idle"
    /\ given = <<>> /\ names = <<>> /\ next = 1
    /\ input = NoReply /\ output = NoReply /\ runs = 0
    /\ outcome = "none"
    /\ reply = NoReply
    /\ misused = FALSE

(* A call of an export whose assertion does not hold traps.                *)
Asserted(P) == misused' = (misused \/ ~P)

-----------------------------------------------------------------------------
(* initialize: poisoned until the service is ready.                        *)

MayInitialize(s) == (~image \/ s = <<>>) /\ ~ready /\ ~poisoned

Initialize(s) ==
    /\ pc = "idle"
    /\ MayInitialize(s)
    /\ poisoned' = TRUE
    /\ pc' = IF image THEN "import" ELSE "sources"
    /\ image' = FALSE
    /\ given' = s
    /\ UNCHANGED <<guest, baseline, ready, names, next, input, output, runs, outcome, reply, misused>>

(* An error anywhere before the service is ready.                          *)
FailInitialize ==
    /\ pc' = "idle"
    /\ outcome' = "failed"
    /\ UNCHANGED <<flags, call, reply>>

InitializeTraps ==
    /\ pc \in {"import", "sources", "inject", "compact"}
    /\ guest' \in {guest, Torn(guest)}
    /\ UNCHANGED misused
    /\ FailInitialize

(* The baseline is set and the service published; the last reset follows.  *)
Publish(g, s) ==
    /\ guest' = g
    /\ baseline' = s
    /\ ready' = TRUE
    /\ poisoned' = FALSE
    /\ pc' = "settle"
    /\ UNCHANGED <<image, call, outcome, reply>>

ImportImage ==
    /\ pc = "import"
    /\ Asserted(RestoreAsserts(guest))
    /\ Publish([Restore(guest, ImageBaseline) EXCEPT !.globals = "service"],
               ImageBaseline)

FetchNames ==
    /\ pc = "sources"
    /\ guest' \in Prepare(guest)
    /\ names' = NamesOf(guest')
    /\ UNCHANGED <<flags, given, next, input, output, runs, reply, misused>>
    /\ IF Len(NamesOf(guest')) = Len(given)
         THEN pc' = "inject" /\ UNCHANGED outcome
         ELSE pc' = "idle" /\ outcome' = "failed"

MoreSources == next <= Len(given)

NameMatchesMutant == TRUE                 \* mutant: sources taken by position
NameMatches == given[next] = names[next]

NameMismatch ==
    /\ pc = "inject" /\ MoreSources
    /\ ~NameMatches
    /\ UNCHANGED <<guest, misused>>
    /\ FailInitialize

InjectSource ==
    /\ pc = "inject" /\ MoreSources
    /\ NameMatches
    /\ Asserted(SetAsserts(guest, names[next]))
    /\ guest' \in SetSource(guest, names[next], given[next])
    /\ next' = next + 1
    /\ UNCHANGED <<flags, pc, given, names, input, output, runs, outcome, reply>>

CreateService ==
    /\ pc = "inject" /\ ~MoreSources
    /\ Asserted(CreateAsserts(guest))
    /\ guest' \in Create(guest)
    /\ UNCHANGED <<flags, call, reply>>
    /\ IF guest'.phase = "Ready"
         THEN pc' = "compact" /\ UNCHANGED outcome
         ELSE pc' = "idle" /\ outcome' = "failed"

(* The service moves into a new instance, with the globals of the old one. *)
Compact ==
    /\ pc = "compact"
    /\ Asserted(SnapshotAsserts(guest) /\ RestoreAsserts(Instantiated))
    /\ Publish([Restore(Instantiated, SnapshotOf(guest)) EXCEPT
                  !.globals = guest.globals],
               SnapshotOf(guest))

-----------------------------------------------------------------------------
(* reset, at the end of initialize and before every request.               *)

(* The globals of the baseline are set whether the instance is new or not. *)
GlobalsMutant(g) ==                       \* mutant: only in a new instance
    IF g.globals = "initial" THEN [g EXCEPT !.globals = "service"] ELSE g
WithGlobals(g) == [g EXCEPT !.globals = "service"]

Resets == {"settle", "reset"}

Settled ==
    /\ poisoned' = FALSE
    /\ IF pc = "settle"
         THEN pc' = "idle" /\ outcome' = "ok" ELSE pc' = "run" /\ UNCHANGED outcome
    /\ UNCHANGED <<ready, image, baseline, call, reply>>

ResetInPlace ==
    /\ pc \in Resets
    /\ ~poisoned
    /\ Asserted(ResetAsserts(guest))
    /\ guest' = WithGlobals(ResetExport(guest))
    /\ Settled

(* The instance is poisoned, or reset-service trapped.                     *)
Reinstantiate ==
    /\ pc \in Resets
    /\ Asserted(RestoreAsserts(Instantiated))
    /\ guest' = WithGlobals(Restore(Instantiated, baseline))
    /\ Settled

(* The new instance cannot be made.  The service stays ready, and the next *)
(* request tries again.                                                    *)
ResetFails ==
    /\ pc \in Resets
    /\ guest' \in {guest, Torn(guest)}
    /\ poisoned' = TRUE
    /\ pc' = "idle"
    /\ IF pc = "settle"
         THEN outcome' = "failed" /\ UNCHANGED reply
         ELSE reply' = Failure /\ UNCHANGED outcome
    /\ UNCHANGED <<ready, image, baseline, call, misused>>

-----------------------------------------------------------------------------
(* request                                                                 *)

Request(x) ==
    /\ pc = "idle"
    /\ ready
    /\ runs < MaxRuns
    /\ pc' = "reset"
    /\ input' = x
    /\ runs' = runs + 1
    /\ UNCHANGED <<guest, flags, given, names, next, output, outcome, reply, misused>>

(* The fuel of the request is set, and its buffers are allocated.          *)
Transfer ==
    /\ pc = "run"
    /\ guest' = [guest EXCEPT !.buffers = {"body", "record"}]
    /\ pc' = "call"
    /\ UNCHANGED <<flags, call, outcome, reply, misused>>

RunService ==
    /\ pc = "call"
    /\ Asserted(RunAsserts(guest))
    /\ guest' = Run(guest)
    /\ output' = Seen(guest)
    /\ pc' = "respond"
    /\ UNCHANGED <<flags, given, names, next, input, runs, outcome, reply>>

(* The body, the output and the record are freed.                          *)
Respond ==
    /\ pc = "respond"
    /\ guest' = [guest EXCEPT !.buffers = {}]
    /\ reply' = [input |-> input, seen |-> output]
    /\ pc' = "idle"
    /\ UNCHANGED <<flags, call, outcome, misused>>

(* poisoned was set before the call and a failure leaves it set, whether   *)
(* the guest trapped or the host could not read its answer.                *)
PoisonMutant == FALSE                     \* mutant: set by nothing
Poison == TRUE

RequestFails ==
    /\ pc \in {"run", "call", "respond"}
    /\ guest' \in {guest, Torn(guest)}
    /\ poisoned' = Poison
    /\ reply' = Failure
    /\ pc' = "idle"
    /\ UNCHANGED <<ready, image, baseline, call, outcome, misused>>

-----------------------------------------------------------------------------
Next ==
    \/ \E s \in Given : Initialize(s)
    \/ InitializeTraps
    \/ ImportImage
    \/ FetchNames
    \/ NameMismatch
    \/ InjectSource
    \/ CreateService
    \/ Compact
    \/ ResetInPlace
    \/ Reinstantiate
    \/ ResetFails
    \/ \E x \in Requests : Request(x)
    \/ Transfer
    \/ RunService
    \/ Respond
    \/ RequestFails

Spec == Init /\ [][Next]_vars

-----------------------------------------------------------------------------
(* Properties.                                                             *)

(* Every variable has its type.                                            *)
TypeOK ==
    /\ guest \in Instance
    /\ image \in BOOLEAN
    /\ baseline \in Snapshots
    /\ ready \in BOOLEAN /\ poisoned \in BOOLEAN
    /\ pc \in Stages
    /\ given \in Seq(Data) /\ names \in {<<>>, Declared}
    /\ next \in 1 .. Len(given) + 1
    /\ input \in Requests \cup {NoReply}
    /\ runs \in 0 .. MaxRuns
    /\ outcome \in {"none", "ok", "failed"}
    /\ misused \in BOOLEAN

(* No call of the runner breaks an assertion of the guest or what its      *)
(* comments require, whatever failed before it: no source is set twice or  *)
(* too late, a service is created and restored once, and no instance that  *)
(* trapped or still holds buffers of a request is reset in place.          *)
NeverMisused == ~misused

(* Every reply is computed from the request and from the service as it was *)
(* initialized with the sources the host named: nothing a former request   *)
(* did, completed or trapped, is seen by the next one.                     *)
Pristine == [handler |-> Complete, globals |-> "service",
             residue |-> FALSE, torn |-> FALSE]

Service == INSTANCE ServiceContract WITH serving <- ready, state <- Pristine
ImplementsService == Service!Spec

(* The comment on initialize: "Failure never publishes a usable service."  *)
FailurePublishesNothing == outcome = "failed" => ~ready

=============================================================================
