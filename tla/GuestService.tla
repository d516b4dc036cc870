---------------------------- MODULE GuestService ----------------------------
(* The service inside a compiled artifact, as its host sees it: the phases *)
(* of crates/telora-wasm/rt/service.rs, the slots of service_sources.rs,   *)
(* and what a snapshot carries over.  The exports are operators on the     *)
(* state of one instance; the set an export returns holds every state a    *)
(* call that does not trap may leave.  An assertion of the guest is an     *)
(* operator of its own: a call that breaks it traps.                       *)
EXTENDS Integers, Sequences

CONSTANTS
    Declared,  \* the names of the data sources, in the order of the entry
    Data,      \* what a host may supply for a name
    Nothing

ASSUME GuestAssumption ==
    /\ Declared \in Seq(Data)
    /\ \A i, j \in 1 .. Len(Declared) : Declared[i] = Declared[j] => i = j
    /\ Nothing \notin Data

Slots == {Declared[i] : i \in 1 .. Len(Declared)}

Phase == {"Unprepared", "Prepared", "Failed", "Ready"}

(* The host's allocations in a request: the body, the record the guest     *)
(* answers in, and the output the guest gives to the host.                 *)
Buffers == {"body", "record", "output"}

(* One instance.  handler is what the service handler was built from, the  *)
(* value each slot had; residue is what completed requests left in the     *)
(* scratch frames and feedback tables; globals are the mutable Wasm        *)
(* globals; torn says that a call trapped in the middle of its work.       *)
Instance ==
    [phase : Phase,
     supplied : SUBSET Slots,
     values : [Slots -> Data \cup {Nothing}],
     sealed : BOOLEAN,
     handler : [Slots -> Data \cup {Nothing}],
     globals : {"initial", "service", "request"},
     residue : BOOLEAN,
     buffers : SUBSET Buffers,
     torn : BOOLEAN]

NoValues == [n \in Slots |-> Nothing]

(* An instance after its start function: telora_service_bootstrap ran.     *)
Instantiated ==
    [phase |-> "Unprepared", supplied |-> {}, values |-> NoValues,
     sealed |-> FALSE, handler |-> NoValues, globals |-> "initial",
     residue |-> FALSE, buffers |-> {}, torn |-> FALSE]

(* A trap leaves a state nobody vouches for.                               *)
Torn(g) == [g EXCEPT !.torn = TRUE]

-----------------------------------------------------------------------------
(* Initialization.                                                         *)

(* prepare: the initializers and the entry run once, and either may fail.  *)
PrepareMutant(g) ==                       \* mutant: a failure leaves "Preparing"
    IF g.phase # "Unprepared" THEN {g}
    ELSE {[g EXCEPT !.phase = "Prepared", !.globals = "service"],
          [g EXCEPT !.phase = "Preparing", !.globals = "service"]}

Prepare(g) ==
    IF g.phase # "Unprepared" THEN {g}
    ELSE {[g EXCEPT !.phase = "Prepared", !.globals = "service"],
          [g EXCEPT !.phase = "Failed", !.globals = "service"]}

IsPrepared(g) == g.phase \in {"Prepared", "Ready"}

(* get-data-source-count and get-data-source-name                          *)
NamesOf(g) == IF IsPrepared(g) THEN Declared ELSE <<>>

(* set-data-source: the slot is taken before the text is parsed, and one   *)
(* failure ends the service.                                               *)
SetAsserts(g, n) ==
    IsPrepared(g) => g.phase = "Prepared" /\ ~g.sealed /\ n \notin g.supplied

SetSource(g, n, d) ==
    IF ~IsPrepared(g) THEN {g}
    ELSE {[g EXCEPT !.supplied = @ \cup {n}, !.values[n] = d],
          [g EXCEPT !.supplied = @ \cup {n}, !.phase = "Failed"]}

Missing(g) == {n \in Slots : g.values[n] = Nothing}

(* create-service: the phase is Failed until the handler exists.  Ready    *)
(* releases the initialization values and freezes the sources.             *)
CreateAsserts(g) == IsPrepared(g) => g.phase = "Prepared"

Create(g) ==
    IF ~IsPrepared(g) THEN {g}
    ELSE IF Missing(g) # {} THEN {[g EXCEPT !.phase = "Failed"]}
    ELSE {[g EXCEPT !.phase = "Failed", !.sealed = TRUE],
          [g EXCEPT !.phase = "Ready", !.sealed = TRUE,
                    !.handler = g.values, !.values = NoValues]}

-----------------------------------------------------------------------------
(* Requests and reset.                                                     *)

(* run-service: it takes the record and gives the output to the host.  The *)
(* handler may leave scratch, feedback and globals behind.                 *)
RunAsserts(g) == g.phase = "Ready" /\ {"body", "record"} \subseteq g.buffers

Run(g) == [g EXCEPT !.residue = TRUE, !.globals = "request", !.buffers = Buffers]

(* What the answer to a request can depend on besides its input.           *)
Seen(g) == [handler |-> g.handler, globals |-> g.globals,
            residue |-> g.residue, torn |-> g.torn]

(* reset-service: only after a completed call whose buffers are freed; a   *)
(* trap requires another instance.                                         *)
ResetAsserts(g) == g.phase = "Ready" /\ g.buffers = {} /\ ~g.torn

ResetExport(g) == [g EXCEPT !.residue = FALSE]

-----------------------------------------------------------------------------
(* Snapshots: the frozen graph of the handler, the source descriptors and  *)
(* the tables; neither globals nor anything a request left.                *)

SnapshotAsserts(g) == g.phase = "Ready"

SnapshotOf(g) == [handler |-> g.handler, supplied |-> g.supplied]

RestoreAsserts(g) == g.phase = "Unprepared" /\ g.supplied = {}

Restore(g, s) ==
    [g EXCEPT !.phase = "Ready", !.supplied = s.supplied, !.sealed = TRUE,
              !.handler = s.handler]

=============================================================================
