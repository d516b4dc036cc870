------------------------------ MODULE Serving -------------------------------
(* The runner and the code that runs in its instance, composed: the        *)
(* exports of the guest take the steps of GuestMachine between the         *)
(* runner's call and its return, and a trap may end any of them.           *)
EXTENDS Runner

CONSTANTS HeapSize, Demands, MaxHeap, MaxLocals, Eager

VARIABLES
    heap, demand, calls, frames, scratch, feedback, error, failing,
    service, job, result, stored

M == INSTANCE GuestMachine

ASSUME MachineAssumption == M!Assumption

machine == <<heap, demand, calls, frames, scratch, feedback, error, failing,
             service, job, result, stored>>

ServingInit == Init /\ M!Init

-----------------------------------------------------------------------------
(* The guest is called, and runs.                                          *)

BeginPrepare == pc = "sources" /\ M!BeginPrepare /\ UNCHANGED vars
BeginCreate ==
    /\ pc = "inject" /\ ~MoreSources
    /\ guest.phase = "Prepared" /\ Missing(guest) = {}
    /\ M!BeginCreate
    /\ UNCHANGED vars
BeginRun == pc = "call" /\ M!BeginRun /\ UNCHANGED vars

MachineStep == M!Step /\ UNCHANGED vars

-----------------------------------------------------------------------------
(* The guest returns: what the machine did is what the runner sees.        *)

EndPrepare ==
    /\ FetchNames
    /\ \/ M!EndPrepare /\ guest'.phase = "Prepared"
       \/ M!FailPrepare /\ guest'.phase # "Prepared"

(* A source that does not parse is not stored.                             *)
EndInject ==
    /\ InjectSource
    /\ \/ M!StoreSource /\ guest'.phase = "Prepared"
       \/ UNCHANGED machine /\ guest'.phase = "Failed"

(* create-service may end before it calls the initializer.                 *)
EndCreate ==
    /\ CreateService
    /\ \/ M!EndCreate /\ guest'.phase = "Ready"
       \/ M!FailCreate /\ guest'.phase = "Failed"
       \/ M!Idle /\ guest'.phase = "Failed" /\ UNCHANGED machine

(* A body that does not parse is answered without the handler.             *)
EndRun == RunService /\ (M!EndRun \/ (M!Idle /\ UNCHANGED machine))

-----------------------------------------------------------------------------
(* Instances.                                                              *)

CompactInstance == Compact /\ M!Export
ImportInstance == ImportImage /\ M!Import
ReplaceInstance == Reinstantiate /\ M!Import
ResetInstance ==
    /\ ResetInPlace
    /\ IF ResetAsserts(guest) THEN M!Reset ELSE M!Trap
LoseInstance == (InitializeTraps \/ RequestFails \/ ResetFails) /\ M!Trap

HostOnly ==
    /\ \/ \E s \in Given : Initialize(s)
       \/ NameMismatch
       \/ \E x \in Requests : Request(x)
       \/ Transfer
       \/ Respond
    /\ UNCHANGED machine

ServingNext ==
    \/ BeginPrepare \/ BeginCreate \/ BeginRun
    \/ MachineStep
    \/ EndPrepare \/ EndInject \/ EndCreate \/ EndRun
    \/ CompactInstance \/ ImportInstance \/ ReplaceInstance
    \/ ResetInstance \/ LoseInstance
    \/ HostOnly

ServingSpec == ServingInit /\ [][ServingNext]_<<vars, machine>>

-----------------------------------------------------------------------------
(* Properties.                                                             *)

(* No reference the program, the runtime or the host can follow leads to   *)
(* what the collector swept or to scratch words that were left, across     *)
(* requests, resets, snapshots and traps.                                  *)
NoDangling == M!NoDangling

(* However a call ended, by its result, a failure, a tail call or a        *)
(* capture, the published frames and the scratch frames are those of the   *)
(* calls in progress, and no global is evaluated twice at once.            *)
StackKept == M!Balanced /\ M!OneEvaluation

(* Every request starts on the machine the service was published with: no  *)
(* frame, error or diagnostic of an earlier request is left, the globals   *)
(* are those of the image, and all the handler or a global refers to is as *)
(* it was.  (The diagnostics of the initialization are in the image: an    *)
(* instance that replaces a trapped one has them until its next reset.)    *)
Baseline ==
    M!Reached(stored.heap,
              {stored.handler} \cup {stored.demand[d].value : d \in M!Globals})

StartsClean ==
    pc = "call" /\ job = "none" =>
      /\ calls = <<>> /\ frames = <<>> /\ scratch = 0
      /\ error = M!None /\ ~failing
      /\ feedback \in {<<>>, stored.feedback}
      /\ demand = stored.demand /\ service.handler = stored.handler
      /\ \A o \in Baseline : o \in DOMAIN heap /\ heap[o] = stored.heap[o]

=============================================================================
