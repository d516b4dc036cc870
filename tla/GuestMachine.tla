---------------------------- MODULE GuestMachine ----------------------------
(* The execution of compiled code inside one instance of a service: the    *)
(* heap and its collector (crates/telora-wasm/rt/heap.rs, gc_runtime.rs,   *)
(* gc_mark.rs), the root frames and the scratch frames that generated      *)
(* functions open and close (src/emit.rs, root_codegen.rs,                 *)
(* stack_values.rs), calls and tail calls, the globals computed on demand, *)
(* failures and the scope that captures them.                              *)
(*                                                                         *)
(* A program is any sequence of the steps generated code can take.  The    *)
(* collector runs at safepoints only and sees what is published by then,   *)
(* never the locals.                                                       *)
EXTENDS Integers, Sequences, FiniteSets

CONSTANTS
    HeapSize,   \* how many allocations there are
    Demands,    \* how many globals the program has; the last is the entry
    MaxHeap,    \* bound for each export on the allocations that exist at once
    MaxLocals,  \* and on the calls in progress and the locals of each
    Eager       \* telora_gc_interval is 1: every safepoint collects

Jobs == {"none", "prepare", "create", "run"}

Assumption ==
    /\ HeapSize \in Nat \ {0} /\ Demands \in Nat \ {0}
    /\ MaxHeap \in [Jobs -> 0 .. HeapSize]
    /\ MaxLocals \in [Jobs -> Seq(Nat)]
    /\ MaxLocals["create"] # <<>> /\ MaxLocals["run"] # <<>>
    /\ Eager \in BOOLEAN

VARIABLES
    heap,      \* allocation -> the allocations its contents refer to
    demand,    \* the state and the value of each global
    calls,     \* the calls in progress: the Wasm stack and its locals
    frames,    \* FRAMES and ROOTS: what each call has published
    scratch,   \* how many frames Scratch has
    feedback,  \* the table of diagnostics
    error,     \* ERROR_GLOBAL
    failing,   \* the last call returned 0
    service,   \* the values the service holds between calls
    job,       \* the export in progress
    result,    \* what the outermost call returned to it
    stored     \* the image the host keeps of a ready service

stack == <<calls, frames, scratch>>
report == <<feedback, error, failing>>
export == <<service, job, result, stored>>
vars == <<heap, demand, stack, report, export>>

None == 0
Allocations == 1 .. HeapSize
Globals == 1 .. Demands

(* References into the scratch words are told from allocations.            *)
Scratch(level) == HeapSize + level
IsScratch(r) == r > HeapSize
IsManaged(r) == r \in Allocations

(* A root slot: storage keeps an allocation, a value all it refers to.     *)
Storage(r) == [ref |-> r, value |-> FALSE]
Value(r) == [ref |-> r, value |-> TRUE]
Clear == Storage(None)

Top == Len(calls)
Here == calls[Top]
Elements(s) == {s[i] : i \in 1 .. Len(s)}
Pop(s) == SubSeq(s, 1, Len(s) - 1)

(* What the code of a call can name: its environment, argument and locals. *)
Values(c) == ({c.env, c.arg} \cup Elements(c.locals)) \ {None}

-----------------------------------------------------------------------------
(* Allocation and collection.                                              *)

Fits(h) == Cardinality(DOMAIN h) < MaxHeap[job]
Room == Fits(heap)
Free(h) == CHOOSE o \in Allocations : o \notin DOMAIN h
New == Free(heap)
With(h, o, c) == [x \in DOMAIN h \cup {o} |-> IF x = o THEN c ELSE h[x]]

(* The bytes of a plain value are copied into what contains it.            *)
Contents(r) == IF IsManaged(r) THEN {r} ELSE {}

(* Everything a set of references leads to, found one edge at a time.      *)
Reached(h, R) ==
    LET marked[n \in 0 .. Cardinality(DOMAIN h)] ==
          IF n = 0 THEN R \cap DOMAIN h
          ELSE marked[n - 1] \cup ((UNION {h[o] : o \in marked[n - 1]}) \cap DOMAIN h)
    IN  marked[Cardinality(DOMAIN h)]

(* Mark::trace: the published slots, the values of Ready and the failures  *)
(* of Failed globals, what the service holds, the rows of the feedback.    *)
FrameSlots(fs) == UNION {fs[i].params \cup Elements(fs[i].slots) : i \in 1 .. Len(fs)}

DemandRoots == {demand[d].value : d \in Globals}

Traced(fs) ==
    {s.ref : s \in {t \in FrameSlots(fs) : t.value}}
      \cup DemandRoots
      \cup Elements(feedback)
      \cup {service.initializer, service.handler} \cup service.values

Kept(fs) == {s.ref : s \in {t \in FrameSlots(fs) : ~t.value}}

Collected(h, fs) ==
    [o \in Reached(h, Traced(fs)) \cup (Kept(fs) \cap DOMAIN h) |-> h[o]]

(* Otherwise a collection is due when enough bytes were allocated since.   *)
Afterwards(h, fs) == {Collected(h, fs)} \cup (IF Eager THEN {} ELSE {h})
Safepoint(h, fs) == heap' \in Afterwards(h, fs)

-----------------------------------------------------------------------------
(* Expressions.                                                            *)

Able == calls # <<>> /\ job # "none" /\ ~failing
HasLocal == Len(Here.locals) < MaxLocals[job][Top]
HasCall == Top < Len(MaxLocals[job])

(* A new local and its root slot.                                          *)
Local(r, s) ==
    /\ calls' = [calls EXCEPT ![Top].locals = Append(@, r)]
    /\ frames' = [frames EXCEPT ![Top].slots = Append(@, s)]
    /\ UNCHANGED scratch

(* alloc: the allocation is published as storage, what it contains is in   *)
(* locals of its own until the expression is left.                         *)
Make(v) ==
    /\ Able /\ HasLocal /\ Room
    /\ v \in Values(Here) \cup {None}
    /\ heap' = With(heap, New, Contents(v))
    /\ Local(New, Storage(New))
    /\ UNCHANGED <<demand, report, export>>

(* scratch_alloc: a plain value in the words of the call.  A global has no *)
(* words of its own and allocates.                                         *)
MakePlain ==
    /\ Able /\ HasLocal
    /\ Here.demand = None
    /\ Local(Here.base, Clear)
    /\ UNCHANGED <<heap, demand, report, export>>

(* A field or a capture is read into a local that is not published.        *)
Load(v, w) ==
    /\ Able /\ HasLocal
    /\ v \in Values(Here) /\ IsManaged(v)
    /\ w \in heap[v]
    /\ Local(w, Clear)
    /\ UNCHANGED <<heap, demand, report, export>>

(* leave_expression: the result is published as a value, and the           *)
(* temporaries above k are released.                                       *)
SlotOfMutant(v) == Storage(v)             \* mutant: what it contains is lost
SlotOf(v) == IF IsManaged(v) THEN Value(v) ELSE Clear

Release(k) ==
    /\ Able
    /\ k < Len(Here.locals)
    /\ LET v == Here.locals[Len(Here.locals)]
       IN  /\ calls' = [calls EXCEPT ![Top].locals = Append(SubSeq(@, 1, k), v)]
           /\ frames' = [frames EXCEPT ![Top].slots = Append(SubSeq(@, 1, k), SlotOf(v))]
    /\ UNCHANGED <<heap, demand, scratch, report, export>>

(* The result is an earlier binding.                                       *)
Discard(k) ==
    /\ Able
    /\ k < Len(Here.locals)
    /\ calls' = [calls EXCEPT ![Top].locals = SubSeq(@, 1, k)]
    /\ frames' = [frames EXCEPT ![Top].slots = SubSeq(@, 1, k)]
    /\ UNCHANGED <<heap, demand, scratch, report, export>>

-----------------------------------------------------------------------------
(* Calls.                                                                  *)

(* call_with_diagnostics remembers the rows and the error it began with.   *)
NoCapture == [on |-> FALSE, rows |-> 0, error |-> None]
Capturing == [on |-> TRUE, rows |-> Len(feedback), error |-> error]

Function(c, a, o, level, saved) ==
    [demand |-> None, env |-> c, arg |-> a, out |-> o,
     base |-> Scratch(level), saved |-> saved, locals |-> <<>>]

Evaluation(d) ==
    [demand |-> d, env |-> None, arg |-> None, out |-> None,
     base |-> None, saved |-> NoCapture, locals |-> <<>>]

(* root_prologue: the environment and the arguments as values, the output  *)
(* as storage.                                                             *)
Prologue(c, a, o) ==
    [params |-> {SlotOf(c), SlotOf(a), Storage(o)}, slots |-> <<>>]

(* FRAME_ENTER, ROOTS_ENTER, the prologue and its safepoint.               *)
Enter(h, cs, fs, c, a, o, saved) ==
    /\ calls' = Append(cs, Function(c, a, o, scratch + 1, saved))
    /\ frames' = Append(fs, Prologue(c, a, o))
    /\ scratch' = scratch + 1
    /\ Safepoint(h, frames')

(* invoke_at: the caller provides the output, in its scratch words when    *)
(* the result is plain.  A capture calls in the same way.                  *)
Call(c, a, plain, saved) ==
    /\ Able /\ HasLocal
    /\ HasCall
    /\ c \in Values(Here) /\ IsManaged(c)
    /\ a \in Values(Here)
    /\ IF plain
         THEN /\ Here.demand = None
              /\ Enter(heap, [calls EXCEPT ![Top].locals = Append(@, Here.base)],
                       [frames EXCEPT ![Top].slots = Append(@, Clear)],
                       c, a, Here.base, saved)
         ELSE /\ Room
              /\ Enter(With(heap, New, {}),
                       [calls EXCEPT ![Top].locals = Append(@, New)],
                       [frames EXCEPT ![Top].slots = Append(@, Storage(New))],
                       c, a, New, saved)
    /\ UNCHANGED <<demand, report, export>>

(* tail_invoke: plain arguments move into the scratch frame that replaces  *)
(* this one, and the callee publishes what the packet holds.               *)
Moved(a) == IF IsScratch(a) THEN Here.base ELSE a

TailCall(c, a) ==
    /\ Able
    /\ Here.demand = None
    /\ c \in Values(Here) /\ IsManaged(c)
    /\ a \in Values(Here)
    /\ calls' = [calls EXCEPT ![Top] =
                   Function(c, Moved(a), Here.out, scratch, Here.saved)]
    /\ frames' = [frames EXCEPT ![Top] = Prologue(c, Moved(a), Here.out)]
    /\ Safepoint(heap, frames')
    /\ UNCHANGED <<demand, scratch, report, export>>

(* The end of a capture: the rows since its begin move into what it        *)
(* returns, and the error is the one it began with.                        *)
Reports(s) ==
    IF s.on THEN UNION {heap[feedback[i]] : i \in s.rows + 1 .. Len(feedback)} ELSE {}

Settle(s) ==
    IF s.on THEN feedback' = SubSeq(feedback, 1, s.rows) /\ error' = s.error
    ELSE UNCHANGED <<feedback, error>>

(* finish: the value is copied into the output, both frames are left, and  *)
(* the caller publishes the output as a value.                             *)
LeaveFrames(out) ==
    /\ calls' = Pop(calls)
    /\ frames' = IF Top = 1 \/ IsScratch(out) THEN Pop(frames)
                 ELSE [Pop(frames) EXCEPT ![Top - 1].slots =
                         Append(Pop(@), Value(out))]

Return(v) ==
    /\ Able
    /\ Here.demand = None
    /\ v \in Values(Here)
    /\ IsScratch(Here.out) => IsScratch(v)
    /\ heap' = IF IsScratch(Here.out) THEN heap
               ELSE [heap EXCEPT ![Here.out] =
                       (IF IsScratch(v) THEN {} ELSE heap[v]) \cup Reports(Here.saved)]
    /\ LeaveFrames(Here.out) /\ scratch' = scratch - 1
    /\ Settle(Here.saved)
    /\ result' = IF Top = 1 THEN Here.out ELSE None
    /\ UNCHANGED <<demand, failing, service, job, stored>>

-----------------------------------------------------------------------------
(* Globals and failures.                                                   *)

Pending == [state |-> "pending", value |-> None]
Running == [state |-> "running", value |-> None]
Ready(v) == [state |-> "ready", value |-> v]
Failed(p) == [state |-> "failed", value |-> p]

(* A row of the diagnostics refers to its message and subjects.            *)
Row(v) ==
    /\ Room
    /\ heap' = With(heap, New, Contents(v))
    /\ feedback' = Append(feedback, New)

Warn(v) ==
    /\ Able
    /\ v \in Values(Here)
    /\ Row(v)
    /\ UNCHANGED <<demand, stack, error, failing, export>>

(* A failure is a row and the error, and the call returns 0.               *)
Fail(v) ==
    /\ Able
    /\ v \in Values(Here) \cup {None}
    /\ Row(v) /\ error' = New /\ failing' = TRUE
    /\ UNCHANGED <<demand, stack, export>>

UseReady(d) ==
    /\ Able /\ HasLocal
    /\ demand[d].state = "ready"
    /\ Local(demand[d].value, Value(demand[d].value))
    /\ UNCHANGED <<heap, demand, report, export>>

UseFailed(d) ==
    /\ Able
    /\ demand[d].state = "failed"
    /\ error' = demand[d].value /\ failing' = TRUE
    /\ UNCHANGED <<heap, demand, stack, feedback, export>>

(* The global is being evaluated: a cycle.  This request leaves by the     *)
(* same epilogue as the evaluation, which stores the failure.              *)
UseRunning(d) ==
    /\ Able
    /\ demand[d].state = "running"
    /\ Row(None) /\ error' = New /\ failing' = TRUE
    /\ demand' = [demand EXCEPT ![d] = Failed(New)]
    /\ UNCHANGED <<stack, export>>

EvaluableMutant(d) ==                     \* mutant: a cycle starts again
    demand[d].state \in {"pending", "running"}
Evaluable(d) == demand[d].state = "pending"

Start(d) ==
    /\ HasCall
    /\ Evaluable(d)
    /\ demand' = [demand EXCEPT ![d] = Running]
    /\ calls' = Append(calls, Evaluation(d))
    /\ frames' = Append(frames, [params |-> {}, slots |-> <<>>])
    /\ UNCHANGED <<heap, scratch, report, export>>

Evaluate(d) == Able /\ HasLocal /\ Start(d)

(* The epilogue of a global stores its value, and the caller borrows it.   *)
Finish(v) ==
    /\ Able
    /\ Here.demand # None
    /\ v \in Values(Here)
    /\ demand' = [demand EXCEPT ![Here.demand] = Ready(v)]
    /\ IF Top = 1
         THEN calls' = <<>> /\ frames' = <<>>
         ELSE /\ calls' = [Pop(calls) EXCEPT ![Top - 1].locals = Append(@, v)]
              /\ frames' = [Pop(frames) EXCEPT ![Top - 1].slots = Append(@, Value(v))]
    /\ UNCHANGED <<heap, scratch, report, export>>

(* checked: the caller of a call that returned 0 returns 0 through the     *)
(* same epilogue.  The failure ends at a capture, which returns its rows.  *)
Unwind ==
    /\ calls # <<>> /\ job # "none" /\ failing
    /\ failing' = (Top # 1 /\ ~Here.saved.on)
    /\ result' = None
    /\ IF Here.demand # None
         THEN /\ demand' = [demand EXCEPT ![Here.demand] = Failed(error)]
              /\ calls' = Pop(calls) /\ frames' = Pop(frames)
              /\ UNCHANGED <<heap, scratch, feedback, error>>
         ELSE /\ scratch' = scratch - 1
              /\ Settle(Here.saved)
              /\ IF Here.saved.on
                   THEN /\ heap' = [heap EXCEPT ![Here.out] = Reports(Here.saved)]
                        /\ LeaveFrames(Here.out)
                   ELSE /\ calls' = Pop(calls) /\ frames' = Pop(frames)
                        /\ UNCHANGED heap
              /\ UNCHANGED demand
    /\ UNCHANGED <<service, job, stored>>

-----------------------------------------------------------------------------
(* The exports, and the images.                                            *)

Idle == job = "none"
AtRest == calls = <<>>
Execution == <<heap, demand, stack, report>>

NoService == [initializer |-> None, handler |-> None, values |-> {}]

(* Before anything ran, and what is known of an instance that trapped:     *)
(* nothing of it is looked at again.                                       *)
Fresh ==
    [heap |-> << >>, demand |-> [d \in Globals |-> Pending],
     feedback |-> <<>>, handler |-> None]

(* An image from a build: one allocation is every global and the handler.  *)
Built ==
    [heap |-> [o \in {1} |-> {}], demand |-> [d \in Globals |-> Ready(1)],
     feedback |-> <<>>, handler |-> 1]

Init ==
    /\ heap = Fresh.heap /\ demand = Fresh.demand
    /\ calls = <<>> /\ frames = <<>> /\ scratch = 0
    /\ feedback = <<>> /\ error = None /\ failing = FALSE
    /\ service = NoService /\ job = "none" /\ result = None
    /\ stored = Built

BeginPrepare ==
    /\ Idle /\ service = NoService
    /\ job' = "prepare"
    /\ UNCHANGED <<Execution, service, result, stored>>

(* telora_initialize evaluates the globals in order and stops at a failure.*)
Due(d) ==
    /\ demand[d].state # "ready"
    /\ \A e \in 1 .. d - 1 : demand[e].state = "ready"

InitializeGlobal(d) == job = "prepare" /\ AtRest /\ Due(d) /\ Start(d)

EndPrepare ==
    /\ job = "prepare" /\ AtRest
    /\ \A d \in Globals : demand[d].state = "ready"
    /\ service' = [service EXCEPT !.initializer = demand[Demands].value]
    /\ job' = "none"
    /\ UNCHANGED <<Execution, result, stored>>

FailPrepare ==
    /\ job = "prepare" /\ AtRest
    /\ \E d \in Globals : Due(d) /\ demand[d].state = "failed"
    /\ job' = "none"
    /\ UNCHANGED <<Execution, service, result, stored>>

(* materialize builds the value of a source; its loops have safepoints.    *)
StoreSource ==
    /\ Idle /\ service.initializer # None
    /\ \E h \in Afterwards(heap, frames) :
         /\ Fits(h)
         /\ LET o == Free(h)
            IN  /\ heap' = With(h, o, {})
                /\ service' = [service EXCEPT !.values = @ \cup {o}]
    /\ UNCHANGED <<demand, stack, report, job, result, stored>>

(* telora_invoke: the runtime allocates the argument and the output, and   *)
(* the callee publishes them.                                              *)
Invoke(c, contents) ==
    LET h == With(heap, New, contents)
        out == Free(h)
    IN  /\ Room /\ Fits(h)
        /\ Enter(With(h, out, {}), <<>>, <<>>, c, New, out, NoCapture)
        /\ result' = None
        /\ UNCHANGED <<demand, report, service, stored>>

BeginCreate ==
    /\ Idle /\ service.initializer # None
    /\ job' = "create"
    /\ Invoke(service.initializer, service.values)

EndCreate ==
    /\ job = "create" /\ AtRest /\ result # None
    /\ service' = [NoService EXCEPT !.handler = result]
    /\ job' = "none"
    /\ UNCHANGED <<Execution, result, stored>>

FailCreate ==
    /\ job = "create" /\ AtRest /\ result = None
    /\ job' = "none"
    /\ UNCHANGED <<Execution, service, result, stored>>

BeginRun ==
    /\ Idle /\ service.handler # None
    /\ job' = "run"
    /\ Invoke(service.handler, {})

(* The handler serializes failures: one that fails itself is a trap.       *)
EndRun ==
    /\ job = "run" /\ AtRest /\ result # None
    /\ job' = "none"
    /\ UNCHANGED <<Execution, service, result, stored>>

(* reset-service clears the frames and the feedback, the host the error.   *)
ResetFeedbackMutant == UNCHANGED feedback \* mutant: the rows of a request stay
ResetFeedback == feedback' = <<>>

Reset ==
    /\ Idle /\ service.handler # None
    /\ calls' = <<>> /\ frames' = <<>> /\ scratch' = 0
    /\ ResetFeedback
    /\ error' = None /\ failing' = FALSE
    /\ UNCHANGED <<heap, demand, export>>

(* An instance with the state of an image; a trap ends in the fresh one.   *)
Restore(image) ==
    /\ heap' = image.heap /\ demand' = image.demand
    /\ calls' = <<>> /\ frames' = <<>> /\ scratch' = 0
    /\ feedback' = image.feedback /\ error' = None /\ failing' = FALSE
    /\ service' = [NoService EXCEPT !.handler = image.handler]
    /\ job' = "none" /\ result' = None

(* An image holds what the handler, the globals and the feedback reach.    *)
Image ==
    LET live == Reached(heap, {service.handler} \cup DemandRoots \cup Elements(feedback))
    IN  [heap |-> [o \in live |-> heap[o]], demand |-> demand,
         feedback |-> feedback, handler |-> service.handler]

Export ==
    /\ Idle /\ service.handler # None
    /\ stored' = Image
    /\ Restore(Image)

Import == Restore(stored) /\ UNCHANGED stored
Trap == Restore(Fresh) /\ UNCHANGED stored

-----------------------------------------------------------------------------
(* One step of generated code.                                             *)

Step ==
    \/ Unwind
    \/ MakePlain
    \/ \E d \in Globals :
         UseReady(d) \/ UseFailed(d) \/ UseRunning(d) \/ Evaluate(d) \/ InitializeGlobal(d)
    \/ /\ calls # <<>>
       /\ \/ \E v \in Values(Here) \cup {None} : Make(v) \/ Fail(v)
          \/ \E v \in Values(Here) :
               \/ Warn(v) \/ Return(v) \/ Finish(v)
               \/ \E w \in Allocations : Load(v, w)
          \/ \E k \in 0 .. Len(Here.locals) : Release(k) \/ Discard(k)
          \/ \E c, a \in Values(Here) :
               \/ \E plain \in BOOLEAN : Call(c, a, plain, NoCapture)
               \/ Call(c, a, FALSE, Capturing)
               \/ TailCall(c, a)

Next ==
    \/ Step
    \/ BeginPrepare \/ EndPrepare \/ FailPrepare
    \/ StoreSource
    \/ BeginCreate \/ EndCreate \/ FailCreate
    \/ BeginRun \/ EndRun
    \/ Reset \/ Export \/ Import \/ Trap

Spec == Init /\ [][Next]_vars

-----------------------------------------------------------------------------
(* Properties.                                                             *)

Functions(n) == {i \in 1 .. n : calls[i].demand = None}

(* No reference the program can follow leads to a swept allocation or to   *)
(* the words of a scratch frame that was left: not from a local, whether   *)
(* it is published or not, nor from the output of a call, the contents of  *)
(* the heap, a global, the service, the diagnostics, the pending error or  *)
(* the result an export has still to take.                                 *)
Alive(r, level) == r = None \/ r \in DOMAIN heap \/ (r > HeapSize /\ r <= Scratch(level))

NoDangling ==
    /\ \A i \in 1 .. Top : \A r \in Values(calls[i]) \cup {calls[i].out} :
         Alive(r, Cardinality(Functions(i)))
    /\ \A o \in DOMAIN heap : heap[o] \subseteq DOMAIN heap
    /\ \A r \in Traced(frames) \cup Kept(frames) \cup {error} : Alive(r, scratch)
    /\ ~Idle => Alive(result, scratch)

(* The published frames and the scratch frames are those of the calls in   *)
(* progress, however a call ended; and a global is evaluated by one call   *)
(* at most, which a request that finds it running does not change.         *)
Balanced ==
    /\ Len(frames) = Top
    /\ scratch = Cardinality(Functions(Top))
    /\ \A i \in 1 .. Top : Len(frames[i].slots) = Len(calls[i].locals)

OneEvaluation ==
    \A d \in Globals :
      LET here == {i \in 1 .. Top : calls[i].demand = d}
      IN  /\ Cardinality(here) <= 1
          /\ demand[d].state = "running" => here # {}
          /\ demand[d].state \in {"pending", "ready"} => here = {}

=============================================================================
