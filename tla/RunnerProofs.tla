---------------------------- MODULE RunnerProofs ----------------------------
(* The runner keeps the contract of a service, whatever traps and whatever *)
(* cannot be instantiated.                                                 *)
EXTENDS Runner, TLAPS

USE GuestAssumption, RunnerAssumption

-----------------------------------------------------------------------------
(* The exports keep an instance well-typed.                                *)

LEMMA CompleteType == Complete \in [Slots -> Data \cup {Nothing}]
BY DEF Complete, Slots

LEMMA InstantiatedType == Instantiated \in Instance
BY DEF Instantiated, Instance, Phase, NoValues

LEMMA ImageType == ImageBaseline \in Snapshots /\ NoBaseline \in Snapshots
BY CompleteType DEF ImageBaseline, NoBaseline, Snapshots, NoValues

LEMMA TornType ==
  ASSUME NEW g \in Instance
  PROVE  Torn(g) \in Instance
BY DEF Torn, Instance

LEMMA RestoreType ==
  ASSUME NEW g \in Instance, NEW s \in Snapshots
  PROVE  Restore(g, s) \in Instance
BY DEF Restore, Instance, Snapshots, Phase

LEMMA SnapshotType ==
  ASSUME NEW g \in Instance
  PROVE  SnapshotOf(g) \in Snapshots
BY DEF SnapshotOf, Instance, Snapshots

LEMMA GlobalsType ==
  ASSUME NEW g \in Instance
  PROVE  WithGlobals(g) \in Instance
BY DEF WithGlobals, Instance

LEMMA PrepareType ==
  ASSUME NEW g \in Instance
  PROVE  Prepare(g) \subseteq Instance
<1>1. ASSUME NEW phase \in {"Prepared", "Failed"}
      PROVE  [g EXCEPT !.phase = phase, !.globals = "service"] \in Instance
  BY DEF Instance, Phase
<1> QED
  BY <1>1 DEF Prepare

LEMMA SetType ==
  ASSUME NEW g \in Instance, NEW n \in Slots, NEW d \in Data
  PROVE  SetSource(g, n, d) \subseteq Instance
<1>1. [g EXCEPT !.supplied = @ \cup {n}, !.phase = "Failed"] \in Instance
  BY DEF Instance, Phase
<1>2. [g EXCEPT !.supplied = @ \cup {n}, !.values[n] = d] \in Instance
  BY DEF Instance
<1> QED
  BY <1>1, <1>2 DEF SetSource

LEMMA CreateType ==
  ASSUME NEW g \in Instance
  PROVE  Create(g) \subseteq Instance
<1>1. NoValues \in [Slots -> Data \cup {Nothing}]
  BY DEF NoValues
<1>2. [g EXCEPT !.phase = "Ready", !.sealed = TRUE,
                !.handler = g.values, !.values = NoValues] \in Instance
  BY <1>1 DEF Instance, Phase
<1>3. /\ [g EXCEPT !.phase = "Failed"] \in Instance
      /\ [g EXCEPT !.phase = "Failed", !.sealed = TRUE] \in Instance
  BY DEF Instance, Phase
<1> QED
  BY <1>2, <1>3 DEF Create

LEMMA RunType ==
  ASSUME NEW g \in Instance
  PROVE  Run(g) \in Instance /\ ResetExport(g) \in Instance
BY DEF Run, ResetExport, Instance, Buffers

-----------------------------------------------------------------------------
(* The inductive invariant.                                                *)

(* Nobody called the first instance yet.                                   *)
Untouched == guest = Instantiated /\ next = 1

(* The sources injected so far are in the slots of their names.            *)
Injected ==
    /\ Len(names) = Len(given)
    /\ guest.phase \in {"Prepared", "Failed"}
    /\ guest.phase = "Prepared" =>
         /\ names = Declared
         /\ ~guest.sealed
         /\ guest.supplied = {Declared[i] : i \in 1 .. next - 1}
         /\ \A i \in 1 .. next - 1 : guest.values[Declared[i]] = Declared[i]

(* An instance of the complete service that no call left halfway.          *)
Whole(g) == g.phase = "Ready" /\ g.handler = Complete /\ ~g.torn

Initializing == pc \in {"import", "sources", "inject", "compact"}
InRequest == pc \in {"reset", "run", "call", "respond"}

IInv ==
    /\ TypeOK
    /\ ~misused
    /\ pc = "idle" /\ ~ready /\ ~poisoned => Untouched
    /\ Initializing => poisoned /\ ~ready
    /\ pc \in {"import", "sources"} => Untouched
    /\ pc = "inject" => Injected
    /\ pc = "inject" \/ pc = "compact" =>
         guest.globals = "service" /\ ~guest.torn
    /\ pc = "compact" => guest.phase = "Ready" /\ guest.handler = Complete
    /\ pc = "settle" \/ InRequest => ready
    /\ ready => baseline.handler = Complete
    /\ ready /\ ~poisoned => Whole(guest)
    /\ ready /\ ~poisoned /\ pc \notin {"call", "respond"} => guest.buffers = {}
    /\ InRequest => input \in Requests
    /\ pc \in {"run", "call", "respond"} => ~poisoned
    /\ pc \in {"run", "call"} => Seen(guest) = Pristine
    /\ pc = "call" => {"body", "record"} \subseteq guest.buffers
    /\ pc = "respond" => output = Pristine

LEMMA InitIInv == Init => IInv
<1> SUFFICES ASSUME Init PROVE IInv
  OBVIOUS
<1>1. TypeOK
  <2>1. <<>> \in Seq(Data) /\ Len(<<>>) = 0
    OBVIOUS
  <2>2. given \in Seq(Data) /\ names \in {<<>>, Declared} /\ next \in 1 .. Len(given) + 1
    BY <2>1 DEF Init
  <2>3. runs \in 0 .. MaxRuns
    BY DEF Init
  <2> QED
    BY <2>2, <2>3, InstantiatedType, ImageType DEF Init, TypeOK, Stages
<1> QED
  BY <1>1 DEF Init, IInv, Untouched, Initializing, InRequest

-----------------------------------------------------------------------------
(* Initialization.                                                         *)

LEMMA InitializeKeeps ==
  ASSUME IInv, NEW s \in Given, Initialize(s)
  PROVE  IInv'
<1>1. TypeOK'
  <2>1. s \in Seq(Data) /\ next = 1 /\ Len(s) \in Nat
    BY DEF IInv, Initialize, MayInitialize, Untouched
  <2>2. next' \in 1 .. Len(given') + 1 /\ given' \in Seq(Data)
    BY <2>1 DEF Initialize
  <2> QED
    BY <2>2 DEF IInv, TypeOK, Initialize, Stages
<1> QED
  BY <1>1 DEF IInv, Initialize, MayInitialize, Untouched, Initializing, InRequest

LEMMA FailKeeps ==
  ASSUME IInv, Initializing, FailInitialize, misused' = misused, guest' \in Instance
  PROVE  IInv'
<1>1. TypeOK'
  BY DEF IInv, TypeOK, FailInitialize, flags, call, Stages
<1> QED
  BY <1>1 DEF IInv, FailInitialize, flags, call, Initializing, InRequest

LEMMA PublishKeeps ==
  ASSUME IInv, Initializing, misused' = misused,
         NEW g \in Instance, NEW s \in Snapshots, Publish(g, s),
         Whole(g), g.buffers = {}, s.handler = Complete
  PROVE  IInv'
<1>1. TypeOK'
  BY DEF IInv, TypeOK, Publish, call, Stages
<1> QED
  BY <1>1 DEF IInv, Publish, call, Initializing, InRequest, Whole

LEMMA ImportKeeps == IInv /\ ImportImage => IInv'
<1> SUFFICES ASSUME IInv, ImportImage PROVE IInv'
  OBVIOUS
<1> DEFINE g == [Restore(guest, ImageBaseline) EXCEPT !.globals = "service"]
<1>1. guest = Instantiated /\ ~misused
  BY DEF IInv, ImportImage, Untouched
<1>2. Restore(guest, ImageBaseline) \in Instance
  BY <1>1, InstantiatedType, ImageType, RestoreType
<1>3. g \in Instance
  BY <1>2 DEF Instance
<1>4. Whole(g) /\ g.buffers = {}
  BY <1>1, <1>2 DEF Whole, Restore, Instantiated, ImageBaseline
<1>5. misused' = misused
  <2>1. RestoreAsserts(guest) /\ misused = FALSE
    BY <1>1 DEF RestoreAsserts, Instantiated, IInv, TypeOK
  <2> QED
    BY <2>1 DEF ImportImage, Asserted
<1>6. Initializing /\ ImageBaseline.handler = Complete /\ Publish(g, ImageBaseline)
  BY DEF ImportImage, Initializing, ImageBaseline
<1> HIDE DEF g
<1> QED
  BY <1>3, <1>4, <1>5, <1>6, ImageType, PublishKeeps

LEMMA FetchKeeps == IInv /\ FetchNames => IInv'
<1> SUFFICES ASSUME IInv, FetchNames PROVE IInv'
  OBVIOUS
<1>1. /\ guest = Instantiated /\ next = 1 /\ guest' \in Prepare(guest)
      /\ names' = NamesOf(guest') /\ next' = next /\ given' = given /\ misused' = misused
      /\ UNCHANGED flags /\ poisoned /\ ~ready
  BY DEF IInv, FetchNames, Untouched, Initializing
<1>2. /\ guest' \in Instance
      /\ guest'.phase \in {"Prepared", "Failed"} /\ guest'.globals = "service"
      /\ ~guest'.torn /\ ~guest'.sealed /\ guest'.supplied = {}
  BY <1>1, PrepareType, InstantiatedType, ZenonT(40) DEF Prepare, Instantiated
<1>3. names' \in {<<>>, Declared} /\ (guest'.phase = "Prepared" => names' = Declared)
  BY <1>1 DEF NamesOf, IsPrepared
<1>4. TypeOK'
  BY <1>1, <1>2, <1>3 DEF IInv, TypeOK, FetchNames, flags, Stages
<1>5. CASE Len(NamesOf(guest')) = Len(given)
  <2>1. pc' = "inject"
    BY <1>5 DEF FetchNames
  <2>2. Injected'
    <3>1. Len(names') = Len(given')
      BY <1>1, <1>5
    <3>2. {Declared[i] : i \in 1 .. next' - 1} = {}
      BY <1>1
    <3> QED
      BY <1>1, <1>2, <1>3, <3>1, <3>2 DEF Injected
  <2> QED
    BY <1>1, <1>2, <1>4, <2>1, <2>2 DEF IInv, flags, Initializing, InRequest
<1>6. CASE Len(NamesOf(guest')) # Len(given)
  <2>1. pc' = "idle"
    BY <1>6 DEF FetchNames
  <2> QED
    BY <1>1, <1>4, <2>1 DEF IInv, flags, Initializing, InRequest
<1> QED
  BY <1>5, <1>6

LEMMA InjectKeeps == IInv /\ InjectSource => IInv'
<1> SUFFICES ASSUME IInv, InjectSource PROVE IInv'
  OBVIOUS
<1>1. /\ pc = "inject" /\ pc' = "inject" /\ next \in Nat \ {0} /\ next <= Len(given)
      /\ given[next] = names[next] /\ next' = next + 1 /\ given' = given /\ names' = names
      /\ guest' \in SetSource(guest, names[next], given[next])
      /\ misused' = (misused \/ ~SetAsserts(guest, names[next]))
      /\ UNCHANGED flags /\ poisoned /\ ~ready /\ ~misused /\ Injected
      /\ guest.globals = "service" /\ ~guest.torn
  BY DEF IInv, TypeOK, InjectSource, MoreSources, NameMatches, Asserted, Initializing
<1>2. guest \in Instance /\ given \in Seq(Data) /\ names \in {<<>>, Declared}
      /\ Len(names) = Len(given) /\ next \in 1 .. Len(given)
  BY <1>1 DEF IInv, TypeOK, Injected
<1>3. names = Declared /\ names[next] \in Slots /\ given[next] \in Data
  BY <1>2 DEF Slots
<1>4. guest' \in Instance
  BY <1>1, <1>2, <1>3, SetType
<1>5. CASE guest.phase = "Prepared"
  <2>1. /\ ~guest.sealed
        /\ guest.supplied = {Declared[i] : i \in 1 .. next - 1}
        /\ \A i \in 1 .. next - 1 : guest.values[Declared[i]] = Declared[i]
    BY <1>1, <1>5 DEF Injected
  <2>2. names[next] \notin guest.supplied
    BY <1>2, <1>3, <2>1
  <2>3. misused' = misused
    <3>1. SetAsserts(guest, names[next]) /\ misused = FALSE
      BY <1>1, <1>5, <2>1, <2>2 DEF SetAsserts, IInv, TypeOK
    <3> QED
      BY <1>1, <3>1
  <2>4. /\ guest'.globals = "service" /\ ~guest'.torn
        /\ guest'.phase \in {"Prepared", "Failed"}
        /\ guest'.phase = "Prepared" =>
             /\ guest'.sealed = guest.sealed
             /\ guest'.supplied = guest.supplied \cup {Declared[next]}
             /\ guest'.values = [guest.values EXCEPT ![Declared[next]] = Declared[next]]
    <3>1. \/ guest' = [guest EXCEPT !.supplied = @ \cup {names[next]},
                                     !.values[names[next]] = given[next]]
          \/ guest' = [guest EXCEPT !.supplied = @ \cup {names[next]}, !.phase = "Failed"]
      BY <1>1, <1>5, Zenon DEF SetSource, IsPrepared
    <3>2. names[next] = Declared[next] /\ given[next] = Declared[next]
      BY <1>1, <1>3
    <3>3. guest.globals = "service" /\ ~guest.torn
      BY <1>1
    <3>4. CASE guest' = [guest EXCEPT !.supplied = @ \cup {names[next]},
                                      !.values[names[next]] = given[next]]
      BY <1>2, <1>5, <3>2, <3>3, <3>4 DEF Instance
    <3>5. CASE guest' = [guest EXCEPT !.supplied = @ \cup {names[next]}, !.phase = "Failed"]
      BY <1>2, <3>3, <3>5 DEF Instance
    <3> QED
      BY <3>1, <3>4, <3>5
  <2>5. guest'.phase = "Prepared" =>
          /\ guest'.supplied = {Declared[i] : i \in 1 .. next' - 1}
          /\ \A i \in 1 .. next' - 1 : guest'.values[Declared[i]] = Declared[i]
    <3> SUFFICES ASSUME guest'.phase = "Prepared"
                 PROVE  /\ guest'.supplied = {Declared[i] : i \in 1 .. next' - 1}
                        /\ \A i \in 1 .. next' - 1 : guest'.values[Declared[i]] = Declared[i]
      OBVIOUS
    <3>1. 1 .. next' - 1 = (1 .. next - 1) \cup {next}
      BY <1>1
    <3>2. guest'.supplied = {Declared[i] : i \in 1 .. next' - 1}
      BY <2>1, <2>4, <3>1, SMTT(30)
    <3>3. guest.values \in [Slots -> Data \cup {Nothing}] /\ Declared[next] \in Slots
      BY <1>2, <1>3 DEF Instance
    <3>4. ASSUME NEW i \in 1 .. next' - 1
          PROVE  guest'.values[Declared[i]] = Declared[i]
      <4>1. CASE i = next
        BY <2>4, <3>3, <4>1
      <4>2. CASE i # next
        <5>1. i \in 1 .. next - 1
          BY <3>1, <4>2
        <5>2. i \in 1 .. Len(Declared) /\ next \in 1 .. Len(Declared)
          BY <1>2, <1>3, <5>1
        <5>3. Declared[i] \in Slots
          BY <5>2 DEF Slots
        <5>4. Declared[i] # Declared[next]
          BY <4>2, <5>2
        <5> QED
          BY <2>1, <2>4, <3>3, <5>1, <5>3, <5>4
      <4> QED
        BY <4>1, <4>2
    <3> QED
      BY <3>2, <3>4
  <2>6. Injected'
    BY <1>1, <1>2, <1>3, <2>1, <2>4, <2>5 DEF Injected
  <2>7. TypeOK'
    BY <1>1, <1>2, <1>4, <2>3 DEF IInv, TypeOK, InjectSource, flags
  <2> QED
    BY <1>1, <2>3, <2>4, <2>6, <2>7 DEF IInv, flags, Initializing, InRequest
<1>6. CASE guest.phase = "Failed"
  <2>1. guest' = guest /\ misused' = misused
    <3>1. ~IsPrepared(guest) /\ misused = FALSE
      BY <1>1, <1>6 DEF IsPrepared, IInv, TypeOK
    <3> QED
      BY <1>1, <3>1 DEF SetSource, SetAsserts
  <2>2. Injected'
    BY <1>1, <1>6, <2>1 DEF Injected
  <2>3. TypeOK'
    BY <1>1, <1>2, <1>4, <2>1 DEF IInv, TypeOK, InjectSource, flags
  <2> QED
    BY <1>1, <2>1, <2>2, <2>3 DEF IInv, flags, Initializing, InRequest
<1> QED
  BY <1>1, <1>5, <1>6 DEF Injected

LEMMA CreateKeeps == IInv /\ CreateService => IInv'
<1> SUFFICES ASSUME IInv, CreateService PROVE IInv'
  OBVIOUS
<1>1. /\ pc = "inject" /\ ~MoreSources /\ guest' \in Create(guest) /\ guest \in Instance
      /\ UNCHANGED <<flags, call, reply>> /\ poisoned /\ ~ready /\ misused = FALSE
      /\ Injected /\ guest.globals = "service" /\ ~guest.torn
  BY DEF IInv, TypeOK, CreateService, Initializing
<1>2. guest' \in Instance
  BY <1>1, CreateType
<1>3. misused' = misused
  <2>1. CreateAsserts(guest)
    BY <1>1 DEF CreateAsserts, IsPrepared, Injected
  <2> QED
    BY <1>1, <2>1 DEF CreateService, Asserted
<1>4. TypeOK'
  BY <1>1, <1>2, <1>3 DEF IInv, TypeOK, CreateService, flags, call, Stages
<1>5. CASE guest'.phase = "Ready"
  <2>1. /\ guest.phase = "Prepared"
        /\ guest' = [guest EXCEPT !.phase = "Ready", !.sealed = TRUE,
                                  !.handler = guest.values, !.values = NoValues]
    BY <1>1, <1>5 DEF Create, IsPrepared, Injected, Instance
  <2>2. guest.values = Complete
    <3>1. guest.values \in [Slots -> Data \cup {Nothing}]
      BY <1>1 DEF Instance
    <3>2. next = Len(Declared) + 1
      BY <1>1, <2>1 DEF MoreSources, Injected, IInv, TypeOK
    <3>3. ASSUME NEW n \in Slots PROVE guest.values[n] = n
      <4>1. PICK i \in 1 .. Len(Declared) : n = Declared[i]
        BY DEF Slots
      <4> QED
        BY <1>1, <2>1, <3>2, <4>1 DEF Injected
    <3> QED
      BY <3>1, <3>3 DEF Complete
  <2>3. guest'.handler = Complete /\ guest'.globals = "service" /\ ~guest'.torn
    BY <1>1, <2>1, <2>2 DEF Instance
  <2>4. pc' = "compact"
    BY <1>5 DEF CreateService
  <2> QED
    BY <1>1, <1>3, <1>4, <1>5, <2>3, <2>4 DEF IInv, flags, call, Initializing, InRequest
<1>6. CASE guest'.phase # "Ready"
  <2>1. pc' = "idle"
    BY <1>6 DEF CreateService
  <2> QED
    BY <1>1, <1>3, <1>4, <2>1 DEF IInv, flags, call, Initializing, InRequest
<1> QED
  BY <1>5, <1>6

LEMMA CompactKeeps == IInv /\ Compact => IInv'
<1> SUFFICES ASSUME IInv, Compact PROVE IInv'
  OBVIOUS
<1> DEFINE h == Restore(Instantiated, SnapshotOf(guest))
           g == [h EXCEPT !.globals = guest.globals]
<1>1. /\ guest \in Instance /\ guest.phase = "Ready" /\ guest.handler = Complete
      /\ guest.globals = "service" /\ misused = FALSE
  BY DEF IInv, TypeOK, Compact
<1>2. SnapshotOf(guest) \in Snapshots /\ SnapshotOf(guest).handler = Complete
  BY <1>1, SnapshotType DEF SnapshotOf
<1>3. h \in Instance
  BY <1>2, InstantiatedType, RestoreType
<1>4. h.phase = "Ready" /\ h.handler = Complete /\ ~h.torn /\ h.buffers = {}
  BY <1>2 DEF Restore, Instantiated
<1>5. misused' = misused
  <2>1. SnapshotAsserts(guest) /\ RestoreAsserts(Instantiated)
    BY <1>1 DEF SnapshotAsserts, RestoreAsserts, Instantiated
  <2> QED
    BY <1>1, <2>1 DEF Compact, Asserted
<1>6. Initializing /\ Publish(g, SnapshotOf(guest))
  BY DEF Compact, Initializing
<1> HIDE DEF h
<1>7. g \in Instance /\ Whole(g) /\ g.buffers = {}
  BY <1>1, <1>3, <1>4 DEF Instance, Whole
<1> HIDE DEF g
<1> QED
  BY <1>2, <1>5, <1>6, <1>7, PublishKeeps

-----------------------------------------------------------------------------
(* Reset and requests.                                                     *)

LEMMA SettledKeeps ==
  ASSUME IInv, pc \in Resets, Settled, misused' = misused,
         NEW g \in Instance, guest' = WithGlobals(g), Whole(g), g.buffers = {}, ~g.residue
  PROVE  IInv'
<1>1. /\ pc' \in {"idle", "run"}
      /\ pc' = "run" => pc = "reset"
      /\ poisoned' = FALSE /\ outcome' \in {outcome, "ok"}
      /\ UNCHANGED <<ready, image, baseline, call, reply>>
  BY DEF Settled, Resets
<1>2. ready /\ baseline.handler = Complete
  BY DEF IInv, Resets, InRequest
<1>3. /\ guest' \in Instance /\ guest'.phase = "Ready" /\ guest'.handler = Complete
      /\ guest'.globals = "service" /\ ~guest'.torn /\ guest'.buffers = {} /\ ~guest'.residue
  BY GlobalsType DEF WithGlobals, Whole, Instance
<1>4. misused = FALSE /\ ready \in BOOLEAN /\ image \in BOOLEAN
  BY DEF IInv, TypeOK
<1>5. /\ ~misused' /\ ready' /\ ~poisoned' /\ baseline'.handler = Complete
      /\ ready' \in BOOLEAN /\ image' \in BOOLEAN /\ poisoned' \in BOOLEAN
      /\ misused' \in BOOLEAN
  BY <1>1, <1>2, <1>4
<1>6. TypeOK'
  <2>1. /\ given' \in Seq(Data) /\ names' \in {<<>>, Declared}
        /\ next' \in 1 .. Len(given') + 1 /\ input' \in Requests \cup {NoReply}
        /\ runs' \in 0 .. MaxRuns /\ baseline' \in Snapshots
    BY <1>1 DEF IInv, TypeOK, call
  <2>2. outcome' \in {"none", "ok", "failed"} /\ pc' \in Stages
    BY <1>1 DEF IInv, TypeOK, Stages
  <2> QED
    BY <1>3, <1>5, <2>1, <2>2 DEF TypeOK
<1>7. Seen(guest') = Pristine
  <2>1. guest'.residue = FALSE /\ guest'.torn = FALSE
    BY <1>3 DEF Instance
  <2> QED
    BY <1>3, <2>1 DEF Seen, Pristine
<1>8. Whole(guest')
  BY <1>3 DEF Whole
<1>9. pc' = "run" => input' \in Requests
  BY <1>1 DEF IInv, InRequest, call
<1>10. ~Initializing' /\ pc' \notin {"import", "sources", "inject", "compact", "settle", "call", "respond"}
  BY <1>1 DEF Initializing
<1>11. (Seen(guest) = Pristine)'
  BY <1>7 DEF Pristine, Complete
<1>12. InRequest' => pc' = "run"
  BY <1>1 DEF InRequest
<1>13. (baseline.handler = Complete)' /\ Whole(guest)'
  BY <1>5, <1>8 DEF Complete, Whole
<1> QED
  BY <1>3, <1>5, <1>6, <1>9, <1>10, <1>11, <1>12, <1>13 DEF IInv

LEMMA InPlaceKeeps == IInv /\ ResetInPlace => IInv'
<1> SUFFICES ASSUME IInv, ResetInPlace PROVE IInv'
  OBVIOUS
<1>1. /\ guest \in Instance /\ ready /\ ~poisoned /\ Whole(guest) /\ guest.buffers = {}
      /\ misused = FALSE /\ pc \in Resets /\ Settled /\ guest' = WithGlobals(ResetExport(guest))
  BY DEF IInv, TypeOK, ResetInPlace, Resets, InRequest
<1>2. misused' = misused
  <2>1. ResetAsserts(guest)
    BY <1>1 DEF ResetAsserts, Whole
  <2> QED
    BY <1>1, <2>1 DEF ResetInPlace, Asserted
<1>3. ResetExport(guest) \in Instance
  BY <1>1, RunType
<1>4. /\ Whole(ResetExport(guest)) /\ ResetExport(guest).buffers = {}
      /\ ~ResetExport(guest).residue
  BY <1>1 DEF ResetExport, Whole, Instance
<1> QED
  BY <1>1, <1>2, <1>3, <1>4, SettledKeeps

LEMMA ReinstantiateKeeps == IInv /\ Reinstantiate => IInv'
<1> SUFFICES ASSUME IInv, Reinstantiate PROVE IInv'
  OBVIOUS
<1> DEFINE g == Restore(Instantiated, baseline)
<1>1. /\ baseline \in Snapshots /\ baseline.handler = Complete
      /\ misused = FALSE /\ pc \in Resets /\ Settled /\ guest' = WithGlobals(g)
  BY DEF IInv, TypeOK, Reinstantiate, Resets, InRequest
<1>2. misused' = misused
  <2>1. RestoreAsserts(Instantiated)
    BY DEF RestoreAsserts, Instantiated
  <2> QED
    BY <1>1, <2>1 DEF Reinstantiate, Asserted
<1>3. g \in Instance
  BY <1>1, InstantiatedType, RestoreType
<1>4. Whole(g) /\ g.buffers = {} /\ ~g.residue
  BY <1>1 DEF Whole, Restore, Instantiated
<1> HIDE DEF g
<1> QED
  BY <1>1, <1>2, <1>3, <1>4, SettledKeeps

LEMMA ResetFailsKeeps == IInv /\ ResetFails => IInv'
<1> SUFFICES ASSUME IInv, ResetFails PROVE IInv'
  OBVIOUS
<1>1. guest' \in Instance
  BY TornType DEF IInv, TypeOK, ResetFails
<1>2. TypeOK'
  BY <1>1 DEF IInv, TypeOK, ResetFails, call, Stages
<1> QED
  BY <1>2 DEF IInv, ResetFails, call, Initializing, InRequest, Resets

LEMMA RequestKeeps == ASSUME IInv, NEW x \in Requests, Request(x) PROVE IInv'
<1>1. TypeOK'
  BY DEF IInv, TypeOK, Request, flags, Stages
<1> QED
  BY <1>1 DEF IInv, Request, flags, Initializing, InRequest, Whole

LEMMA TransferKeeps == IInv /\ Transfer => IInv'
<1> SUFFICES ASSUME IInv, Transfer PROVE IInv'
  OBVIOUS
<1>1. /\ guest' \in Instance /\ guest'.buffers = {"body", "record"}
      /\ Whole(guest) => Whole(guest')
      /\ Seen(guest') = Seen(guest)
  BY DEF IInv, TypeOK, Transfer, Instance, Buffers, Whole, Seen
<1>2. TypeOK'
  BY <1>1 DEF IInv, TypeOK, Transfer, flags, call, Stages
<1>3. Pristine' = Pristine
  OBVIOUS
<1> QED
  BY <1>1, <1>2 DEF IInv, Transfer, flags, call, Initializing, InRequest

LEMMA RunKeeps == IInv /\ RunService => IInv'
<1> SUFFICES ASSUME IInv, RunService PROVE IInv'
  OBVIOUS
<1>1. /\ guest \in Instance /\ ready /\ ~poisoned /\ Whole(guest) /\ misused = FALSE
      /\ {"body", "record"} \subseteq guest.buffers /\ Seen(guest) = Pristine
  BY DEF IInv, TypeOK, RunService, InRequest
<1>2. misused' = misused
  <2>1. RunAsserts(guest)
    BY <1>1 DEF RunAsserts, Whole
  <2> QED
    BY <1>1, <2>1 DEF RunService, Asserted
<1>3. guest' \in Instance /\ Whole(guest')
  BY <1>1, RunType DEF RunService, Run, Whole, Instance
<1>4. TypeOK'
  BY <1>2, <1>3 DEF IInv, TypeOK, RunService, flags, Stages
<1> QED
  BY <1>1, <1>2, <1>3, <1>4 DEF IInv, RunService, flags, Initializing, InRequest

LEMMA RespondKeeps == IInv /\ Respond => IInv'
<1> SUFFICES ASSUME IInv, Respond PROVE IInv'
  OBVIOUS
<1>1. guest' \in Instance /\ guest'.buffers = {} /\ (Whole(guest) => Whole(guest'))
  BY DEF IInv, TypeOK, Respond, Instance, Buffers, Whole
<1>2. TypeOK'
  BY <1>1 DEF IInv, TypeOK, Respond, flags, call, Stages
<1> QED
  BY <1>1, <1>2 DEF IInv, Respond, flags, call, Initializing, InRequest

LEMMA RequestFailsKeeps == IInv /\ RequestFails => IInv'
<1> SUFFICES ASSUME IInv, RequestFails PROVE IInv'
  OBVIOUS
<1>1. guest' \in Instance
  BY TornType DEF IInv, TypeOK, RequestFails
<1>2. TypeOK'
  BY <1>1 DEF IInv, TypeOK, RequestFails, call, Stages, Poison
<1> QED
  BY <1>2 DEF IInv, RequestFails, call, Initializing, InRequest, Poison

LEMMA NextIInv == IInv /\ [Next]_vars => IInv'
<1> SUFFICES ASSUME IInv, [Next]_vars PROVE IInv'
  OBVIOUS
<1>1. ASSUME NEW s \in Given, Initialize(s) PROVE IInv'
  BY <1>1, InitializeKeeps
<1>2. CASE InitializeTraps
  <2>1. guest' \in Instance
    BY <1>2, TornType DEF InitializeTraps, IInv, TypeOK
  <2> QED
    BY <1>2, <2>1, FailKeeps DEF InitializeTraps, Initializing
<1>3. CASE NameMismatch
  <2>1. guest' \in Instance
    BY <1>3 DEF NameMismatch, IInv, TypeOK
  <2> QED
    BY <1>3, <2>1, FailKeeps DEF NameMismatch, Initializing
<1>4. ASSUME NEW x \in Requests, Request(x) PROVE IInv'
  BY <1>4, RequestKeeps
<1>5. CASE UNCHANGED vars
  <2>1. TypeOK'
    BY <1>5 DEF vars, flags, call, IInv, TypeOK
  <2> QED
    BY <1>5, <2>1 DEF vars, flags, call, IInv, Untouched, Injected, Initializing,
       InRequest, Whole, Seen
<1> QED
  BY <1>1, <1>2, <1>3, <1>4, <1>5, ImportKeeps, FetchKeeps, InjectKeeps, CreateKeeps,
     CompactKeeps, InPlaceKeeps, ReinstantiateKeeps, ResetFailsKeeps, TransferKeeps,
     RunKeeps, RespondKeeps, RequestFailsKeeps DEF Next

THEOREM RunnerInvariant == Spec => []IInv
BY InitIInv, NextIInv, PTL DEF Spec

-----------------------------------------------------------------------------
(* Every variable keeps its type.                                          *)
THEOREM RunnerTypeCorrect == Spec => []TypeOK
<1>1. IInv => TypeOK
  BY DEF IInv
<1> QED
  BY <1>1, RunnerInvariant, PTL

(* The runner never breaks an assertion or a stated requirement of the     *)
(* guest, for every entry, every list of sources and every trap.           *)
THEOREM RunnerNeverMisuses == Spec => []NeverMisused
<1>1. IInv => NeverMisused
  BY DEF IInv, NeverMisused
<1> QED
  BY <1>1, RunnerInvariant, PTL

LEMMA StepImplements ==
  ASSUME IInv, [Next]_vars
  PROVE  [Service!Next]_<<ready, reply>>
<1> USE DEF Service!Next, Service!Publish, Service!Answer, Service!Fail
<1>1. CASE Respond
  <2>1. ready /\ input \in Requests /\ output = Pristine
    BY <1>1 DEF Respond, IInv, InRequest
  <2>2. Service!Answer(input)
    BY <1>1, <2>1 DEF Respond, flags
  <2> QED
    BY <2>1, <2>2
<1>2. CASE RequestFails \/ ResetFails
  <2>1. ready
    BY <1>2 DEF RequestFails, ResetFails, IInv, InRequest, Resets
  <2>2. Service!Fail \/ UNCHANGED <<ready, reply>>
    BY <1>2, <2>1 DEF RequestFails, ResetFails
  <2> QED
    BY <2>2
<1>3. CASE ImportImage \/ Compact
  <2>1. ~ready
    BY <1>3 DEF ImportImage, Compact, IInv, Initializing
  <2>2. ready' = TRUE /\ reply' = reply
    BY <1>3 DEF ImportImage, Compact, Publish
  <2>3. Service!Publish
    BY <2>1, <2>2
  <2> QED
    BY <2>3
<1>4. CASE (\E s \in Given : Initialize(s)) \/ InitializeTraps \/ FetchNames \/ NameMismatch
           \/ InjectSource \/ CreateService \/ ResetInPlace \/ Reinstantiate
           \/ (\E x \in Requests : Request(x)) \/ Transfer \/ RunService \/ UNCHANGED vars
  BY <1>4 DEF Initialize, InitializeTraps, FailInitialize, FetchNames, NameMismatch,
     InjectSource, CreateService, ResetInPlace, Reinstantiate, Settled, Request,
     Transfer, RunService, vars, flags
<1> QED
  BY <1>1, <1>2, <1>3, <1>4 DEF Next

(* Every reply of a published service is computed from the request and the *)
(* service as initialized with the sources named for it, or is a failure.  *)
THEOREM RunnerImplements == Spec => ImplementsService
<1>1. Init => Service!Init
  BY DEF Init, Service!Init
<1>2. IInv /\ [Next]_vars => [Service!Next]_<<ready, reply>>
  BY StepImplements
<1> QED
  BY <1>1, <1>2, RunnerInvariant, PTL DEF Spec, ImplementsService, Service!Spec, Service!vars

=============================================================================
