-------------------------- MODULE ImosStoreProofs --------------------------
(***************************************************************************)
(* Proofs about the artifact store, for any number of processes, inodes,   *)
(* paths, plans and downloads, and for any bounds.                         *)
(***************************************************************************)
EXTENDS ImosStore, FiniteSetTheorems, TLAPS

-----------------------------------------------------------------------------
(* The inductive invariant.                                                *)

OnPath == CreateSteps \cup RemoveSteps
Keyed == {"reqLock", "persist", "gcShared", "installLock", "check", "build",
          "link", "verify", "rowCheck", "bind"}
Registering == {"link", "verify", "rowCheck", "bind"}
SharedSteps == {"installLock", "check", "build", "rmSnapshot", "rmRow", "rmLink"}
               \cup Registering
Sweeping == GcSteps \ {"gcLock"}

(* Plan files spell plans; a call has its path, and its plan key once read.*)
FilesSpellPlans == \A u \in Path : path[u] # Nil => content[path[u]] \in Plan
CallsFormed ==
  \A p \in Proc : /\ pc[p] \in OnPath => job[p].path \in Path
                  /\ pc[p] \in Keyed => key[p] \in Plan
TypeInv == TypeOK /\ FilesSpellPlans /\ CallsFormed

(* The gc lock is exclusive and whoever works under it holds it.           *)
GcLockInv ==
  /\ gcExcl # Nil => gcShared = {}
  /\ \A p \in Proc :
       /\ pc[p] \in SharedSteps => p \in gcShared
       /\ pc[p] \in Sweeping => gcExcl = p
       /\ \A d \in Dl : fetch[p][d] # "none" => p \in gcShared

(* From rows down to downloads.                                            *)
RowsInstalled == \A i \in Ino : row[i] # Nil => install[row[i]] # "none"
RowsRelated ==
  \A i \in Ino : row[i] # Nil => \A d \in Items[row[i]] : <<row[i], d>> \in rel
InstallsFetched ==
  \A k \in Plan : install[k] # "none" => \A d \in Items[k] : dl[d] = "whole"

(* What a create has found or made is still there.                         *)
CreatesBacked ==
  \A p \in Proc :
    /\ pc[p] \in Registering => install[key[p]] # "none"
    /\ \A d \in Dl : fetch[p][d] = "done" => dl[d] = "whole"

(* What a gc spares covers what the database references.                   *)
SweepsSpare ==
  \A p \in Proc :
    /\ pc[p] = "gcInstalls" => job[p].live = LiveKeys
    /\ pc[p] = "gcDownloads" =>
         /\ \A k \in Plan : install[k] # "none" => \E i \in Ino : row[i] = k
         /\ \A i \in Ino : row[i] # Nil => \A d \in Items[row[i]] : d \in job[p].live

BackInv == /\ RowsInstalled /\ RowsRelated /\ InstallsFetched
           /\ CreatesBacked /\ SweepsSpare
IInv == TypeInv /\ GcLockInv /\ BackInv

-----------------------------------------------------------------------------
(* Types.                                                                  *)

(* A link count is a number: inodes and paths are finite (FileSnapshot).   *)
LEMMA LinksNat == \A i : Links(i) \in Nat
<1> TAKE i
<1>1. IsFiniteSet(Upstream(i))
  BY FS_Subset, FiniteAssumption DEF Upstream
<1>2. IsFiniteSet({n \in Ino : reg[n] = i})
  BY FS_Subset, FiniteAssumption
<1> QED
  BY <1>1, <1>2, FS_CardinalityType DEF Links

(* An empty store is well typed.                                           *)
LEMMA TypeInit == Init => TypeInv
  BY NilAssumption DEF Init, TypeInv, TypeOK, FilesSpellPlans, CallsFormed,
     Step, CreateSteps, RemoveSteps, GcSteps, OnPath, Keyed, Job, IdleJob, Kind,
     NoFetch, Fetch, Object

(* A user's write, edit, link or unlink keeps plan files readable plans.   *)
LEMMA TypeUser == TypeInv /\ UserStep => TypeInv'
<1> SUFFICES ASSUME TypeInv, UserStep PROVE TypeInv'
  OBVIOUS
<1> USE DEF TypeInv, TypeOK, FilesSpellPlans, CallsFormed, UserTick, UserUnchanged,
        objVars, dbVars, lockVars, procVars, promises
<1>1. ASSUME NEW u \in Path, NEW k \in Plan, UserWrite(u, k) PROVE TypeInv'
  BY <1>1, NilAssumption DEF UserWrite, FreeIno
<1>2. ASSUME NEW u \in Path, NEW k \in Plan, UserEdit(u, k) PROVE TypeInv'
  BY <1>2, NilAssumption DEF UserEdit, Cancel
<1>3. ASSUME NEW u \in Path, NEW v \in Path, UserLink(u, v) PROVE TypeInv'
  BY <1>3, NilAssumption DEF UserLink
<1>4. ASSUME NEW u \in Path, UserUnlink(u) PROVE TypeInv'
  BY <1>4, NilAssumption DEF UserUnlink, Reconsider
<1> QED
  BY <1>1, <1>2, <1>3, <1>4 DEF UserStep

(* A call's local record keeps its shape and its path at every step.       *)
JobLike(j, k) == j \in Job /\ j.path = k.path
JobStep(p) == job' = job \/ \E j : JobLike(j, job[p]) /\ job' = [job EXCEPT ![p] = j]
JobKept == job' \in [Proc -> Job] /\ \A q \in Proc : job'[q].path = job[q].path

(* A step that rewrites one call's local state keeps every call's path.    *)
LEMMA JobStepKeeps ==
  \A p \in Proc : job \in [Proc -> Job] /\ JobStep(p) => JobKept
  BY DEF JobStep, JobLike, JobKept

(* Recording that a call succeeded or not leaves its path alone.           *)
LEMMA JobOk == \A j \in Job, b \in BOOLEAN : JobLike([j EXCEPT !.ok = b], j)
  BY DEF Job, JobLike

(* Recording a failed effect leaves the call's path alone (fail_create).   *)
LEMMA JobFailed == \A j \in Job, b \in BOOLEAN : JobLike([j EXCEPT !.failed = b], j)
  BY DEF Job, JobLike

(* Recording the staged directory leaves the call's path alone.            *)
LEMMA JobStaged == \A j \in Job, b \in BOOLEAN : JobLike([j EXCEPT !.staged = b], j)
  BY DEF Job, JobLike

(* Marking a call overlapped by a remove leaves its path alone.            *)
LEMMA JobRaced == \A j \in Job, b \in BOOLEAN : JobLike([j EXCEPT !.raced = b], j)
  BY DEF Job, JobLike

(* Recording the request inode leaves the call's path alone.               *)
LEMMA JobIno == \A j \in Job, i \in Ino \cup {Nil} : JobLike([j EXCEPT !.ino = i], j)
  BY DEF Job, JobLike

(* Recording the live keys leaves the call's path alone (gc_locked).       *)
LEMMA JobLive ==
  \A j \in Job, s \in SUBSET (Plan \cup Dl) : JobLike([j EXCEPT !.live = s], j)
  BY DEF Job, JobLike

(* Listing requests leaves the call's path alone (gc_locked).              *)
LEMMA JobList == \A j \in Job, s \in SUBSET Ino : JobLike([j EXCEPT !.todo = s], j)
  BY DEF Job, JobLike

(* Crossing requests off a gc's list leaves its call well formed.          *)
LEMMA JobTodo ==
  \A j \in Job, s \in SUBSET Ino : JobLike([j EXCEPT !.todo = j.todo \ s], j)
  BY DEF Job, JobLike

(* Unlinking a request leaves its call well formed (gc_locked).            *)
LEMMA JobUnlinked ==
  \A j \in Job : JobLike([j EXCEPT !.todo = j.todo \ {j.ino}, !.ino = Nil], j)
  BY DEF Job, JobLike

(* Reading the known inodes leaves the call well formed (gc_locked).       *)
LEMMA JobKnown ==
  \A j \in Job, s \in SUBSET Ino : JobLike([j EXCEPT !.known = s, !.todo = s], j)
  BY DEF Job, JobLike

(* A snapshot leaves the call's path alone (prepare_create).               *)
LEMMA JobSnapshot ==
  ASSUME NEW j \in Job, NEW i \in Ino, NEW n \in Nat, NEW b \in BOOLEAN,
         NEW m \in Nat, NEW r \in BOOLEAN
  PROVE  JobLike([j EXCEPT !.ino = i, !.stamp = n, !.already = b, !.minLinks = m,
                           !.raced = r], j)
<1> DEFINE a == [j EXCEPT !.ino = i]
           c == [a EXCEPT !.stamp = n]
           e == [c EXCEPT !.already = b]
           f == [e EXCEPT !.minLinks = m]
<1>1. a \in Job /\ a.path = j.path
  BY DEF Job
<1>2. c \in Job /\ c.path = a.path
  <2> HIDE DEF a
  <2> QED BY <1>1 DEF Job
<1>3. e \in Job /\ e.path = c.path
  <2> HIDE DEF c
  <2> QED BY <1>2 DEF Job
<1>4. f \in Job /\ f.path = e.path
  <2> HIDE DEF e
  <2> QED BY <1>3 DEF Job
<1>5. [f EXCEPT !.raced = r] \in Job /\ [f EXCEPT !.raced = r].path = f.path
  <2> HIDE DEF f
  <2> QED BY <1>4 DEF Job
<1> QED
  BY <1>1, <1>2, <1>3, <1>4, <1>5 DEF JobLike

(* A submitted call starts well formed on the path it was given.           *)
LEMMA JobNew ==
  \A k \in Kind, u \in Path \cup {Nil} :
    /\ [IdleJob EXCEPT !.kind = k, !.path = u] \in Job
    /\ [IdleJob EXCEPT !.kind = k, !.path = u].path = u
  BY DEF Job, IdleJob

(* Submitting a call keeps the types.                                      *)
LEMMA TypeSubmit == \A p \in Proc : TypeInv /\ SubmitAny(p) => TypeInv'
<1> SUFFICES ASSUME NEW p \in Proc, TypeInv, SubmitAny(p) PROVE TypeInv'
  OBVIOUS
<1>1. ASSUME NEW kind \in Kind, NEW u \in Path \cup {Nil}, NEW k \in Plan \cup {Nil},
             NEW first \in Step, Submit(p, kind, u, k, first),
             first \in OnPath => u \in Path, first \in Keyed => k \in Plan
      PROVE  TypeInv'
  <2>1. job' \in [Proc -> Job] /\ job'[p].path = u
          /\ \A q \in Proc : q # p => job'[q] = job[q]
    BY <1>1, JobNew DEF Submit, TypeInv, TypeOK
  <2> QED
    BY <1>1, <2>1 DEF Submit, Goto, TypeInv, TypeOK, FilesSpellPlans, CallsFormed,
       fsVars, objVars, dbVars, lockVars, promises
<1> QED
  BY <1>1 DEF SubmitAny, SubmitCreate, SubmitRemove, SubmitInstall, SubmitGc, Kind,
     OnPath, Keyed, Step, CreateSteps, RemoveSteps, GcSteps

(* Every step of create or install keeps the types: a plan key is read     *)
(* before the steps that need it (prepare_create).                         *)
LEMMA TypeCreate ==
  \A p \in Proc : TypeInv /\ (CreateStep(p) \/ EffectFailure(p)) => TypeInv'
<1> SUFFICES ASSUME NEW p \in Proc, TypeInv, CreateStep(p) \/ EffectFailure(p)
             PROVE  TypeInv'
  OBVIOUS
<1> USE DEF TypeInv, TypeOK, FilesSpellPlans, CallsFormed, Goto, Fail, fsVars,
        objVars, dbVars, lockVars, histVars, promises
<1>1. ASSUME AcquireRequestLock(p) PROVE TypeInv'
  BY <1>1 DEF AcquireRequestLock, OnPath, Keyed, Step, CreateSteps,
     RemoveSteps, GcSteps
<1>2. ASSUME PersistRequest(p) PROVE TypeInv'
  <2>1. JobStep(p)
    BY <1>2, JobIno, JobOk DEF PersistRequest, JobStep, FreeIno
  <2>2. key[p] \in Plan
    BY <1>2 DEF PersistRequest, Keyed
  <2>3. /\ path' \in [Path -> Ino \cup {Nil}]
        /\ content' \in [Ino -> Plan \cup {Nil}]
        /\ stamp' \in [Ino -> Nat]
        /\ clock' \in Nat
        /\ FilesSpellPlans'
    <3>1. CASE UNCHANGED fsVars
      BY <3>1
    <3>2. ASSUME NEW i \in Ino,
                 path' = [path EXCEPT ![job[p].path] = i],
                 content' = [content EXCEPT ![i] = key[p]],
                 stamp' = [stamp EXCEPT ![i] = clock + 1],
                 clock' = clock + 1
          PROVE  /\ path' \in [Path -> Ino \cup {Nil}]
                 /\ content' \in [Ino -> Plan \cup {Nil}]
                 /\ stamp' \in [Ino -> Nat]
                 /\ clock' \in Nat
                 /\ FilesSpellPlans'
      <4>1. /\ path' \in [Path -> Ino \cup {Nil}]
            /\ content' \in [Ino -> Plan \cup {Nil}]
        BY <2>2, <3>2
      <4>2. stamp' \in [Ino -> Nat] /\ clock' \in Nat
        BY <3>2
      <4>3. ASSUME NEW u \in Path, path'[u] # Nil PROVE content'[path'[u]] \in Plan
        <5>1. path'[u] \in Ino /\ (path'[u] = i \/ path'[u] = path[u])
          BY <3>2, <4>1, <4>3
        <5>2. CASE path'[u] = i
          BY <2>2, <3>2, <5>2
        <5>3. CASE path'[u] # i
          BY <3>2, <4>3, <5>1, <5>3
        <5> QED
          BY <5>2, <5>3
      <4> QED
        BY <4>1, <4>2, <4>3
    <3>3. \/ UNCHANGED fsVars
          \/ \E i \in Ino : /\ path' = [path EXCEPT ![job[p].path] = i]
                           /\ content' = [content EXCEPT ![i] = key[p]]
                           /\ stamp' = [stamp EXCEPT ![i] = clock + 1]
                           /\ clock' = clock + 1
      <4> HIDE DEF TypeInv
      <4> QED BY <1>2 DEF PersistRequest, FreeIno
    <3> QED
      BY <3>1, <3>2, <3>3
  <2>4. kept' \in [Ino -> Plan \cup {Nil}] /\ owed' \in [Path -> Plan \cup {Nil}]
    BY <1>2 DEF PersistRequest, Reconsider
  <2>5. pc' \in [Proc -> Step] /\ CallsFormed'
    BY <1>2, <2>1, JobStepKeeps, ZenonT(40) DEF PersistRequest, JobKept, OnPath, Keyed, Step,
       CreateSteps, RemoveSteps, GcSteps
  <2> QED
    BY <1>2, <2>1, <2>3, <2>4, <2>5, JobStepKeeps DEF PersistRequest, JobKept
<1>3. ASSUME PrepareSnapshot(p) PROVE TypeInv'
  <2>1. JobStep(p)
    <3> DEFINE i == path[job[p].path]
    <3>1. job[p].path \in Path
      BY <1>3 DEF PrepareSnapshot, OnPath, CreateSteps
    <3>2. CASE pc'[p] = "readPlan"
      <4>1. i \in Ino /\ stamp[i] \in Nat
        BY <1>3, <3>1, <3>2 DEF PrepareSnapshot, Step, CreateSteps
      <4> DEFINE m == IF AlreadyRegistered(i) /\ Links(i) > 2 THEN Links(i) ELSE 2
                 j == [job[p] EXCEPT !.ino = i, !.stamp = stamp[i],
                                     !.already = AlreadyRegistered(i),
                                     !.minLinks = m, !.raced = RemoveInFlight(i)]
      <4>2. m \in Nat
        BY LinksNat
      <4>3. AlreadyRegistered(i) \in BOOLEAN /\ RemoveInFlight(i) \in BOOLEAN
        BY DEF AlreadyRegistered, RemoveInFlight
      <4>4. JobLike(j, job[p])
        <5> HIDE DEF m
        <5> QED BY <4>1, <4>2, <4>3, JobSnapshot
      <4>5. job' = [job EXCEPT ![p] = j]
        BY <1>3, <3>2, ZenonT(40) DEF PrepareSnapshot, Step, CreateSteps
      <4> QED
        BY <4>4, <4>5 DEF JobStep
    <3>3. CASE pc'[p] # "readPlan"
      BY <1>3, <3>3, JobOk DEF PrepareSnapshot, JobStep, Step, CreateSteps
    <3> QED
      BY <3>2, <3>3
  <2> HIDE DEF CallsFormed
  <2>2. pc[p] = "snapshot" /\ key' = key /\ \E to \in {"readPlan", "finish"} : Goto(p, to)
    BY <1>3 DEF PrepareSnapshot
  <2>3. pc' \in [Proc -> Step] /\ CallsFormed'
    BY <2>1, <2>2, JobStepKeeps DEF CallsFormed, JobKept, OnPath, Keyed, Step,
       CreateSteps, RemoveSteps, GcSteps
  <2> QED
    BY <1>3, <2>1, <2>3, JobStepKeeps DEF PrepareSnapshot, JobKept
<1>4. ASSUME ReadPlan(p) PROVE TypeInv'
  <2>1. JobStep(p)
    BY <1>4, JobOk DEF ReadPlan, JobStep
  <2>2. job[p].path \in Path
    BY <1>4 DEF ReadPlan, OnPath, CreateSteps
  <2>3. \/ /\ pc' = [pc EXCEPT ![p] = "gcShared"]
           /\ key' = [key EXCEPT ![p] = content[path[job[p].path]]]
           /\ path[job[p].path] # Nil
        \/ pc' = [pc EXCEPT ![p] = "finish"] /\ key' = key
    BY <1>4 DEF ReadPlan
  <2>4. key' \in [Proc -> Plan \cup {Nil}] /\ pc' \in [Proc -> Step]
    BY <2>2, <2>3 DEF Step, CreateSteps
  <2>5. CallsFormed'
    BY <1>4, <2>1, <2>2, <2>3, JobStepKeeps DEF ReadPlan, JobKept, OnPath, Keyed,
       CreateSteps, RemoveSteps
  <2> QED
    BY <1>4, <2>1, <2>4, <2>5, JobStepKeeps DEF ReadPlan, JobKept
<1>5. ASSUME CreateAcquireGc(p) PROVE TypeInv'
  BY <1>5 DEF CreateAcquireGc, AcquireGcShared, OnPath, Keyed, Step,
     CreateSteps, RemoveSteps, GcSteps
<1>6. ASSUME AcquireInstallLock(p) PROVE TypeInv'
  BY <1>6 DEF AcquireInstallLock, OnPath, Keyed, Step, CreateSteps,
     RemoveSteps, GcSteps
<1>7. ASSUME CheckCached(p) PROVE TypeInv'
  <2>1. JobStep(p)
    BY <1>7, JobOk DEF CheckCached, JobStep
  <2>2. fetch' \in [Proc -> [Dl -> Fetch]]
    BY <1>7 DEF CheckCached, Fetch
  <2>3. pc' \in [Proc -> Step] /\ CallsFormed'
    <3>1. /\ UNCHANGED <<path, content, key>>
          /\ \E to \in {"link", "finish", "build"} : pc' = [pc EXCEPT ![p] = to]
      BY <1>7 DEF CheckCached
    <3>2. job[p].path \in Path /\ key[p] \in Plan
      BY <1>7 DEF CheckCached, OnPath, Keyed, CreateSteps
    <3>3. /\ pc' \in [Proc -> Step]
          /\ \A q \in Proc : pc'[q] = pc[q] \/ q = p
      BY <3>1 DEF Step, CreateSteps
    <3>4. \A q \in Proc : job'[q].path = job[q].path
      BY <2>1, JobStepKeeps DEF JobKept
    <3> QED
      BY <3>1, <3>2, <3>3, <3>4
  <2> QED
    BY <1>7, <2>1, <2>2, <2>3, JobStepKeeps DEF CheckCached, JobKept
<1>8. ASSUME PrepareInstall(p) PROVE TypeInv'
  <2>1. JobStep(p)
    BY <1>8, JobStaged DEF PrepareInstall, JobStep
  <2>2. key[p] \in Plan
    BY <1>8 DEF PrepareInstall, Keyed
  <2>3. tmp' \subseteq (Proc \cup {Nil}) \X (Plan \cup Dl)
    BY <1>8, <2>2 DEF PrepareInstall
  <2> QED
    BY <1>8, <2>1, <2>3, JobStepKeeps DEF PrepareInstall, JobKept, BuildUnchanged
<1>9. ASSUME AbandonBuild(p) PROVE TypeInv'
  <2>1. JobStep(p)
    BY <1>9, JobOk DEF AbandonBuild, JobStep
  <2> QED
    BY <1>9, <2>1, JobStepKeeps DEF AbandonBuild, JobKept,
       BuildUnchanged, OnPath, Keyed, Step, CreateSteps, RemoveSteps,
       GcSteps
<1>10. ASSUME PublishInstall(p) PROVE TypeInv'
  <2>1. JobStep(p)
    BY <1>10, JobOk DEF PublishInstall, JobStep
  <2> QED
    <3>1. /\ install' \in [Plan -> Object]
          /\ tmp' \subseteq (Proc \cup {Nil}) \X (Plan \cup Dl)
      BY <1>10 DEF PublishInstall, Object
    <3>2. /\ JobKept /\ key' = key /\ pc[p] = "build"
          /\ \E to \in {"link", "finish"} : pc' = [pc EXCEPT ![p] = to]
      BY <1>10, <2>1, JobStepKeeps DEF PublishInstall, BuildUnchanged
    <3>3. pc' \in [Proc -> Step] /\ CallsFormed'
      BY <3>2 DEF JobKept, OnPath, Keyed, Step, CreateSteps, RemoveSteps
    <3> QED
      BY <1>10, <3>1, <3>2, <3>3 DEF PublishInstall, JobKept, BuildUnchanged
<1>11. ASSUME NEW d \in Dl, AcquireDlLock(p, d) PROVE TypeInv'
  BY <1>11 DEF AcquireDlLock, BuildUnchanged, Fetch, OnPath, Keyed, Step,
     CreateSteps, RemoveSteps, GcSteps
<1>12. ASSUME NEW d \in Dl, ReuseDownload(p, d) PROVE TypeInv'
  <2>1. JobStep(p)
    BY <1>12, JobFailed DEF ReuseDownload, JobStep, EndDownload
  <2> QED
    BY <1>12, <2>1, JobStepKeeps DEF ReuseDownload, JobKept,
       EndDownload, BuildUnchanged, Fetch, OnPath, Keyed, Step,
       CreateSteps, RemoveSteps, GcSteps
<1>13. ASSUME NEW d \in Dl, StartDownload(p, d) PROVE TypeInv'
  BY <1>13 DEF StartDownload, BuildUnchanged, Fetch, OnPath, Keyed, Step,
     CreateSteps, RemoveSteps, GcSteps
<1>14. ASSUME NEW d \in Dl, PublishDownload(p, d) PROVE TypeInv'
  <2>1. JobStep(p)
    BY <1>14, JobFailed DEF PublishDownload, JobStep, EndDownload
  <2> QED
    BY <1>14, <2>1, JobStepKeeps DEF PublishDownload, JobKept,
       EndDownload, BuildUnchanged, Fetch, OnPath, Keyed, Step,
       CreateSteps, RemoveSteps, GcSteps
<1>15. ASSUME NEW d \in Dl, FailDownload(p, d) PROVE TypeInv'
  <2>1. JobStep(p)
    BY <1>15, JobFailed DEF FailDownload, JobStep, EndDownload
  <2>2. tmp' \subseteq (Proc \cup {Nil}) \X (Plan \cup Dl)
    BY <1>15 DEF FailDownload
  <2>3. fetch' \in [Proc -> [Dl -> Fetch]] /\ dlLock' \in [Dl -> Proc \cup {Nil}]
    BY <1>15 DEF FailDownload, EndDownload, Fetch
  <2> QED
    BY <1>15, <2>1, <2>2, <2>3, JobStepKeeps
    DEF FailDownload, JobKept, EndDownload, BuildUnchanged
<1>16. ASSUME FailItem(p) PROVE TypeInv'
  <2>1. JobStep(p)
    BY <1>16, JobFailed DEF FailItem, JobStep
  <2> QED
    BY <1>16, <2>1, JobStepKeeps DEF FailItem, JobKept, BuildUnchanged,
       OnPath, Keyed, Step, CreateSteps, RemoveSteps, GcSteps
<1>17. ASSUME HardLink(p) PROVE TypeInv'
  <2>1. JobStep(p)
    BY <1>17, JobOk DEF HardLink, JobStep
  <2> QED
    <3>1. job[p].path \in Path
      BY <1>17 DEF HardLink, OnPath, CreateSteps
    <3>2. reg' \in [Ino -> Ino \cup {Nil}]
      BY <1>17, <3>1 DEF HardLink
    <3>3. pc' \in [Proc -> Step] /\ CallsFormed'
      BY <1>17, <2>1, JobStepKeeps DEF HardLink, JobKept, OnPath, Keyed, Step,
       CreateSteps, RemoveSteps, GcSteps
    <3> QED
      BY <1>17, <2>1, <3>2, <3>3, JobStepKeeps DEF HardLink, JobKept
<1>18. ASSUME VerifyRegistration(p) PROVE TypeInv'
  <2>1. JobStep(p)
    BY <1>18, JobOk DEF VerifyRegistration, JobStep
  <2> QED
    BY <1>18, <2>1, JobStepKeeps, ZenonT(40) DEF VerifyRegistration, JobKept,
       OnPath, Keyed, Step, CreateSteps, RemoveSteps, GcSteps
<1>19. ASSUME CheckRow(p) PROVE TypeInv'
  <2>1. JobStep(p)
    BY <1>19, JobOk DEF CheckRow, JobStep
  <2> QED
    BY <1>19, <2>1, JobStepKeeps, ZenonT(40) DEF CheckRow, JobKept, OnPath, Keyed,
       Step, CreateSteps, RemoveSteps, GcSteps
<1>20. ASSUME AddRequest(p) PROVE TypeInv'
  <2>1. JobStep(p)
    BY <1>20, JobOk DEF AddRequest, JobStep
  <2>2. key[p] \in Plan /\ Items[key[p]] \subseteq Dl
    BY <1>20, ItemsAssumption DEF AddRequest, Keyed
  <2>3. rel' \subseteq Plan \X Dl
    BY <1>20, <2>2 DEF AddRequest
  <2>4. /\ row' \in [Ino -> Plan \cup {Nil}]
        /\ kept' \in [Ino -> Plan \cup {Nil}]
        /\ owed' \in [Path -> Plan \cup {Nil}]
    BY <1>20, <2>2 DEF AddRequest
  <2>5. pc' \in [Proc -> Step] /\ CallsFormed'
    BY <1>20, <2>1, JobStepKeeps DEF AddRequest, JobKept, OnPath, Keyed, Step,
       CreateSteps, RemoveSteps, GcSteps
  <2> QED
    BY <1>20, <2>1, <2>3, <2>4, <2>5, JobStepKeeps DEF AddRequest, JobKept
<1> QED
  BY <1>1, <1>2, <1>3, <1>4, <1>5, <1>6, <1>7, <1>8, <1>9, <1>10, <1>11,
     <1>12, <1>13, <1>14, <1>15, <1>16, <1>17, <1>18, <1>19, <1>20 DEF
     CreateStep, EffectFailure

(* Every step of remove keeps the types.                                   *)
LEMMA TypeRemove == \A p \in Proc : TypeInv /\ RemoveStep(p) => TypeInv'
<1> SUFFICES ASSUME NEW p \in Proc, TypeInv, RemoveStep(p) PROVE TypeInv'
  OBVIOUS
<1> USE DEF TypeInv, TypeOK, FilesSpellPlans, CallsFormed, Goto, Fail, fsVars,
        objVars, dbVars, lockVars, histVars, promises
<1>1. ASSUME RemoveAcquireGc(p) PROVE TypeInv'
  BY <1>1 DEF RemoveAcquireGc, AcquireGcShared, OnPath, Keyed, Step,
     CreateSteps, RemoveSteps, GcSteps
<1>2. ASSUME RemoveSnapshot(p) PROVE TypeInv'
  <2>1. job[p].path \in Path
    BY <1>2 DEF RemoveSnapshot, OnPath, RemoveSteps
  <2>2. JobKept
    <3>1. CASE path[job[p].path] = Nil
      BY <1>2, <3>1, JobOk, JobStepKeeps DEF RemoveSnapshot, JobStep
    <3>2. CASE path[job[p].path] # Nil
      <4> DEFINE i == path[job[p].path]
      <4>1. \A q \in Proc : JobLike([job[q] EXCEPT !.raced = TRUE], job[q])
        BY JobRaced
      <4>2. JobLike([job[p] EXCEPT !.ino = i], job[p])
        BY <2>1, JobIno
      <4>3. job' = [q \in Proc |->
                      IF q = p THEN [job[p] EXCEPT !.ino = i]
                      ELSE IF job[q].ino = i THEN [job[q] EXCEPT !.raced = TRUE]
                      ELSE job[q]]
        BY <1>2, <3>2 DEF RemoveSnapshot
      <4> QED
        BY <4>1, <4>2, <4>3 DEF JobKept, JobLike
    <3> QED
      BY <3>1, <3>2
  <2>3. kept' \in [Ino -> Plan \cup {Nil}] /\ owed' \in [Path -> Plan \cup {Nil}]
    BY <1>2 DEF RemoveSnapshot, Cancel
  <2>4. pc' \in [Proc -> Step] /\ CallsFormed'
    BY <1>2, <2>2 DEF RemoveSnapshot, JobKept, OnPath, Keyed, Step,
       CreateSteps, RemoveSteps, GcSteps
  <2> QED
    BY <1>2, <2>2, <2>3, <2>4 DEF RemoveSnapshot, JobKept
<1>3. ASSUME RemoveRow(p) PROVE TypeInv'
  BY <1>3 DEF RemoveRow, OnPath, Keyed, Step, CreateSteps, RemoveSteps,
     GcSteps
<1>4. ASSUME RemoveLink(p) PROVE TypeInv'
  <2>1. JobStep(p)
    BY <1>4, JobOk DEF RemoveLink, JobStep
  <2> QED
    BY <1>4, <2>1, JobStepKeeps DEF RemoveLink, JobKept, OnPath, Keyed,
       Step, CreateSteps, RemoveSteps, GcSteps
<1> QED
  BY <1>1, <1>2, <1>3, <1>4 DEF RemoveStep

(* Every step of gc keeps the types (gc_locked).                           *)
LEMMA TypeGc == \A p \in Proc : TypeInv /\ GcStep(p) => TypeInv'
<1> SUFFICES ASSUME NEW p \in Proc, TypeInv, GcStep(p) PROVE TypeInv'
  OBVIOUS
<1> USE DEF TypeInv, TypeOK, FilesSpellPlans, CallsFormed, Goto, Fail, fsVars,
        objVars, dbVars, lockVars, histVars, promises
<1>1. ASSUME GcAcquire(p) PROVE TypeInv'
  BY <1>1 DEF GcAcquire, GcUnchanged, OnPath, Keyed, Step, CreateSteps,
     RemoveSteps, GcSteps
<1>2. ASSUME GcKnown(p) PROVE TypeInv'
  <2>1. JobStep(p)
    BY <1>2, JobKnown DEF GcKnown, JobStep
  <2> QED
    BY <1>2, <2>1, JobStepKeeps DEF GcKnown, JobKept, GcUnchanged,
       OnPath, Keyed, Step, CreateSteps, RemoveSteps, GcSteps
<1>3. ASSUME GcListRequests(p) PROVE TypeInv'
  <2>1. JobStep(p)
    BY <1>3, JobList DEF GcListRequests, JobStep
  <2> QED
    BY <1>3, <2>1, JobStepKeeps DEF GcListRequests, JobKept,
       GcUnchanged, OnPath, Keyed, Step, CreateSteps, RemoveSteps,
       GcSteps
<1>4. ASSUME GcUnlink(p) PROVE TypeInv'
  <2>1. JobStep(p)
    BY <1>4, JobUnlinked DEF GcUnlink, JobStep
  <2> QED
    BY <1>4, <2>1, JobStepKeeps DEF GcUnlink, JobKept, GcUnchanged,
       OnPath, Keyed, Step, CreateSteps, RemoveSteps, GcSteps
<1>5. ASSUME GcRelations(p) PROVE TypeInv'
  <2> LiveKeys \in SUBSET (Plan \cup Dl)
    BY DEF LiveKeys
  <2>1. JobStep(p)
    BY <1>5, JobLive DEF GcRelations, JobStep
  <2> QED
    BY <1>5, <2>1, JobStepKeeps DEF GcRelations, JobKept, LiveKeys,
       GcUnchanged, OnPath, Keyed, Step, CreateSteps, RemoveSteps,
       GcSteps
<1>6. ASSUME GcInstallsSwept(p) PROVE TypeInv'
  <2>1. JobStep(p)
    BY <1>6, JobLive DEF GcInstallsSwept, JobStep, LiveDls
  <2> QED
    BY <1>6, <2>1, JobStepKeeps DEF GcInstallsSwept, JobKept, LiveDls,
       GcUnchanged, OnPath, Keyed, Step, CreateSteps, RemoveSteps,
       GcSteps
<1>7. ASSUME GcDownloadsSwept(p) PROVE TypeInv'
  BY <1>7 DEF GcDownloadsSwept, GcUnchanged, OnPath, Keyed, Step,
     CreateSteps, RemoveSteps, GcSteps
<1>8. ASSUME GcSweepTmp(p) PROVE TypeInv'
  <2>1. JobStep(p)
    BY <1>8, JobOk DEF GcSweepTmp, JobStep
  <2> QED
    BY <1>8, <2>1, JobStepKeeps DEF GcSweepTmp, JobKept, GcUnchanged,
       OnPath, Keyed, Step, CreateSteps, RemoveSteps, GcSteps
<1>9. ASSUME NEW i \in Ino, GcStaleRow(p, i) PROVE TypeInv'
  <2>1. JobStep(p)
    BY <1>9, JobTodo, ZenonT(40) DEF GcStaleRow, JobStep
  <2> QED
    BY <1>9, <2>1, JobStepKeeps DEF GcStaleRow, JobKept, GcUnchanged,
       OnPath, Keyed, Step, CreateSteps, RemoveSteps, GcSteps
<1>10. ASSUME NEW i \in Ino, GcEntry(p, i) PROVE TypeInv'
  <2>1. JobStep(p)
    <3>1. CASE job' = [job EXCEPT ![p].ino = i]
      BY <3>1, JobIno DEF JobStep
    <3>2. CASE job' = [job EXCEPT ![p].todo = @ \ {i}]
      BY <3>2, JobTodo, ZenonT(40) DEF JobStep
    <3> QED
      BY <1>10, <3>1, <3>2 DEF GcEntry
  <2> QED
    <3>1. row' \in [Ino -> Plan \cup {Nil}]
      BY <1>10 DEF GcEntry
    <3>2. JobKept /\ key' = key /\ (pc' = pc \/ pc' = [pc EXCEPT ![p] = "gcUnlink"])
      BY <1>10, <2>1, JobStepKeeps DEF GcEntry, GcUnchanged
    <3>3. pc' \in [Proc -> Step] /\ CallsFormed'
      BY <3>2, ZenonT(40) DEF JobKept, OnPath, Keyed, Step, CreateSteps, RemoveSteps, GcSteps
    <3> QED
      BY <1>10, <3>1, <3>2, <3>3 DEF GcEntry, JobKept, GcUnchanged
<1>11. ASSUME NEW k \in Plan, GcSweepInstall(p, k) PROVE TypeInv'
  BY <1>11 DEF GcSweepInstall, GcUnchanged, Object, OnPath, Keyed, Step,
     CreateSteps, RemoveSteps, GcSteps
<1>12. ASSUME NEW d \in Dl, GcSweepDownload(p, d) PROVE TypeInv'
  BY <1>12 DEF GcSweepDownload, GcUnchanged, OnPath, Keyed, Step,
     CreateSteps, RemoveSteps, GcSteps
<1> QED
  BY <1>1, <1>2, <1>3, <1>4, <1>5, <1>6, <1>7, <1>8, <1>9, <1>10, <1>11,
     <1>12 DEF GcStep

(* A call that ends, returned or killed, gives its state and locks back.   *)
LEMMA TypeRetire ==
  \A p \in Proc :
    TypeInv /\ Retire(p) /\ install' \in [Plan -> Object]
      /\ dl' \in [Dl -> {"none", "whole", "torn"}]
      /\ crashes' \in Nat /\ UNCHANGED <<fsVars, reg, dbVars, calls, promises>>
    => TypeInv'
<1> SUFFICES ASSUME NEW p \in Proc, TypeInv, Retire(p), install' \in [Plan -> Object],
                    dl' \in [Dl -> {"none", "whole", "torn"}], crashes' \in Nat,
                    UNCHANGED <<fsVars, reg, dbVars, calls, promises>>
             PROVE  TypeInv'
  OBVIOUS
<1>1. IdleJob \in Job /\ NoFetch \in [Dl -> Fetch]
  BY DEF IdleJob, Job, Kind, NoFetch, Fetch
<1> QED
  BY <1>1, NilAssumption DEF TypeInv, TypeOK, FilesSpellPlans, CallsFormed, Goto, fsVars,
     dbVars, promises, Retire, Release, InstallLocksWithout, Orphan,
     OnPath, Keyed, Step, CreateSteps, RemoveSteps, GcSteps

(* Returns and crashes keep the types, torn objects included.              *)
LEMMA TypeEnd == \A p \in Proc : TypeInv /\ (Return(p) \/ CrashAny(p)) => TypeInv'
<1> SUFFICES ASSUME NEW p \in Proc, TypeInv, Return(p) \/ CrashAny(p) PROVE TypeInv'
  OBVIOUS
<1>1. /\ install \in [Plan -> Object]
      /\ dl \in [Dl -> {"none", "whole", "torn"}]
      /\ crashes \in Nat /\ crashes + 1 \in Nat
  BY DEF TypeInv, TypeOK
<1>2. CASE Return(p)
  BY <1>1, <1>2, TypeRetire DEF Return, histVars
<1>3. CASE Crash(p)
  BY <1>1, <1>3, TypeRetire DEF Crash, Killed, CrashUnchanged
<1>4. ASSUME NEW k \in Plan, CrashSweepingInstall(p, k) PROVE TypeInv'
  <2>1. install' \in [Plan -> Object]
    BY <1>1, <1>4 DEF CrashSweepingInstall, Object
  <2> QED
    BY <1>1, <1>4, <2>1, TypeRetire DEF CrashSweepingInstall, Killed, CrashUnchanged
<1>5. ASSUME NEW d \in Dl, CrashSweepingDownload(p, d) PROVE TypeInv'
  <2>1. dl' \in [Dl -> {"none", "whole", "torn"}]
    BY <1>1, <1>5 DEF CrashSweepingDownload
  <2> QED
    BY <1>1, <1>5, <2>1, TypeRetire DEF CrashSweepingDownload, Killed, CrashUnchanged
<1> QED
  BY <1>2, <1>3, <1>4, <1>5 DEF CrashAny

(* Every step of the store keeps the types.                                *)
LEMMA TypeStep == TypeInv /\ [Next]_vars => TypeInv'
<1>1. TypeInv /\ UNCHANGED vars => TypeInv'
  BY DEF TypeInv, TypeOK, FilesSpellPlans, CallsFormed, vars, fsVars, dbVars,
     objVars, lockVars, procVars, histVars, promises
<1> QED
  BY <1>1, TypeUser, TypeSubmit, TypeCreate, TypeRemove, TypeGc, TypeEnd
  DEF Next, ProcStep, Quiet

(* Every variable keeps its type: a call that reaches a step that needs its*)
(* path or plan key has one (run_create, remove, gc_locked).               *)
THEOREM TypeCorrect == Spec => []TypeOK
<1>1. TypeInv => TypeOK
  BY DEF TypeInv
<1> QED
  BY <1>1, TypeInit, TypeStep, PTL DEF Spec

-----------------------------------------------------------------------------
(* The gc lock.                                                            *)

(* What publishing a request file does to the calls (persist_request).     *)
LEMMA PersistEffect ==
  ASSUME NEW p \in Proc, PersistRequest(p)
  PROVE  /\ UNCHANGED <<reg, dbVars, objVars, lockVars, key, fetch>>
         /\ \E to \in {"snapshot", "finish"} : pc' = [pc EXCEPT ![p] = to]
         /\ \E j : job' = [job EXCEPT ![p] = j]
  BY DEF PersistRequest, Goto, Fail

(* No lock is held at the start.                                           *)
LEMMA GcLockInit == Init => GcLockInv
  BY DEF Init, GcLockInv, SharedSteps, Registering, Sweeping, GcSteps, NoFetch

(* Users do not touch the locks.                                           *)
LEMMA GcLockUser ==
  GcLockInv /\ (UserStep \/ UNCHANGED vars) => GcLockInv'
<1>1. UserStep => UNCHANGED <<lockVars, procVars>>
  BY DEF UserStep, UserWrite, UserEdit, UserLink, UserUnlink, UserUnchanged
<1> QED
  BY <1>1 DEF GcLockInv, vars, lockVars, procVars

(* A call is submitted without the gc lock.                                *)
LEMMA GcLockSubmit == \A p \in Proc : TypeInv /\ GcLockInv /\ SubmitAny(p) => GcLockInv'
<1> SUFFICES ASSUME NEW p \in Proc, TypeInv, GcLockInv, SubmitAny(p) PROVE GcLockInv'
  OBVIOUS
<1>1. /\ UNCHANGED <<gcShared, gcExcl, fetch>>
      /\ \E first \in {"snapshot", "reqLock", "rmLock", "gcLock"} :
           pc' = [pc EXCEPT ![p] = first]
  BY DEF SubmitAny, SubmitCreate, SubmitRemove, SubmitInstall, SubmitGc, Submit, Goto,
     lockVars
<1> QED
  BY <1>1 DEF TypeInv, TypeOK, GcLockInv, SharedSteps, Registering, Sweeping, GcSteps

(* A create works on downloads and installations under the shared gc lock  *)
(* only (AcquireInstall).                                                  *)
LEMMA GcLockCreate ==
  \A p \in Proc :
    TypeInv /\ GcLockInv /\ (CreateStep(p) \/ EffectFailure(p)) => GcLockInv'
<1> SUFFICES ASSUME NEW p \in Proc, TypeInv, GcLockInv,
                    CreateStep(p) \/ EffectFailure(p)
             PROVE  GcLockInv'
  OBVIOUS
<1> gcShared \subseteq Proc /\ pc \in [Proc -> Step] /\ Nil \notin Proc
    /\ fetch \in [Proc -> [Dl -> Fetch]]
  BY NilAssumption DEF TypeInv, TypeOK
<1> USE DEF lockVars
<1>1. ASSUME AcquireRequestLock(p) PROVE GcLockInv'
  BY <1>1 DEF AcquireRequestLock, GcLockInv, SharedSteps, Sweeping,
     Registering, GcSteps, Goto, Fail
<1>2. ASSUME PersistRequest(p) PROVE GcLockInv'
  <2>1. /\ UNCHANGED <<gcShared, gcExcl, fetch>>
        /\ \E to \in {"snapshot", "finish"} : pc' = [pc EXCEPT ![p] = to]
    BY <1>2, PersistEffect
  <2>2. \A q \in Proc : pc'[q] = pc[q] \/ pc'[q] \in {"snapshot", "finish"}
    BY <2>1
  <2> QED
    BY <2>1, <2>2 DEF GcLockInv, SharedSteps, Sweeping, Registering, GcSteps
<1>3. ASSUME PrepareSnapshot(p) PROVE GcLockInv'
  <2>1. /\ UNCHANGED <<gcShared, gcExcl, fetch>>
        /\ \E to \in {"readPlan", "finish"} : pc' = [pc EXCEPT ![p] = to]
    BY <1>3 DEF PrepareSnapshot, Goto, Fail
  <2>2. \A q \in Proc : pc'[q] = pc[q] \/ pc'[q] \in {"readPlan", "finish"}
    BY <2>1
  <2> QED
    BY <2>1, <2>2 DEF GcLockInv, SharedSteps, Sweeping, Registering, GcSteps
<1>4. ASSUME ReadPlan(p) PROVE GcLockInv'
  BY <1>4 DEF ReadPlan, GcLockInv, SharedSteps, Sweeping, Registering,
     GcSteps, Goto, Fail
<1>5. ASSUME CreateAcquireGc(p) PROVE GcLockInv'
  BY <1>5 DEF CreateAcquireGc, AcquireGcShared, SharedFree, GcLockInv,
     SharedSteps, Sweeping, Registering, GcSteps, Goto, Fail
<1>6. ASSUME AcquireInstallLock(p) PROVE GcLockInv'
  BY <1>6 DEF AcquireInstallLock, GcLockInv, SharedSteps, Sweeping,
     Registering, GcSteps, Goto, Fail
<1>7. ASSUME CheckCached(p) PROVE GcLockInv'
  BY <1>7 DEF CheckCached, GcLockInv, SharedSteps, Sweeping, Registering,
     GcSteps, Goto, Fail
<1>8. ASSUME PrepareInstall(p) PROVE GcLockInv'
  BY <1>8 DEF PrepareInstall, BuildUnchanged, GcLockInv, SharedSteps,
     Sweeping, Registering, GcSteps, Goto, Fail
<1>9. ASSUME AbandonBuild(p) PROVE GcLockInv'
  BY <1>9 DEF AbandonBuild, BuildUnchanged, GcLockInv, SharedSteps,
     Sweeping, Registering, GcSteps, Goto, Fail
<1>10. ASSUME PublishInstall(p) PROVE GcLockInv'
  BY <1>10 DEF PublishInstall, BuildUnchanged, GcLockInv, SharedSteps,
     Sweeping, Registering, GcSteps, Goto, Fail
<1>11. ASSUME NEW d \in Dl, AcquireDlLock(p, d) PROVE GcLockInv'
  BY <1>11 DEF AcquireDlLock, BuildUnchanged, GcLockInv, SharedSteps,
     Sweeping, Registering, GcSteps, Goto, Fail
<1>12. ASSUME NEW d \in Dl, ReuseDownload(p, d) PROVE GcLockInv'
  BY <1>12 DEF ReuseDownload, EndDownload, BuildUnchanged, GcLockInv,
     SharedSteps, Sweeping, Registering, GcSteps, Goto, Fail
<1>13. ASSUME NEW d \in Dl, StartDownload(p, d) PROVE GcLockInv'
  BY <1>13 DEF StartDownload, BuildUnchanged, GcLockInv, SharedSteps,
     Sweeping, Registering, GcSteps, Goto, Fail
<1>14. ASSUME NEW d \in Dl, PublishDownload(p, d) PROVE GcLockInv'
  BY <1>14 DEF PublishDownload, EndDownload, BuildUnchanged, GcLockInv,
     SharedSteps, Sweeping, Registering, GcSteps, Goto, Fail
<1>15. ASSUME NEW d \in Dl, FailDownload(p, d) PROVE GcLockInv'
  BY <1>15 DEF FailDownload, EndDownload, BuildUnchanged, GcLockInv,
     SharedSteps, Sweeping, Registering, GcSteps, Goto, Fail
<1>16. ASSUME FailItem(p) PROVE GcLockInv'
  BY <1>16 DEF FailItem, BuildUnchanged, GcLockInv, SharedSteps, Sweeping,
     Registering, GcSteps, Goto, Fail
<1>17. ASSUME HardLink(p) PROVE GcLockInv'
  BY <1>17 DEF HardLink, GcLockInv, SharedSteps, Sweeping, Registering,
     GcSteps, Goto, Fail
<1>18. ASSUME VerifyRegistration(p) PROVE GcLockInv'
  BY <1>18 DEF VerifyRegistration, GcLockInv, SharedSteps, Sweeping,
     Registering, GcSteps, Goto, Fail
<1>19. ASSUME CheckRow(p) PROVE GcLockInv'
  BY <1>19 DEF CheckRow, GcLockInv, SharedSteps, Sweeping, Registering,
     GcSteps, Goto, Fail
<1>20. ASSUME AddRequest(p) PROVE GcLockInv'
  BY <1>20 DEF AddRequest, GcLockInv, SharedSteps, Sweeping, Registering,
     GcSteps, Goto, Fail
<1> QED
  BY <1>1, <1>2, <1>3, <1>4, <1>5, <1>6, <1>7, <1>8, <1>9, <1>10, <1>11,
     <1>12, <1>13, <1>14, <1>15, <1>16, <1>17, <1>18, <1>19, <1>20 DEF
     CreateStep, EffectFailure

(* A remove works under the shared gc lock (Store::remove).                *)
LEMMA GcLockRemove == \A p \in Proc : TypeInv /\ GcLockInv /\ RemoveStep(p) => GcLockInv'
<1> SUFFICES ASSUME NEW p \in Proc, TypeInv, GcLockInv, RemoveStep(p) PROVE GcLockInv'
  OBVIOUS
<1> gcShared \subseteq Proc /\ pc \in [Proc -> Step] /\ Nil \notin Proc
    /\ fetch \in [Proc -> [Dl -> Fetch]]
  BY NilAssumption DEF TypeInv, TypeOK
<1> USE DEF lockVars
<1>1. ASSUME RemoveAcquireGc(p) PROVE GcLockInv'
  BY <1>1 DEF RemoveAcquireGc, AcquireGcShared, SharedFree, GcLockInv,
     SharedSteps, Sweeping, Registering, GcSteps, Goto, Fail
<1>2. ASSUME RemoveSnapshot(p) PROVE GcLockInv'
  BY <1>2 DEF RemoveSnapshot, GcLockInv, SharedSteps, Sweeping, Registering,
     GcSteps, Goto, Fail
<1>3. ASSUME RemoveRow(p) PROVE GcLockInv'
  BY <1>3 DEF RemoveRow, GcLockInv, SharedSteps, Sweeping, Registering,
     GcSteps, Goto, Fail
<1>4. ASSUME RemoveLink(p) PROVE GcLockInv'
  BY <1>4 DEF RemoveLink, GcLockInv, SharedSteps, Sweeping, Registering,
     GcSteps, Goto, Fail
<1> QED
  BY <1>1, <1>2, <1>3, <1>4 DEF RemoveStep

(* A gc works under the exclusive gc lock (Store::gc).                     *)
LEMMA GcLockGc == \A p \in Proc : TypeInv /\ GcLockInv /\ GcStep(p) => GcLockInv'
<1> SUFFICES ASSUME NEW p \in Proc, TypeInv, GcLockInv, GcStep(p) PROVE GcLockInv'
  OBVIOUS
<1> gcShared \subseteq Proc /\ pc \in [Proc -> Step] /\ Nil \notin Proc
    /\ fetch \in [Proc -> [Dl -> Fetch]]
  BY NilAssumption DEF TypeInv, TypeOK
<1> USE DEF lockVars
<1>1. ASSUME GcAcquire(p) PROVE GcLockInv'
  BY <1>1 DEF GcAcquire, GcUnchanged, ExclusiveFree, GcLockInv, SharedSteps,
     Sweeping, Registering, GcSteps, Goto, Fail
<1>2. ASSUME GcKnown(p) PROVE GcLockInv'
  BY <1>2 DEF GcKnown, GcUnchanged, GcLockInv, SharedSteps, Sweeping,
     Registering, GcSteps, Goto, Fail
<1>3. ASSUME GcListRequests(p) PROVE GcLockInv'
  BY <1>3 DEF GcListRequests, GcUnchanged, GcLockInv, SharedSteps, Sweeping,
     Registering, GcSteps, Goto, Fail
<1>4. ASSUME GcUnlink(p) PROVE GcLockInv'
  BY <1>4 DEF GcUnlink, GcUnchanged, GcLockInv, SharedSteps, Sweeping,
     Registering, GcSteps, Goto, Fail
<1>5. ASSUME GcRelations(p) PROVE GcLockInv'
  BY <1>5 DEF GcRelations, GcUnchanged, GcLockInv, SharedSteps, Sweeping,
     Registering, GcSteps, Goto, Fail
<1>6. ASSUME GcInstallsSwept(p) PROVE GcLockInv'
  BY <1>6 DEF GcInstallsSwept, GcUnchanged, GcLockInv, SharedSteps,
     Sweeping, Registering, GcSteps, Goto, Fail
<1>7. ASSUME GcDownloadsSwept(p) PROVE GcLockInv'
  BY <1>7 DEF GcDownloadsSwept, GcUnchanged, GcLockInv, SharedSteps,
     Sweeping, Registering, GcSteps, Goto, Fail
<1>8. ASSUME GcSweepTmp(p) PROVE GcLockInv'
  BY <1>8 DEF GcSweepTmp, GcUnchanged, GcLockInv, SharedSteps, Sweeping,
     Registering, GcSteps, Goto, Fail
<1>9. ASSUME NEW i \in Ino, GcStaleRow(p, i) PROVE GcLockInv'
  BY <1>9 DEF GcStaleRow, GcUnchanged, GcLockInv, SharedSteps, Sweeping,
     Registering, GcSteps, Goto, Fail
<1>10. ASSUME NEW i \in Ino, GcEntry(p, i) PROVE GcLockInv'
  BY <1>10 DEF GcEntry, GcUnchanged, GcLockInv, SharedSteps, Sweeping,
     Registering, GcSteps, Goto, Fail
<1>11. ASSUME NEW k \in Plan, GcSweepInstall(p, k) PROVE GcLockInv'
  BY <1>11 DEF GcSweepInstall, GcUnchanged, GcLockInv, SharedSteps,
     Sweeping, Registering, GcSteps, Goto, Fail
<1>12. ASSUME NEW d \in Dl, GcSweepDownload(p, d) PROVE GcLockInv'
  BY <1>12 DEF GcSweepDownload, GcUnchanged, GcLockInv, SharedSteps,
     Sweeping, Registering, GcSteps, Goto, Fail
<1> QED
  BY <1>1, <1>2, <1>3, <1>4, <1>5, <1>6, <1>7, <1>8, <1>9, <1>10, <1>11,
     <1>12 DEF GcStep

(* A call that ends drops the gc lock and has no step left that needs it.  *)
LEMMA GcLockEnd ==
  \A p \in Proc : TypeInv /\ GcLockInv /\ (Return(p) \/ CrashAny(p)) => GcLockInv'
<1> SUFFICES ASSUME NEW p \in Proc, TypeInv, GcLockInv, Return(p) \/ CrashAny(p)
             PROVE  GcLockInv'
  OBVIOUS
<1>1. Retire(p)
  BY DEF Return, CrashAny, Crash, CrashSweepingInstall, CrashSweepingDownload, Killed
<1>2. pc \in [Proc -> Step] /\ fetch \in [Proc -> [Dl -> Fetch]]
  BY DEF TypeInv, TypeOK
<1> QED
  BY <1>1, <1>2 DEF Retire, Release, NoFetch, Goto, GcLockInv, SharedSteps, Registering,
     Sweeping, GcSteps

(* Every step keeps the gc lock exclusive and held by those who need it.   *)
LEMMA GcLockStep == TypeInv /\ GcLockInv /\ [Next]_vars => GcLockInv'
  BY GcLockUser, GcLockSubmit, GcLockCreate, GcLockRemove, GcLockGc, GcLockEnd
  DEF Next, ProcStep, Quiet

-----------------------------------------------------------------------------
(* From rows down to downloads.                                            *)

(* Recording the live keys records them.                                   *)
LEMMA JobLiveSet == \A j \in Job : \A s : [j EXCEPT !.live = s].live = s
  BY DEF Job

(* Marking a call overlapped keeps the live keys it read.                  *)
LEMMA JobRacedLive == \A j \in Job, b \in BOOLEAN : [j EXCEPT !.raced = b].live = j.live
  BY DEF Job

(* An empty store references nothing.                                      *)
LEMMA BackInit == Init => BackInv
  BY DEF Init, BackInv, RowsInstalled, RowsRelated, InstallsFetched, CreatesBacked,
     SweepsSpare, Registering, NoFetch

(* A step that only moves one call keeps everything backed.                *)
Move(p) ==
  /\ UNCHANGED <<row, rel, install, dl>>
  /\ \A q \in Proc \ {p} :
       pc'[q] = pc[q] /\ key'[q] = key[q] /\ job'[q].live = job[q].live
  /\ \A q \in Proc, d \in Dl : fetch'[q][d] = "done" => fetch[q][d] = "done"
  /\ pc'[p] \notin {"gcInstalls", "gcDownloads"}
  /\ pc'[p] \in Registering => install[key'[p]] # "none"

(* A step that only moves one call keeps everything backed.                *)
LEMMA BackMove == \A p \in Proc : BackInv /\ Move(p) => BackInv'
  BY DEF Move, BackInv, RowsInstalled, RowsRelated, InstallsFetched, CreatesBacked,
     SweepsSpare, LiveKeys

(* Users do not touch rows and objects.                                    *)
LEMMA BackUser == BackInv /\ (UserStep \/ UNCHANGED vars) => BackInv'
<1>1. UserStep => UNCHANGED <<dbVars, install, dl, procVars>>
  BY DEF UserStep, UserWrite, UserEdit, UserLink, UserUnlink, UserUnchanged, objVars
<1> QED
  BY <1>1 DEF BackInv, RowsInstalled, RowsRelated, InstallsFetched, CreatesBacked,
     SweepsSpare, LiveKeys, vars, dbVars, objVars, procVars

(* Submitting a call references nothing new.                               *)
LEMMA BackSubmit == \A p \in Proc : TypeInv /\ BackInv /\ SubmitAny(p) => BackInv'
<1> SUFFICES ASSUME NEW p \in Proc, TypeInv, BackInv, SubmitAny(p) PROVE BackInv'
  OBVIOUS
<1>1. /\ UNCHANGED <<dbVars, install, dl, fetch>>
      /\ \A q \in Proc : q # p => key'[q] = key[q] /\ job'[q] = job[q]
      /\ \E first \in {"snapshot", "reqLock", "rmLock", "gcLock"} :
           pc' = [pc EXCEPT ![p] = first]
  BY DEF SubmitAny, SubmitCreate, SubmitRemove, SubmitInstall, SubmitGc, Submit, Goto,
     objVars, TypeInv, TypeOK
<1> QED
  BY <1>1 DEF TypeInv, TypeOK, BackInv, RowsInstalled, RowsRelated, InstallsFetched,
     CreatesBacked, SweepsSpare, LiveKeys, Registering, dbVars

(* A create keeps everything backed: it publishes an installation whose    *)
(* downloads are there and binds a plan whose installation is there.       *)
LEMMA BackCreate ==
  \A p \in Proc :
    TypeInv /\ GcLockInv /\ BackInv /\ (CreateStep(p) \/ EffectFailure(p)) => BackInv'
<1> SUFFICES ASSUME NEW p \in Proc, TypeInv, GcLockInv, BackInv,
                    CreateStep(p) \/ EffectFailure(p)
             PROVE  BackInv'
  OBVIOUS
<1> /\ row \in [Ino -> Plan \cup {Nil}] /\ rel \subseteq Plan \X Dl
    /\ install \in [Plan -> Object] /\ dl \in [Dl -> {"none", "whole", "torn"}]
    /\ pc \in [Proc -> Step] /\ key \in [Proc -> Plan \cup {Nil}]
    /\ job \in [Proc -> Job] /\ fetch \in [Proc -> [Dl -> Fetch]]
    /\ \A q \in Proc : pc[q] \in Registering \cup {"check", "build"} => key[q] \in Plan
    /\ Nil \notin Proc /\ Nil \notin Plan
    /\ Items \in [Plan -> SUBSET Dl]
  BY NilAssumption, ItemsAssumption DEF TypeInv, TypeOK, CallsFormed, Keyed, Registering
<1> USE DEF dbVars, objVars, BackInv, RowsInstalled, RowsRelated, InstallsFetched,
        CreatesBacked, SweepsSpare, Registering, Goto, Fail
<1>1. ASSUME AcquireRequestLock(p) PROVE BackInv'
  BY <1>1 DEF AcquireRequestLock, LiveKeys, GcLockInv, SharedSteps,
     Sweeping, GcSteps
<1>2. ASSUME PersistRequest(p) PROVE BackInv'
  <2>1. Move(p)
    BY <1>2, PersistEffect DEF Move
  <2> QED
    BY <2>1, BackMove
<1>3. ASSUME PrepareSnapshot(p) PROVE BackInv'
  <2>1. Move(p)
    BY <1>3 DEF PrepareSnapshot, Move
  <2> QED
    BY <2>1, BackMove
<1>4. ASSUME ReadPlan(p) PROVE BackInv'
  <2>1. Move(p)
    BY <1>4 DEF ReadPlan, Move
  <2> QED
    BY <2>1, BackMove
<1>5. ASSUME CreateAcquireGc(p) PROVE BackInv'
  BY <1>5 DEF CreateAcquireGc, AcquireGcShared, SharedFree, LiveKeys,
     GcLockInv, SharedSteps, Sweeping, GcSteps
<1>6. ASSUME AcquireInstallLock(p) PROVE BackInv'
  BY <1>6 DEF AcquireInstallLock, LiveKeys, GcLockInv, SharedSteps,
     Sweeping, GcSteps
<1>7. ASSUME CheckCached(p) PROVE BackInv'
  <2>1. Move(p)
    BY <1>7 DEF CheckCached, Move
  <2> QED
    BY <2>1, BackMove
<1>8. ASSUME PrepareInstall(p) PROVE BackInv'
  BY <1>8 DEF PrepareInstall, BuildUnchanged, LiveKeys, GcLockInv,
     SharedSteps, Sweeping, GcSteps
<1>9. ASSUME AbandonBuild(p) PROVE BackInv'
  <2>1. Move(p)
    BY <1>9 DEF AbandonBuild, BuildUnchanged, Move
  <2> QED
    BY <2>1, BackMove
<1>10. ASSUME PublishInstall(p) PROVE BackInv'
  <2>1. key[p] \in Plan /\ Items[key[p]] \subseteq Dl
    BY <1>10 DEF PublishInstall
  <2>2. CASE install' = install
    <3>1. Move(p)
      BY <1>10, <2>2 DEF PublishInstall, BuildUnchanged, Move
    <3> QED
      BY <3>1, BackMove
  <2>3. CASE install' = [install EXCEPT ![key[p]] = "whole"]
    <3>1. /\ pc' = [pc EXCEPT ![p] = "link"] \/ pc' = [pc EXCEPT ![p] = "finish"]
          /\ UNCHANGED <<row, rel, dl, key, fetch>>
          /\ \A q \in Proc : q # p => job'[q] = job[q]
          /\ \A d \in Items[key[p]] : dl[d] = "whole"
      BY <1>10, <2>1 DEF PublishInstall, BuildUnchanged, Downloaded
    <3>2. p \in gcShared /\ \A q \in Proc : pc[q] \notin {"gcInstalls", "gcDownloads"}
      BY <1>10 DEF PublishInstall, GcLockInv, SharedSteps, Sweeping, GcSteps
    <3>3. \A k \in Plan : install[k] # "none" => install'[k] # "none"
      BY <2>3
    <3>4. RowsInstalled' /\ RowsRelated'
      BY <3>1, <3>3
    <3>5. InstallsFetched'
      BY <2>1, <2>3, <3>1
    <3>6. CreatesBacked'
      BY <2>1, <2>3, <3>1, <3>3
    <3>7. SweepsSpare'
      BY <3>1, <3>2
    <3> QED
      BY <3>4, <3>5, <3>6, <3>7
  <2> QED
    BY <1>10, <2>2, <2>3 DEF PublishInstall
<1>11. ASSUME NEW d \in Dl, AcquireDlLock(p, d) PROVE BackInv'
  BY <1>11 DEF AcquireDlLock, BuildUnchanged, LiveKeys, GcLockInv,
     SharedSteps, Sweeping, GcSteps
<1>12. ASSUME NEW d \in Dl, ReuseDownload(p, d) PROVE BackInv'
  BY <1>12 DEF ReuseDownload, Verified, EndDownload, BuildUnchanged, LiveKeys,
     GcLockInv, SharedSteps, Sweeping, GcSteps
<1>13. ASSUME NEW d \in Dl, StartDownload(p, d) PROVE BackInv'
  BY <1>13 DEF StartDownload, BuildUnchanged, LiveKeys, GcLockInv,
     SharedSteps, Sweeping, GcSteps
<1>14. ASSUME NEW d \in Dl, PublishDownload(p, d) PROVE BackInv'
  BY <1>14 DEF PublishDownload, EndDownload, BuildUnchanged, LiveKeys,
     GcLockInv, SharedSteps, Sweeping, GcSteps
<1>15. ASSUME NEW d \in Dl, FailDownload(p, d) PROVE BackInv'
  BY <1>15 DEF FailDownload, EndDownload, BuildUnchanged, LiveKeys,
     GcLockInv, SharedSteps, Sweeping, GcSteps
<1>16. ASSUME FailItem(p) PROVE BackInv'
  BY <1>16 DEF FailItem, BuildUnchanged, LiveKeys, GcLockInv, SharedSteps,
     Sweeping, GcSteps
<1>17. ASSUME HardLink(p) PROVE BackInv'
  <2>1. Move(p)
    BY <1>17 DEF HardLink, Move
  <2> QED
    BY <2>1, BackMove
<1>18. ASSUME VerifyRegistration(p) PROVE BackInv'
  <2>1. Move(p)
    BY <1>18 DEF VerifyRegistration, Move
  <2> QED
    BY <2>1, BackMove
<1>19. ASSUME CheckRow(p) PROVE BackInv'
  <2>1. Move(p)
    BY <1>19 DEF CheckRow, Move
  <2> QED
    BY <2>1, BackMove
<1>20. ASSUME AddRequest(p) PROVE BackInv'
  <2>1. key[p] \in Plan /\ install[key[p]] # "none" /\ Items[key[p]] \subseteq Dl
    BY <1>20 DEF AddRequest
  <2>2. /\ row' = [row EXCEPT ![job[p].ino] = key[p]]
        /\ rel' = rel \cup ({key[p]} \X Items[key[p]])
        /\ pc' = [pc EXCEPT ![p] = "finish"]
        /\ UNCHANGED <<install, dl, key, fetch>>
        /\ \A q \in Proc : q # p => job'[q] = job[q]
    BY <1>20 DEF AddRequest
  <2>3. \A q \in Proc : pc[q] \notin {"gcInstalls", "gcDownloads"}
    BY <1>20 DEF AddRequest, GcLockInv, SharedSteps, Sweeping, GcSteps
  <2>4. \A i \in Ino : row'[i] = row[i] \/ row'[i] = key[p]
    BY <2>2
  <2>5. RowsInstalled'
    BY <2>1, <2>2, <2>4
  <2>6. RowsRelated'
    BY <2>1, <2>2, <2>4
  <2>7. InstallsFetched' /\ CreatesBacked'
    BY <2>2
  <2>8. SweepsSpare'
    BY <2>2, <2>3
  <2> QED
    BY <2>5, <2>6, <2>7, <2>8
<1> QED
  BY <1>1, <1>2, <1>3, <1>4, <1>5, <1>6, <1>7, <1>8, <1>9, <1>10, <1>11,
     <1>12, <1>13, <1>14, <1>15, <1>16, <1>17, <1>18, <1>19, <1>20 DEF
     CreateStep, EffectFailure

(* A remove only takes references away.                                    *)
LEMMA BackRemove ==
  \A p \in Proc : TypeInv /\ GcLockInv /\ BackInv /\ RemoveStep(p) => BackInv'
<1> SUFFICES ASSUME NEW p \in Proc, TypeInv, GcLockInv, BackInv, RemoveStep(p)
             PROVE  BackInv'
  OBVIOUS
<1> /\ row \in [Ino -> Plan \cup {Nil}] /\ rel \subseteq Plan \X Dl
    /\ install \in [Plan -> Object] /\ dl \in [Dl -> {"none", "whole", "torn"}]
    /\ pc \in [Proc -> Step] /\ key \in [Proc -> Plan \cup {Nil}]
    /\ job \in [Proc -> Job] /\ fetch \in [Proc -> [Dl -> Fetch]]
    /\ \A q \in Proc : pc[q] \in Registering \cup {"check", "build"} => key[q] \in Plan
    /\ Nil \notin Proc /\ Nil \notin Plan
    /\ Items \in [Plan -> SUBSET Dl]
  BY NilAssumption, ItemsAssumption DEF TypeInv, TypeOK, CallsFormed, Keyed, Registering
<1> USE DEF dbVars, objVars, BackInv, RowsInstalled, RowsRelated, InstallsFetched,
        CreatesBacked, SweepsSpare, Registering, Goto, Fail
<1>1. ASSUME RemoveAcquireGc(p) PROVE BackInv'
  BY <1>1 DEF RemoveAcquireGc, AcquireGcShared, SharedFree, LiveKeys,
     GcLockInv, SharedSteps, Sweeping, GcSteps
<1>2. ASSUME RemoveSnapshot(p) PROVE BackInv'
  <2>1. /\ UNCHANGED <<row, rel, install, dl, key, fetch>>
        /\ \E to \in {"rmRow", "finish"} : pc' = [pc EXCEPT ![p] = to]
    BY <1>2 DEF RemoveSnapshot
  <2>2. ASSUME NEW q \in Proc, q # p
        PROVE  job'[q] = job[q] \/ job'[q] = [job[q] EXCEPT !.raced = TRUE]
    <3>1. CASE path[job[p].path] = Nil
      BY <1>2, <2>2, <3>1 DEF RemoveSnapshot
    <3>2. CASE path[job[p].path] # Nil
      BY <1>2, <2>2, <3>2 DEF RemoveSnapshot
    <3> QED
      BY <3>1, <3>2
  <2>3. Move(p)
    BY <2>1, <2>2, JobRacedLive DEF Move
  <2> QED
    BY <2>3, BackMove
<1>3. ASSUME RemoveRow(p) PROVE BackInv'
  BY <1>3 DEF RemoveRow, LiveKeys, GcLockInv, SharedSteps, Sweeping, GcSteps
<1>4. ASSUME RemoveLink(p) PROVE BackInv'
  BY <1>4 DEF RemoveLink, LiveKeys, GcLockInv, SharedSteps, Sweeping,
     GcSteps
<1> QED
  BY <1>1, <1>2, <1>3, <1>4 DEF RemoveStep

(* A gc sweeps only what no row references: under its lock no create can   *)
(* add a row, and the live keys it read stay the live keys.                *)
LEMMA BackGc == \A p \in Proc : TypeInv /\ GcLockInv /\ BackInv /\ GcStep(p) => BackInv'
<1> SUFFICES ASSUME NEW p \in Proc, TypeInv, GcLockInv, BackInv, GcStep(p) PROVE BackInv'
  OBVIOUS
<1> /\ row \in [Ino -> Plan \cup {Nil}] /\ rel \subseteq Plan \X Dl
    /\ install \in [Plan -> Object] /\ dl \in [Dl -> {"none", "whole", "torn"}]
    /\ pc \in [Proc -> Step] /\ key \in [Proc -> Plan \cup {Nil}]
    /\ job \in [Proc -> Job] /\ fetch \in [Proc -> [Dl -> Fetch]]
    /\ \A q \in Proc : pc[q] \in Registering \cup {"check", "build"} => key[q] \in Plan
    /\ Nil \notin Proc /\ Nil \notin Plan
    /\ Items \in [Plan -> SUBSET Dl]
  BY NilAssumption, ItemsAssumption DEF TypeInv, TypeOK, CallsFormed, Keyed, Registering
<1> USE DEF dbVars, objVars, BackInv, RowsInstalled, RowsRelated, InstallsFetched,
        CreatesBacked, SweepsSpare, Registering, Goto, Fail
<1>1. ASSUME GcAcquire(p) PROVE BackInv'
  BY <1>1 DEF GcAcquire, GcUnchanged, ExclusiveFree, LiveKeys, GcLockInv,
     SharedSteps, Sweeping, GcSteps
<1>2. ASSUME GcKnown(p) PROVE BackInv'
  BY <1>2 DEF GcKnown, GcUnchanged, LiveKeys, GcLockInv, SharedSteps,
     Sweeping, GcSteps
<1>3. ASSUME GcListRequests(p) PROVE BackInv'
  BY <1>3 DEF GcListRequests, GcUnchanged, LiveKeys, GcLockInv, SharedSteps,
     Sweeping, GcSteps
<1>4. ASSUME GcUnlink(p) PROVE BackInv'
  BY <1>4 DEF GcUnlink, GcUnchanged, LiveKeys, GcLockInv, SharedSteps,
     Sweeping, GcSteps
<1>5. ASSUME GcRelations(p) PROVE BackInv'
  <2>1. job'[p].live = LiveKeys
    BY <1>5, JobLiveSet DEF GcRelations
  <2>2. /\ rel' = {r \in rel : r[1] \in LiveKeys}
        /\ pc' = [pc EXCEPT ![p] = "gcInstalls"]
        /\ UNCHANGED <<row, install, dl, key, fetch>>
        /\ \A q \in Proc : q # p => job'[q] = job[q]
    BY <1>5 DEF GcRelations, GcUnchanged
  <2>3. \A q \in Proc : pc[q] = "gcDownloads" => q = p
    BY <1>5 DEF GcRelations, GcLockInv, Sweeping, GcSteps
  <2>4. RowsRelated'
    BY <2>2 DEF LiveKeys
  <2>5. RowsInstalled' /\ InstallsFetched' /\ CreatesBacked'
    BY <2>2
  <2>6. SweepsSpare'
    BY <2>1, <2>2, <2>3 DEF LiveKeys
  <2> QED
    BY <2>4, <2>5, <2>6
<1>6. ASSUME GcInstallsSwept(p) PROVE BackInv'
  <2>1. job[p].live = LiveKeys /\ job'[p].live = LiveDls
    BY <1>6, JobLiveSet DEF GcInstallsSwept
  <2>2. /\ pc' = [pc EXCEPT ![p] = "gcDownloads"]
        /\ UNCHANGED <<row, rel, install, dl, key, fetch>>
        /\ \A q \in Proc : q # p => job'[q] = job[q]
        /\ \A k \in Plan : install[k] # "none" => k \in job[p].live
    BY <1>6 DEF GcInstallsSwept, GcUnchanged
  <2>3. ASSUME NEW i \in Ino, row[i] # Nil, NEW d \in Items[row[i]] PROVE d \in LiveDls
    <3>1. row[i] \in LiveKeys /\ d \in Dl
      BY <2>3 DEF LiveKeys
    <3>2. <<row[i], d>> \in rel
      BY <2>3
    <3> QED
      BY <3>1, <3>2 DEF LiveDls
  <2>4. SweepsSpare'
    BY <2>1, <2>2, <2>3 DEF LiveKeys
  <2> QED
    BY <2>2, <2>4
<1>7. ASSUME GcDownloadsSwept(p) PROVE BackInv'
  BY <1>7 DEF GcDownloadsSwept, GcUnchanged, LiveKeys, GcLockInv,
     SharedSteps, Sweeping, GcSteps
<1>8. ASSUME GcSweepTmp(p) PROVE BackInv'
  BY <1>8 DEF GcSweepTmp, GcUnchanged, LiveKeys, GcLockInv, SharedSteps,
     Sweeping, GcSteps
<1>9. ASSUME NEW i \in Ino, GcStaleRow(p, i) PROVE BackInv'
  <2>1. /\ \A n \in Ino : row'[n] = row[n] \/ row'[n] = Nil
        /\ pc'[p] \notin {"gcInstalls", "gcDownloads"} \cup Registering
        /\ \A q \in Proc : q # p => pc'[q] = pc[q] /\ job'[q] = job[q]
        /\ UNCHANGED <<rel, install, dl, key, fetch>>
    BY <1>9 DEF GcStaleRow, GcUnchanged
  <2>2. \A q \in Proc : q # p => pc[q] \notin {"gcInstalls", "gcDownloads"}
    BY <1>9 DEF GcStaleRow, GcLockInv, Sweeping, GcSteps
  <2>3. RowsInstalled' /\ RowsRelated'
    BY <2>1
  <2>4. InstallsFetched' /\ CreatesBacked'
    BY <2>1
  <2>5. SweepsSpare'
    BY <2>1, <2>2
  <2> QED
    BY <2>3, <2>4, <2>5
<1>10. ASSUME NEW i \in Ino, GcEntry(p, i) PROVE BackInv'
  <2>1. /\ \A n \in Ino : row'[n] = row[n] \/ row'[n] = Nil
        /\ pc'[p] \notin {"gcInstalls", "gcDownloads"} \cup Registering
        /\ \A q \in Proc : q # p => pc'[q] = pc[q] /\ job'[q] = job[q]
        /\ UNCHANGED <<rel, install, dl, key, fetch>>
    BY <1>10 DEF GcEntry, GcUnchanged
  <2>2. \A q \in Proc : q # p => pc[q] \notin {"gcInstalls", "gcDownloads"}
    BY <1>10 DEF GcEntry, GcLockInv, Sweeping, GcSteps
  <2>3. RowsInstalled' /\ RowsRelated'
    BY <2>1
  <2>4. InstallsFetched' /\ CreatesBacked'
    BY <2>1
  <2>5. SweepsSpare'
    BY <2>1, <2>2
  <2> QED
    BY <2>3, <2>4, <2>5
<1>11. ASSUME NEW k \in Plan, GcSweepInstall(p, k) PROVE BackInv'
  BY <1>11 DEF GcSweepInstall, GcUnchanged, LiveKeys, GcLockInv,
     SharedSteps, Sweeping, GcSteps
<1>12. ASSUME NEW d \in Dl, GcSweepDownload(p, d) PROVE BackInv'
  BY <1>12 DEF GcSweepDownload, GcUnchanged, LiveKeys, GcLockInv,
     SharedSteps, Sweeping, GcSteps
<1> QED
  BY <1>1, <1>2, <1>3, <1>4, <1>5, <1>6, <1>7, <1>8, <1>9, <1>10, <1>11,
     <1>12 DEF GcStep

(* A call that ends keeps everything backed, also when a gc is killed      *)
(* while it deletes an object no row references.                           *)
LEMMA BackEnd ==
  \A p \in Proc :
    TypeInv /\ GcLockInv /\ BackInv /\ (Return(p) \/ CrashAny(p)) => BackInv'
<1> SUFFICES ASSUME NEW p \in Proc, TypeInv, GcLockInv, BackInv, Return(p) \/ CrashAny(p)
             PROVE  BackInv'
  OBVIOUS
<1>1. /\ pc' = [pc EXCEPT ![p] = "idle"]
      /\ key' = [key EXCEPT ![p] = Nil]
      /\ job' = [job EXCEPT ![p] = IdleJob]
      /\ fetch' = [fetch EXCEPT ![p] = NoFetch]
      /\ UNCHANGED <<row, rel>>
  BY DEF Return, CrashAny, Crash, CrashSweepingInstall, CrashSweepingDownload, Killed,
     CrashUnchanged, Retire, Goto, dbVars
<1>2. /\ pc \in [Proc -> Step] /\ key \in [Proc -> Plan \cup {Nil}]
      /\ job \in [Proc -> Job] /\ fetch \in [Proc -> [Dl -> Fetch]]
      /\ row \in [Ino -> Plan \cup {Nil}] /\ install \in [Plan -> Object]
      /\ dl \in [Dl -> {"none", "whole", "torn"}] /\ Items \in [Plan -> SUBSET Dl]
      /\ Nil \notin Proc /\ Nil \notin Plan
      /\ \A q \in Proc : pc[q] \in Registering => key[q] \in Plan
  BY NilAssumption, ItemsAssumption DEF TypeInv, TypeOK, CallsFormed, Keyed, Registering
<1> USE DEF BackInv, RowsInstalled, RowsRelated, InstallsFetched, CreatesBacked,
        SweepsSpare, Registering
<1>3. CASE UNCHANGED <<install, dl>>
  <2>1. Move(p)
    BY <1>1, <1>2, <1>3 DEF Move, NoFetch
  <2> QED
    BY <2>1, BackMove
<1>4. ASSUME NEW k \in Plan, CrashSweepingInstall(p, k) PROVE BackInv'
  <2>1. /\ install[k] # "none" /\ dl' = dl
        /\ \E left \in {"husk", "stub"} : install' = [install EXCEPT ![k] = left]
    BY <1>4 DEF CrashSweepingInstall
  <2>2. \A j \in Plan : install'[j] # "none" <=> install[j] # "none"
    BY <1>2, <2>1
  <2>3. RowsInstalled' /\ RowsRelated' /\ InstallsFetched'
    BY <1>1, <1>2, <2>1, <2>2
  <2>4. CreatesBacked'
    BY <1>1, <1>2, <2>1, <2>2 DEF NoFetch
  <2>5. SweepsSpare'
    BY <1>1, <1>2, <2>1, <2>2 DEF LiveKeys
  <2> QED
    BY <2>3, <2>4, <2>5
<1>5. ASSUME NEW d \in Dl, CrashSweepingDownload(p, d) PROVE BackInv'
  <2>1. /\ pc[p] = "gcDownloads" /\ d \notin job[p].live /\ install' = install
        /\ \A e \in Dl : e # d => dl'[e] = dl[e]
    BY <1>2, <1>5 DEF CrashSweepingDownload
  <2>2. ASSUME NEW k \in Plan, install[k] # "none" PROVE d \notin Items[k]
    <3>1. PICK i \in Ino : row[i] = k
      BY <1>2, <2>1, <2>2
    <3> QED
      BY <1>2, <2>1, <3>1
  <2>3. gcExcl = p /\ gcShared = {}
    BY <1>2, <2>1 DEF GcLockInv, Sweeping, GcSteps
  <2>4. /\ \A q \in Proc, e \in Dl : fetch[q][e] = "none"
        /\ \A q \in Proc \ {p} :
              pc[q] \notin {"gcInstalls", "gcDownloads"} \cup Registering
    BY <1>2, <2>3 DEF GcLockInv, Sweeping, GcSteps, SharedSteps
  <2>5. RowsInstalled' /\ RowsRelated'
    BY <1>1, <2>1
  <2>6. InstallsFetched'
    BY <1>2, <2>1, <2>2
  <2>7. CreatesBacked' /\ SweepsSpare'
    BY <1>1, <1>2, <2>4 DEF NoFetch
  <2> QED
    BY <2>5, <2>6, <2>7
<1> QED
  BY <1>3, <1>4, <1>5 DEF Return, CrashAny, Crash, CrashUnchanged, Killed

(* Every step keeps everything backed.                                     *)
LEMMA BackStep == TypeInv /\ GcLockInv /\ BackInv /\ [Next]_vars => BackInv'
  BY BackUser, BackSubmit, BackCreate, BackRemove, BackGc, BackEnd
  DEF Next, ProcStep, Quiet

(* The inductive invariant holds: the gc lock keeps creates and gc apart,  *)
(* rows rest on installations and installations on downloads, and what a   *)
(* gc is about to sweep is nothing the database references.                *)
THEOREM Invariant == Spec => []IInv
<1>1. Init => IInv
  BY TypeInit, GcLockInit, BackInit DEF IInv
<1>2. IInv /\ [Next]_vars => IInv'
  BY TypeStep, GcLockStep, BackStep DEF IInv
<1> QED
  BY <1>1, <1>2, PTL DEF Spec

(* No interleaving of creates, removes, gcs, crashes and users deletes an  *)
(* installation or a download that the database references                 *)
(* (register_create, gc_locked).                                           *)
THEOREM RowsAlwaysBacked == Spec => []RowsBacked
<1>1. IInv => RowsBacked
  <2> SUFFICES ASSUME IInv, NEW i \in Ino, row[i] # Nil
               PROVE  /\ install[row[i]] # "none"
                      /\ \A d \in Items[row[i]] : dl[d] = "whole"
    BY DEF RowsBacked
  <2> QED
    BY DEF IInv, TypeInv, TypeOK, BackInv, RowsInstalled, InstallsFetched
<1> QED
  BY <1>1, Invariant, PTL

-----------------------------------------------------------------------------
(* Torn downloads.                                                         *)

(* A download object changes when a fetch is published where there was none*)
(* or when the gc that found it unreferenced deletes it.                   *)
LEMMA DownloadsMove ==
  [Next]_vars =>
    \/ UNCHANGED dl
    \/ \E p \in Proc, d \in Dl : PublishDownload(p, d)
    \/ \E p \in Proc, d \in Dl : GcSweepDownload(p, d) \/ CrashSweepingDownload(p, d)
<1> SUFFICES ASSUME [Next]_vars,
                    ~ \E p \in Proc, d \in Dl : PublishDownload(p, d),
                    ~ \E p \in Proc, d \in Dl :
                        GcSweepDownload(p, d) \/ CrashSweepingDownload(p, d)
             PROVE  UNCHANGED dl
  OBVIOUS
<1>1. CASE UserStep \/ Quiet \/ UNCHANGED vars
  BY <1>1 DEF UserStep, UserWrite, UserEdit, UserLink, UserUnlink, UserUnchanged,
     Quiet, vars, objVars
<1>2. ASSUME NEW p \in Proc, SubmitAny(p) PROVE UNCHANGED dl
  BY <1>2 DEF SubmitAny, SubmitCreate, SubmitInstall, SubmitRemove, SubmitGc, Submit, objVars
<1>3. ASSUME NEW p \in Proc, CreateStep(p) PROVE UNCHANGED dl
  BY <1>3 DEF CreateStep, AcquireRequestLock, PersistRequest, PrepareSnapshot, ReadPlan,
     CreateAcquireGc, AcquireGcShared, AcquireInstallLock, CheckCached, PrepareInstall,
     AbandonBuild, PublishInstall, AcquireDlLock, ReuseDownload, StartDownload, HardLink,
     VerifyRegistration, CheckRow, AddRequest, objVars
<1>4. ASSUME NEW p \in Proc, RemoveStep(p) \/ EffectFailure(p) \/ Return(p) PROVE UNCHANGED dl
  BY <1>4 DEF RemoveStep, RemoveAcquireGc, AcquireGcShared, RemoveSnapshot, RemoveRow,
     RemoveLink, EffectFailure, FailItem, FailDownload, Return, objVars
<1>5. ASSUME NEW p \in Proc, GcStep(p) PROVE UNCHANGED dl
  BY <1>5 DEF GcStep, GcAcquire, GcKnown, GcListRequests, GcUnlink, GcRelations,
     GcInstallsSwept, GcDownloadsSwept, GcSweepTmp, GcStaleRow, GcEntry, GcSweepInstall, objVars
<1>6. ASSUME NEW p \in Proc, CrashAny(p) PROVE UNCHANGED dl
  BY <1>6 DEF CrashAny, Crash, CrashSweepingInstall
<1> QED
  BY <1>1, <1>2, <1>3, <1>4, <1>5, <1>6 DEF Next, ProcStep

(* A torn download is replaced by no fetch and deleted by gc alone, and no *)
(* create that needs it gets as far as its upsert: the installation it     *)
(* found or published would rest on whole downloads (apply_download,       *)
(* gc_locked).                                                             *)
THEOREM TornAlwaysUntilGc == Spec => TornUntilGc
<1>1. IInv /\ [Next]_vars =>
        \A d \in Dl : dl[d] = "torn" =>
          /\ dl'[d] # dl[d] =>
               \E p \in Proc : /\ gcExcl = p
                               /\ pc[p] = "gcDownloads"
                               /\ d \notin job[p].live
          /\ \A p \in Proc : pc[p] = "bind" /\ pc'[p] = "finish" => d \notin Items[key[p]]
  <2> SUFFICES ASSUME IInv, [Next]_vars, NEW d \in Dl, dl[d] = "torn"
               PROVE  /\ dl'[d] # dl[d] =>
                           \E p \in Proc : /\ gcExcl = p
                                           /\ pc[p] = "gcDownloads"
                                           /\ d \notin job[p].live
                      /\ \A p \in Proc : pc[p] = "bind" => d \notin Items[key[p]]
    OBVIOUS
  <2>1. dl \in [Dl -> {"none", "whole", "torn"}]
    BY DEF IInv, TypeInv, TypeOK
  <2>2. ASSUME dl'[d] # dl[d]
        PROVE  \E p \in Proc : /\ gcExcl = p
                               /\ pc[p] = "gcDownloads"
                               /\ d \notin job[p].live
    <3>1. ASSUME NEW p \in Proc, NEW e \in Dl, PublishDownload(p, e) PROVE dl'[d] = dl[d]
      BY <2>1, <3>1 DEF PublishDownload
    <3>2. PICK p \in Proc, e \in Dl : GcSweepDownload(p, e) \/ CrashSweepingDownload(p, e)
      BY <2>2, <3>1, DownloadsMove
    <3>3. e = d /\ pc[p] = "gcDownloads" /\ e \notin job[p].live
      BY <2>1, <2>2, <3>2 DEF GcSweepDownload, CrashSweepingDownload
    <3>4. gcExcl = p
      BY <3>3 DEF IInv, GcLockInv, Sweeping, GcSteps
    <3> QED
      BY <3>3, <3>4
  <2>3. ASSUME NEW p \in Proc, pc[p] = "bind" PROVE d \notin Items[key[p]]
    <3>1. key[p] \in Plan /\ install[key[p]] # "none"
      BY <2>3 DEF IInv, TypeInv, CallsFormed, Keyed, BackInv, CreatesBacked, Registering
    <3> QED
      BY <3>1 DEF IInv, BackInv, InstallsFetched
  <2> QED
    BY <2>2, <2>3
<1> QED
  BY <1>1, Invariant, PTL DEF Spec, TornUntilGc

-----------------------------------------------------------------------------
(* The store implements reference-counted possession.                      *)

Have == {k \in Plan : install[k] # "none"}
Quietly == UNCHANGED row /\ Have' = Have

(* An empty store binds and has nothing.                                   *)
LEMMA IntentInit == Init => Intent!Init
  BY DEF Init, Intent!Init

(* What users do to their files neither binds nor collects.                *)
LEMMA IntentUser == UserStep \/ UNCHANGED vars => Quietly
  BY DEF UserStep, UserWrite, UserEdit, UserLink, UserUnlink, UserUnchanged, vars,
     dbVars, objVars, Quietly, Have

(* Submitting, returning, dying between steps and failing neither bind nor *)
(* collect.                                                                *)
LEMMA IntentQuiet ==
  ASSUME NEW p \in Proc,
         \/ SubmitAny(p) \/ EffectFailure(p) \/ Return(p) \/ Crash(p)
         \/ \E d \in Dl : CrashSweepingDownload(p, d)
  PROVE  Quietly
  BY DEF SubmitAny, SubmitCreate, SubmitRemove, SubmitInstall, SubmitGc, Submit,
     EffectFailure,
     FailItem, FailDownload, EndDownload, BuildUnchanged, Return, Crash,
     CrashSweepingDownload, CrashUnchanged, dbVars, objVars, Quietly, Have

(* A step of create publishes one plan, binds one inode to a plan the      *)
(* store has, or changes neither (PublishInstall, add_request).            *)
LEMMA IntentCreate ==
  ASSUME NEW p \in Proc, IInv, CreateStep(p)
  PROVE  \/ Quietly
         \/ \E k \in Plan : Intent!Publish(k)
         \/ \E i \in Ino, k \in Plan : Intent!Bind(i, k)
<1>0. /\ install \in [Plan -> Object] /\ row \in [Ino -> Plan \cup {Nil}]
      /\ pc[p] \in Keyed => key[p] \in Plan
  BY DEF IInv, TypeInv, TypeOK, CallsFormed
<1>1. CASE PublishInstall(p)
  <2>1. key[p] \in Plan /\ UNCHANGED row
    BY <1>0, <1>1 DEF PublishInstall, BuildUnchanged, dbVars, Keyed
  <2>2. CASE install' = install
    BY <2>1, <2>2 DEF Quietly, Have
  <2>3. CASE install[key[p]] = "none" /\ install' = [install EXCEPT ![key[p]] = "whole"]
    <3>1. key[p] \notin Have /\ Have' = Have \cup {key[p]}
      BY <1>0, <2>1, <2>3 DEF Have
    <3> QED
      BY <2>1, <3>1 DEF Intent!Publish, Have
  <2> QED
    BY <1>1, <2>2, <2>3 DEF PublishInstall
<1>2. CASE AddRequest(p)
  <2>1. key[p] \in Have /\ Have' = Have /\ row' = [row EXCEPT ![job[p].ino] = key[p]]
    BY <1>0, <1>2 DEF AddRequest, objVars, Have, Keyed, IInv, BackInv, CreatesBacked,
       Registering
  <2>2. CASE job[p].ino \in Ino
    BY <2>1, <2>2 DEF Intent!Bind, Have
  <2>3. CASE job[p].ino \notin Ino
    BY <1>0, <2>1, <2>3 DEF Quietly
  <2> QED
    BY <2>2, <2>3
<1>3. CASE CreateStep(p) /\ ~PublishInstall(p) /\ ~AddRequest(p)
  <2>1. UNCHANGED <<row, install>>
    <3> USE DEF dbVars, objVars, BuildUnchanged
    <3>1. ASSUME AcquireRequestLock(p) \/ PrepareSnapshot(p) \/ ReadPlan(p)
                 \/ CreateAcquireGc(p) \/ AcquireInstallLock(p) \/ CheckCached(p)
          PROVE  UNCHANGED <<row, install>>
      BY <3>1 DEF AcquireRequestLock, PrepareSnapshot, ReadPlan, CreateAcquireGc,
         AcquireGcShared, AcquireInstallLock, CheckCached
    <3>2. CASE PersistRequest(p)
      BY <3>2, PersistEffect
    <3>3. ASSUME PrepareInstall(p) \/ AbandonBuild(p) \/ HardLink(p)
                 \/ VerifyRegistration(p) \/ CheckRow(p)
          PROVE  UNCHANGED <<row, install>>
      BY <3>3 DEF PrepareInstall, AbandonBuild, HardLink, VerifyRegistration, CheckRow
    <3>4. ASSUME NEW d \in Dl, AcquireDlLock(p, d) \/ ReuseDownload(p, d)
                               \/ StartDownload(p, d) \/ PublishDownload(p, d)
          PROVE  UNCHANGED <<row, install>>
      BY <3>4 DEF AcquireDlLock, ReuseDownload, StartDownload, PublishDownload, EndDownload
    <3> QED
      BY <1>3, <3>1, <3>2, <3>3, <3>4 DEF CreateStep
  <2> QED
    BY <2>1 DEF Quietly, Have
<1> QED
  BY <1>1, <1>2, <1>3

(* A step of remove unbinds one inode or changes nothing.                  *)
LEMMA IntentRemove ==
  ASSUME NEW p \in Proc, IInv, RemoveStep(p)
  PROVE  Quietly \/ \E i \in Ino : Intent!Unbind(i)
<1>0. row \in [Ino -> Plan \cup {Nil}]
  BY DEF IInv, TypeInv, TypeOK
<1>1. CASE RemoveRow(p)
  <2>1. Have' = Have /\ row' = [row EXCEPT ![job[p].ino] = Nil]
    BY <1>1 DEF RemoveRow, objVars, Have
  <2>2. CASE job[p].ino \in Ino
    BY <2>1, <2>2 DEF Intent!Unbind, Have
  <2>3. CASE job[p].ino \notin Ino
    BY <1>0, <2>1, <2>3 DEF Quietly
  <2> QED
    BY <2>2, <2>3
<1>2. CASE RemoveAcquireGc(p) \/ RemoveSnapshot(p) \/ RemoveLink(p)
  BY <1>2 DEF RemoveAcquireGc, AcquireGcShared, RemoveSnapshot, RemoveLink, dbVars,
     objVars, Quietly, Have
<1> QED
  BY <1>1, <1>2 DEF RemoveStep

(* A step of gc unbinds one inode, collects one plan no inode is bound to, *)
(* or changes neither (gc_locked).                                         *)
LEMMA IntentGc ==
  ASSUME NEW p \in Proc, IInv, GcStep(p)
  PROVE  \/ Quietly
         \/ \E i \in Ino : Intent!Unbind(i)
         \/ \E k \in Plan : Intent!Collect(k)
<1>1. ASSUME NEW k \in Plan, GcSweepInstall(p, k) PROVE Intent!Collect(k)
  <2>1. \A i \in Ino : row[i] # k
    BY <1>1, NilAssumption
    DEF GcSweepInstall, LiveKeys, IInv, BackInv, SweepsSpare
  <2>2. k \in Have /\ Have' = Have \ {k} /\ UNCHANGED row
    BY <1>1 DEF GcSweepInstall, Have, dbVars, IInv, TypeInv, TypeOK
  <2> QED
    BY <2>1, <2>2 DEF Intent!Collect, Have
<1>2. ASSUME NEW i \in Ino, GcStaleRow(p, i) \/ GcEntry(p, i)
      PROVE  Quietly \/ Intent!Unbind(i)
  BY <1>2 DEF GcStaleRow, GcEntry, objVars, Quietly, Have, Intent!Unbind
<1>3. ASSUME \/ GcAcquire(p) \/ GcKnown(p) \/ GcListRequests(p) \/ GcUnlink(p)
             \/ GcRelations(p) \/ GcInstallsSwept(p) \/ GcDownloadsSwept(p)
             \/ GcSweepTmp(p) \/ \E d \in Dl : GcSweepDownload(p, d)
      PROVE  Quietly
  BY <1>3 DEF GcAcquire, GcKnown, GcListRequests, GcUnlink, GcRelations,
     GcInstallsSwept, GcDownloadsSwept, GcSweepTmp, GcSweepDownload, dbVars, objVars,
     Quietly, Have
<1> QED
  BY <1>1, <1>2, <1>3 DEF GcStep

(* A gc killed while it deletes an installation leaves something of it.    *)
LEMMA IntentHusk ==
  ASSUME NEW p \in Proc, NEW k \in Plan, IInv, CrashSweepingInstall(p, k)
  PROVE  Quietly
<1>1. install \in [Plan -> Object]
  BY DEF IInv, TypeInv, TypeOK
<1>2. /\ install[k] # "none" /\ UNCHANGED row
      /\ \E left \in {"husk", "stub"} : install' = [install EXCEPT ![k] = left]
  BY DEF CrashSweepingInstall, CrashUnchanged, dbVars
<1> QED
  BY <1>1, <1>2 DEF Quietly, Have

(* Every step of the store is a step of reference-counted possession: an   *)
(* inode is bound only to a plan whose installation is there, and only an  *)
(* installation no inode is bound to is given up (register_create, remove, *)
(* gc_locked).                                                             *)
THEOREM Implementation == Spec => ImplementsIntent
<1>1. IInv /\ [Next]_vars => [Intent!Next]_Intent!vars
  <2> SUFFICES ASSUME IInv, [Next]_vars PROVE [Intent!Next]_Intent!vars
    OBVIOUS
  <2>1. Quietly => [Intent!Next]_Intent!vars
    BY DEF Quietly, Have, Intent!vars
  <2>2. CASE UserStep \/ UNCHANGED vars \/ Quiet
    BY <2>1, <2>2, IntentUser DEF Quiet
  <2>3. ASSUME NEW p \in Proc,
               SubmitAny(p) \/ ProcStep(p) \/ EffectFailure(p) \/ CrashAny(p)
        PROVE  [Intent!Next]_Intent!vars
    BY <2>1, <2>3, IntentQuiet, IntentCreate, IntentRemove, IntentGc, IntentHusk
    DEF ProcStep, CrashAny, Intent!Next
  <2> QED
    BY <2>2, <2>3 DEF Next
<1> QED
  BY <1>1, IntentInit, Invariant, PTL DEF Spec, ImplementsIntent, Intent!Spec

-----------------------------------------------------------------------------
(* What a build stages stays, a gc that returns left nothing unreferenced, *)
(* and what a create promised to the owner of a plan file is kept: the     *)
(* inductive invariant, which extends IInv.                                *)

(* Staging: a build works under its installation's lock, a download task   *)
(* under its download's lock, and a call stages after its check.           *)
Unbuilt == {"reqLock", "persist", "snapshot", "readPlan", "gcShared", "installLock",
            "check"}
InstallHeld ==
  \A p \in Proc : pc[p] \in {"check", "build"} \cup Registering => installLock[key[p]] = p
DownloadHeld ==
  \A p \in Proc, d \in Dl : fetch[p][d] \in {"locked", "fetching"} => dlLock[d] = p
StagedLate == \A p \in Proc : pc[p] \in Unbuilt => ~job[p].staged
BuildStaged ==
  \A p \in Proc : pc[p] = "build" =>
    install[key[p]] = "none" /\ (job[p].staged => <<p, key[p]>> \in tmp)
DownloadStaged ==
  \A p \in Proc, d \in Dl : fetch[p][d] = "fetching" => <<p, d>> \in tmp /\ dl[d] = "none"
StagingInv ==
  InstallHeld /\ DownloadHeld /\ StagedLate /\ BuildStaged /\ DownloadStaged

(* How far the rows and the links of the store agree as a gc goes on: it   *)
(* knows every row, a row it has passed has its link, a link it has passed *)
(* has its row.                                                            *)
RowsKnown(p) == \A i \in Ino : row[i] # Nil => i \in job[p].known
KnownLinked(p, done) == \A i \in done : row[i] # Nil => reg[i] # Nil
LinkedKnown(p, but) ==
  \A i \in job[p].known \ but : reg[i] # Nil => row[i] # Nil
LinksMatched(but) == \A i \in Ino \ but : reg[i] # Nil => row[i] # Nil
Matched == \A i \in Ino : row[i] = Nil <=> reg[i] = Nil
InstallsLive == \A k \in Plan : install[k] # "none" => k \in LiveKeys
DownloadsLive == \A d \in Dl : dl[d] # "none" => d \in LiveDls

GcFinished(p) == pc[p] = "finish" /\ job[p].kind = "gc"
GcStage(p) ==
  /\ pc[p] \in {"gcRows", "gcScan", "gcUnlink"} => RowsKnown(p)
  /\ pc[p] = "gcRows" =>
       KnownLinked(p, job[p].known \ job[p].todo) /\ LinkedKnown(p, {})
  /\ pc[p] \in {"gcScan", "gcUnlink"} => KnownLinked(p, Ino)
  /\ pc[p] = "gcScan" => LinkedKnown(p, {}) /\ LinksMatched(job[p].todo)
  /\ pc[p] = "gcUnlink" =>
       /\ job[p].ino \in Ino /\ row[job[p].ino] = Nil
       /\ LinkedKnown(p, {job[p].ino})
       /\ LinksMatched(job[p].todo \cup {job[p].ino})
  /\ pc[p] \in {"gcInstalls", "gcDownloads", "gcTmp"} \/ GcFinished(p) => Matched
  /\ pc[p] \in {"gcDownloads", "gcTmp"} \/ GcFinished(p) => InstallsLive
  /\ pc[p] = "gcDownloads" => job[p].live = LiveDls
  /\ pc[p] = "gcTmp" \/ GcFinished(p) => DownloadsLive
  /\ GcFinished(p) => tmp = {}

(* Only a gc finishes as a gc, and it holds the lock until it returns.     *)
KindInv ==
  \A p \in Proc : /\ pc[p] \in OnPath => job[p].kind # "gc"
                  /\ GcFinished(p) => gcExcl = p
GcInv == KindInv /\ \A p \in Proc : GcStage(p)

(* Promises: an inode promised is registered and still upstream, unless a  *)
(* remove has read its inode, and then the creates at work on it know.     *)
Bound == {"readPlan", "gcShared", "installLock", "check", "build"} \cup Registering
Forgetting == {"rmRow", "rmLink"}
PromisesRegistered ==
  \A i \in Ino : kept[i] # Nil => row[i] = kept[i] /\ reg[i] = i /\ Upstream(i) # {}
CreatesHaveInode == \A p \in Proc : pc[p] \in Bound \cup Forgetting => job[p].ino \in Ino
RemovesForget == \A q \in Proc : pc[q] \in Forgetting => kept[job[q].ino] = Nil
RacesKnown ==
  \A p, q \in Proc :
    pc[p] \in Bound /\ pc[q] \in Forgetting /\ job[p].ino = job[q].ino => job[p].raced
CreatesLinked ==
  \A p \in Proc : pc[p] \in {"rowCheck", "bind"} /\ ~job[p].raced =>
                    reg[job[p].ino] = job[p].ino
KeepInv == /\ PromisesRegistered /\ CreatesHaveInode /\ RemovesForget
           /\ RacesKnown /\ CreatesLinked

-----------------------------------------------------------------------------
(* What the steps that rewrite a call's record do to it.                   *)

(* A snapshot sets the inode it read and whether a remove is at work on it *)
(* and leaves the rest of the call as it was (prepare_create).             *)
LEMMA SnapshotRecord ==
  ASSUME NEW j \in Job, NEW i \in Ino, NEW n \in Nat, NEW b \in BOOLEAN,
         NEW m \in Nat, NEW r \in BOOLEAN
  PROVE  LET s == [j EXCEPT !.ino = i, !.stamp = n, !.already = b, !.minLinks = m,
                            !.raced = r] IN
         s.ino = i /\ s.raced = r /\ s.staged = j.staged /\ s.kind = j.kind
<1> DEFINE a == [j EXCEPT !.ino = i]
           c == [a EXCEPT !.stamp = n]
           e == [c EXCEPT !.already = b]
           f == [e EXCEPT !.minLinks = m]
           Same(t, t0) == t.staged = t0.staged /\ t.kind = t0.kind
<1>1. a \in Job /\ a.ino = i /\ Same(a, j)
  BY DEF Job
<1>2. c \in Job /\ c.ino = a.ino /\ Same(c, a)
  <2> HIDE DEF a
  <2> QED BY <1>1 DEF Job
<1>3. e \in Job /\ e.ino = c.ino /\ Same(e, c)
  <2> HIDE DEF c
  <2> QED BY <1>2 DEF Job
<1>4. f \in Job /\ f.ino = e.ino /\ Same(f, e)
  <2> HIDE DEF e
  <2> QED BY <1>3 DEF Job
<1>5. /\ [f EXCEPT !.raced = r].ino = f.ino
      /\ [f EXCEPT !.raced = r].raced = r
      /\ Same([f EXCEPT !.raced = r], f)
  <2> HIDE DEF f
  <2> QED BY <1>4 DEF Job
<1> QED
  BY <1>1, <1>2, <1>3, <1>4, <1>5

(* Recording the outcome of a call, or of one of its effects, leaves the   *)
(* rest of every call as it was (run_create, fail_create).                 *)
SameCalls == \A q \in Proc : /\ job'[q].staged = job[q].staged
                             /\ job'[q].kind = job[q].kind
                             /\ job'[q].ino = job[q].ino
                             /\ job'[q].raced = job[q].raced

(* The outcome of a call is recorded in a field of its own.                *)
LEMMA OutcomeEffect ==
  ASSUME NEW p \in Proc, TypeInv,
         \/ job' = job
         \/ \E b \in BOOLEAN : job' = [job EXCEPT ![p].ok = b]
         \/ job' = [job EXCEPT ![p].failed = TRUE]
  PROVE  SameCalls
<1>1. job \in [Proc -> Job]
  BY DEF TypeInv, TypeOK
<1>2. CASE job' = job
  BY <1>2 DEF SameCalls
<1>3. ASSUME NEW b \in BOOLEAN, job' = [job EXCEPT ![p].ok = b] PROVE SameCalls
  BY <1>1, <1>3 DEF SameCalls, Job
<1>4. CASE job' = [job EXCEPT ![p].failed = TRUE]
  BY <1>1, <1>4 DEF SameCalls, Job
<1> QED
  BY <1>2, <1>3, <1>4

(* A snapshot touches nothing but its own call (prepare_create).           *)
LEMMA SnapshotEffect ==
  ASSUME NEW p \in Proc, TypeInv, PrepareSnapshot(p)
  PROVE  /\ pc[p] = "snapshot"
         /\ UNCHANGED <<path, reg, dbVars, objVars, lockVars, key, fetch, kept>>
         /\ \A q \in Proc \ {p} : job'[q] = job[q]
         /\ job'[p].staged = job[p].staged /\ job'[p].kind = job[p].kind
         /\ \/ pc' = [pc EXCEPT ![p] = "finish"]
            \/ /\ pc' = [pc EXCEPT ![p] = "readPlan"]
               /\ job'[p].ino \in Ino
               /\ job'[p].raced = RemoveInFlight(job'[p].ino)
<1> DEFINE i == path[job[p].path]
           m == IF AlreadyRegistered(i) /\ Links(i) > 2 THEN Links(i) ELSE 2
           j == [job[p] EXCEPT !.ino = i, !.stamp = stamp[i],
                               !.already = AlreadyRegistered(i),
                               !.minLinks = m, !.raced = RemoveInFlight(i)]
<1>1. /\ pc[p] = "snapshot" /\ pc \in [Proc -> Step] /\ job \in [Proc -> Job]
      /\ UNCHANGED <<path, reg, dbVars, objVars, lockVars, key, fetch, kept>>
  BY DEF PrepareSnapshot, TypeInv, TypeOK, fsVars, histVars, promises
<1>2. job[p].path \in Path
  BY <1>1 DEF TypeInv, CallsFormed, OnPath, CreateSteps
<1>3. CASE /\ pc' = [pc EXCEPT ![p] = "finish"]
           /\ job' = [job EXCEPT ![p].ok = FALSE]
  BY <1>1, <1>3 DEF Job
<1>4. CASE /\ i # Nil
           /\ pc' = [pc EXCEPT ![p] = "readPlan"]
           /\ job' = [job EXCEPT ![p] = j]
  <2>1. i \in Ino /\ stamp[i] \in Nat
    BY <1>2, <1>4 DEF TypeInv, TypeOK
  <2>2. m \in Nat
    BY LinksNat
  <2>3. AlreadyRegistered(i) \in BOOLEAN /\ RemoveInFlight(i) \in BOOLEAN
    BY DEF AlreadyRegistered, RemoveInFlight
  <2>4. /\ j.ino = i /\ j.raced = RemoveInFlight(i)
        /\ j.staged = job[p].staged /\ j.kind = job[p].kind
    <3> HIDE DEF m
    <3> QED BY <1>1, <2>1, <2>2, <2>3, SnapshotRecord
  <2>5. job'[p] = j /\ \A q \in Proc \ {p} : job'[q] = job[q]
    BY <1>1, <1>4
  <2> HIDE DEF i, j
  <2> QED
    BY <1>1, <1>4, <2>1, <2>4, <2>5
<1> QED
  BY <1>1, <1>3, <1>4 DEF PrepareSnapshot, Goto, Fail

(* Publishing a request file touches its path, which then names an inode,  *)
(* its own call, and the promises to files no path names any more          *)
(* (persist_request).                                                      *)
LEMMA PublishRequestEffect ==
  ASSUME NEW p \in Proc, TypeInv, PersistRequest(p)
  PROVE  /\ pc[p] = "persist"
         /\ UNCHANGED <<reg, dbVars, objVars, lockVars, key, fetch>>
         /\ kept' = [i \in Ino |-> IF \E u \in Path : path'[u] = i THEN kept[i] ELSE Nil]
         /\ \E to \in {"snapshot", "finish"} : pc' = [pc EXCEPT ![p] = to]
         /\ \A q \in Proc \ {p} : job'[q] = job[q]
         /\ job'[p].staged = job[p].staged /\ job'[p].kind = job[p].kind
<1>1. /\ pc[p] = "persist" /\ UNCHANGED <<reg, dbVars, objVars, lockVars, key, fetch>>
      /\ kept' = [i \in Ino |-> IF \E u \in Path : path'[u] = i THEN kept[i] ELSE Nil]
      /\ \E to \in {"snapshot", "finish"} : pc' = [pc EXCEPT ![p] = to]
  BY DEF PersistRequest, Reconsider, Goto, Fail
<1>2. \/ job' = [job EXCEPT ![p].ok = FALSE]
      \/ \E i \in Ino : job' = [job EXCEPT ![p].ino = i]
  BY DEF PersistRequest, Fail, FreeIno
<1>3. job \in [Proc -> Job]
  BY DEF TypeInv, TypeOK
<1>4. CASE job' = [job EXCEPT ![p].ok = FALSE]
  BY <1>1, <1>3, <1>4 DEF Job
<1>5. ASSUME NEW i \in Ino, job' = [job EXCEPT ![p].ino = i]
      PROVE  /\ \A q \in Proc \ {p} : job'[q] = job[q]
             /\ job'[p].staged = job[p].staged /\ job'[p].kind = job[p].kind
  BY <1>3, <1>5 DEF Job
<1> QED
  BY <1>1, <1>2, <1>4, <1>5

(* A remove that reads an inode marks the calls at work on it as           *)
(* overlapped and ends the promise for it (Store::remove).                 *)
LEMMA RemoveSnapshotEffect ==
  ASSUME NEW p \in Proc, TypeInv, RemoveSnapshot(p)
  PROVE  /\ pc[p] = "rmSnapshot"
         /\ UNCHANGED <<path, reg, dbVars, objVars, lockVars, key, fetch>>
         /\ \A q \in Proc : /\ job'[q].staged = job[q].staged
                            /\ job'[q].kind = job[q].kind
                            /\ q # p => job'[q].ino = job[q].ino
                            /\ job[q].raced /\ q # p => job'[q].raced
         /\ \/ /\ pc' = [pc EXCEPT ![p] = "finish"]
               /\ UNCHANGED kept
            \/ /\ pc' = [pc EXCEPT ![p] = "rmRow"]
               /\ job'[p].ino \in Ino
               /\ kept' = [kept EXCEPT ![job'[p].ino] = Nil]
               /\ \A q \in Proc \ {p} : job[q].ino = job'[p].ino => job'[q].raced
<1> DEFINE i == path[job[p].path]
<1>1. /\ pc[p] = "rmSnapshot" /\ job \in [Proc -> Job] /\ pc \in [Proc -> Step]
      /\ UNCHANGED <<path, reg, dbVars, objVars, lockVars, key, fetch>>
  BY DEF RemoveSnapshot, TypeInv, TypeOK, fsVars
<1>2. i \in Ino \cup {Nil}
  BY <1>1 DEF TypeInv, TypeOK, CallsFormed, OnPath, RemoveSteps
<1>3. CASE i = Nil
  <2>1. /\ pc' = [pc EXCEPT ![p] = "finish"]
        /\ job' = [job EXCEPT ![p].ok = FALSE]
        /\ UNCHANGED kept
    BY <1>3 DEF RemoveSnapshot, Goto, Fail, promises
  <2> QED
    BY <1>1, <2>1 DEF Job
<1>4. CASE i # Nil
  <2>1. /\ pc' = [pc EXCEPT ![p] = "rmRow"]
        /\ kept' = [kept EXCEPT ![i] = Nil]
        /\ job' = [q \in Proc |->
                     IF q = p THEN [job[p] EXCEPT !.ino = i]
                     ELSE IF job[q].ino = i THEN [job[q] EXCEPT !.raced = TRUE]
                     ELSE job[q]]
    BY <1>4 DEF RemoveSnapshot, Goto
  <2>2. /\ [job[p] EXCEPT !.ino = i].ino = i
        /\ [job[p] EXCEPT !.ino = i].staged = job[p].staged
        /\ [job[p] EXCEPT !.ino = i].kind = job[p].kind
    <3> HIDE DEF i
    <3> QED BY <1>1, <1>2 DEF Job
  <2>3. \A q \in Proc : LET r == [job[q] EXCEPT !.raced = TRUE] IN
          /\ r.raced = TRUE /\ r.ino = job[q].ino
          /\ r.staged = job[q].staged /\ r.kind = job[q].kind
    BY <1>1 DEF Job
  <2> HIDE DEF i
  <2> QED
    BY <1>1, <1>2, <1>4, <2>1, <2>2, <2>3
<1> QED
  BY <1>3, <1>4

(* What a user does to files changes neither the store nor any call.       *)
LEMMA UserFrame ==
  ASSUME UserStep \/ UNCHANGED vars
  PROVE  UNCHANGED <<reg, dbVars, objVars, lockVars, procVars>>
  BY DEF UserStep, UserWrite, UserEdit, UserLink, UserUnlink, UserUnchanged, vars

(* A submitted call starts with nothing staged and no inode read.          *)
LEMMA SubmitFrame ==
  ASSUME NEW p \in Proc, TypeInv, SubmitAny(p)
  PROVE  /\ pc[p] = "idle"
         /\ UNCHANGED <<path, reg, dbVars, objVars, lockVars, fetch, kept>>
         /\ \A q \in Proc \ {p} : job'[q] = job[q] /\ key'[q] = key[q]
         /\ ~job'[p].staged
         /\ \/ pc' = [pc EXCEPT ![p] = "gcLock"]
            \/ /\ job'[p].kind # "gc"
               /\ \E first \in {"snapshot", "reqLock", "rmLock"} :
                    pc' = [pc EXCEPT ![p] = first]
<1>1. job \in [Proc -> Job] /\ pc \in [Proc -> Step]
  BY DEF TypeInv, TypeOK
<1>2. ASSUME NEW kind \in Kind, NEW u \in Path \cup {Nil}, NEW k \in Plan \cup {Nil},
             NEW first \in Step, Submit(p, kind, u, k, first)
      PROVE  /\ pc[p] = "idle" /\ pc' = [pc EXCEPT ![p] = first]
             /\ UNCHANGED <<path, reg, dbVars, objVars, lockVars, fetch, kept>>
             /\ \A q \in Proc \ {p} : job'[q] = job[q] /\ key'[q] = key[q]
             /\ job'[p].staged = FALSE /\ job'[p].kind = kind
  <2>1. job'[p] = [IdleJob EXCEPT !.kind = kind, !.path = u]
          /\ \A q \in Proc \ {p} : job'[q] = job[q]
    BY <1>1, <1>2 DEF Submit
  <2>2. job'[p].staged = FALSE /\ job'[p].kind = kind
    BY <2>1 DEF IdleJob
  <2> QED
    BY <1>2, <2>1, <2>2 DEF Submit, Goto, fsVars, promises
<1>3. PICK kind \in Kind, u \in Path \cup {Nil}, k \in Plan \cup {Nil}, first \in Step :
        /\ Submit(p, kind, u, k, first)
        /\ \/ first = "gcLock"
           \/ kind # "gc" /\ first \in {"snapshot", "reqLock", "rmLock"}
  BY DEF SubmitAny, SubmitCreate, SubmitRemove, SubmitInstall, SubmitGc, Kind, Step,
     CreateSteps, RemoveSteps, GcSteps
<1>4. /\ pc[p] = "idle" /\ pc' = [pc EXCEPT ![p] = first]
      /\ UNCHANGED <<path, reg, dbVars, objVars, lockVars, fetch, kept>>
      /\ \A q \in Proc \ {p} : job'[q] = job[q] /\ key'[q] = key[q]
      /\ job'[p].staged = FALSE /\ job'[p].kind = kind
  BY <1>2, <1>3
<1> QED
  BY <1>3, <1>4

(* A gc touches no other call, no file lock but its own and no user file   *)
(* (gc_locked).                                                            *)
LEMMA GcFrame ==
  ASSUME NEW p \in Proc, TypeInv, GcStep(p)
  PROVE  /\ UNCHANGED <<path, gcShared, installLock, dlLock, key, fetch, kept>>
         /\ \A q \in Proc \ {p} : pc'[q] = pc[q] /\ job'[q] = job[q]
         /\ pc[p] \in GcSteps /\ pc'[p] \in GcSteps \cup {"finish"}
         /\ pc[p] = "gcLock" => GcAcquire(p)
<1> pc \in [Proc -> Step] /\ job \in [Proc -> Job]
  BY DEF TypeInv, TypeOK
<1> USE DEF GcUnchanged, fsVars, histVars, promises, GcSteps, Goto
<1>1. CASE GcAcquire(p) \/ GcKnown(p) \/ GcListRequests(p) \/ GcUnlink(p)
  BY <1>1 DEF GcAcquire, GcKnown, GcListRequests, GcUnlink
<1>2. CASE GcRelations(p) \/ GcInstallsSwept(p) \/ GcDownloadsSwept(p) \/ GcSweepTmp(p)
  BY <1>2 DEF GcRelations, GcInstallsSwept, GcDownloadsSwept, GcSweepTmp
<1>3. ASSUME NEW i \in Ino, GcStaleRow(p, i) \/ GcEntry(p, i)
      PROVE  /\ UNCHANGED <<path, gcShared, installLock, dlLock, key, fetch, kept>>
             /\ \A q \in Proc \ {p} : pc'[q] = pc[q] /\ job'[q] = job[q]
             /\ pc[p] \in {"gcRows", "gcScan"} /\ pc'[p] \in GcSteps
  BY <1>3 DEF GcStaleRow, GcEntry
<1>4. ASSUME NEW k \in Plan, GcSweepInstall(p, k)
      PROVE  /\ UNCHANGED <<path, gcShared, installLock, dlLock, key, fetch, kept, pc, job>>
             /\ pc[p] = "gcInstalls"
  BY <1>4 DEF GcSweepInstall
<1>5. ASSUME NEW d \in Dl, GcSweepDownload(p, d)
      PROVE  /\ UNCHANGED <<path, gcShared, installLock, dlLock, key, fetch, kept, pc, job>>
             /\ pc[p] = "gcDownloads"
  BY <1>5 DEF GcSweepDownload
<1> QED
  BY <1>1, <1>2, <1>3, <1>4, <1>5 DEF GcStep

(* While a gc works or its result is on the way, no call is under the      *)
(* shared gc lock and no other gc is at work.                              *)
LEMMA GcAlone ==
  ASSUME NEW p \in Proc, TypeInv, GcLockInv, gcExcl = p
  PROVE  /\ gcShared = {}
         /\ \A q \in Proc : pc[q] \notin SharedSteps
         /\ \A q \in Proc, d \in Dl : fetch[q][d] = "none"
         /\ \A q \in Proc \ {p} : pc[q] \notin Sweeping
  BY NilAssumption DEF GcLockInv

(* A call that ends takes its own locks and records with it.               *)
LEMMA EndFrame ==
  ASSUME NEW p \in Proc, TypeInv, GcLockInv, Return(p) \/ CrashAny(p)
  PROVE  /\ UNCHANGED <<path, reg, row, rel, kept>>
         /\ pc' = [pc EXCEPT ![p] = "idle"]
         /\ job' = [job EXCEPT ![p] = IdleJob]
         /\ \A q \in Proc \ {p} : key'[q] = key[q] /\ fetch'[q] = fetch[q]
         /\ \A d \in Dl : fetch'[p][d] = "none"
         /\ \A q \in Proc \ {p} : /\ \A k \in Plan : installLock[k] = q => installLock'[k] = q
                                  /\ \A d \in Dl : dlLock[d] = q => dlLock'[d] = q
                                  /\ \A t \in Plan \cup Dl : <<q, t>> \in tmp => <<q, t>> \in tmp'
                                  /\ gcExcl = q => gcExcl' = q
         /\ tmp = {} => tmp' = {}
         /\ gcExcl = p \/ UNCHANGED <<install, dl>>
<1>1. Retire(p)
  BY DEF Return, CrashAny, Crash, CrashSweepingInstall, CrashSweepingDownload, Killed
<1>2. /\ UNCHANGED <<path, reg, row, rel, kept>>
      /\ gcExcl = p \/ UNCHANGED <<install, dl>>
  BY DEF Return, CrashAny, Crash, CrashSweepingInstall, CrashSweepingDownload,
     CrashUnchanged, fsVars, dbVars, histVars, promises, GcLockInv, Sweeping, GcSteps
<1>3. pc \in [Proc -> Step] /\ fetch \in [Proc -> [Dl -> Fetch]]
      /\ key \in [Proc -> Plan \cup {Nil}]
  BY DEF TypeInv, TypeOK
<1>4. /\ pc' = [pc EXCEPT ![p] = "idle"]
      /\ job' = [job EXCEPT ![p] = IdleJob]
      /\ \A q \in Proc \ {p} : key'[q] = key[q] /\ fetch'[q] = fetch[q]
      /\ \A d \in Dl : fetch'[p][d] = "none"
  BY <1>1, <1>3 DEF Retire, Goto, NoFetch
<1>5. \A q \in Proc \ {p} : /\ \A k \in Plan : installLock[k] = q => installLock'[k] = q
                            /\ \A d \in Dl : dlLock[d] = q => dlLock'[d] = q
                            /\ gcExcl = q => gcExcl' = q
  BY <1>1 DEF Retire, Release, InstallLocksWithout
<1>6. tmp = {} => tmp' = {}
  BY <1>1 DEF Retire, Orphan
<1>7. ASSUME NEW q \in Proc \ {p}, NEW t \in Plan \cup Dl, <<q, t>> \in tmp
      PROVE  <<q, t>> \in tmp'
  <2>1. <<q, t>>[1] # p
    OBVIOUS
  <2> QED
    BY <1>1, <1>7, <2>1 DEF Retire, Orphan
<1> QED
  BY <1>2, <1>4, <1>5, <1>6, <1>7

-----------------------------------------------------------------------------
(* Staging.                                                                *)

(* A step that leaves objects, staged directories and their locks alone    *)
(* and brings its call nowhere near the build keeps what is staged.        *)
Unstaging(p) ==
  /\ UNCHANGED <<install, dl, tmp, installLock, dlLock, fetch>>
  /\ \A q \in Proc \ {p} : pc'[q] = pc[q] /\ key'[q] = key[q]
  /\ \A q \in Proc : job'[q].staged = job[q].staged
  /\ pc'[p] \in Unbuilt => pc[p] \in Unbuilt
  /\ pc'[p] \notin {"check", "build"} \cup Registering

(* Such a step keeps the staging invariant.                                *)
LEMMA StagingStill == \A p \in Proc : StagingInv /\ Unstaging(p) => StagingInv'
  BY DEF Unstaging, StagingInv, InstallHeld, DownloadHeld, StagedLate, BuildStaged,
     DownloadStaged, Unbuilt, Registering

(* Every step of create keeps what builds stage: an installation is        *)
(* published by the holder of its lock, a download by the holder of its    *)
(* own, and each only moves its own temporary directory.                   *)
LEMMA StagingCreate ==
  \A p \in Proc :
    TypeInv /\ GcLockInv /\ StagingInv /\ (CreateStep(p) \/ EffectFailure(p)) => StagingInv'
<1> SUFFICES ASSUME NEW p \in Proc, TypeInv, GcLockInv, StagingInv,
                    CreateStep(p) \/ EffectFailure(p)
             PROVE  StagingInv'
  OBVIOUS
<1> /\ install \in [Plan -> Object] /\ dl \in [Dl -> {"none", "whole", "torn"}]
    /\ pc \in [Proc -> Step] /\ key \in [Proc -> Plan \cup {Nil}]
    /\ job \in [Proc -> Job] /\ fetch \in [Proc -> [Dl -> Fetch]]
    /\ installLock \in [Plan -> Proc \cup {Nil}] /\ dlLock \in [Dl -> Proc \cup {Nil}]
    /\ \A q \in Proc : pc[q] \in Registering \cup {"installLock", "check", "build"}
                         => key[q] \in Plan
    /\ Nil \notin Proc /\ Nil \notin Plan
    /\ Plan \cap Dl = {}
  BY NilAssumption, KeysAssumption DEF TypeInv, TypeOK, CallsFormed, Keyed, Registering
<1> USE DEF objVars, lockVars, StagingInv, InstallHeld, DownloadHeld, StagedLate,
        BuildStaged, DownloadStaged, Unbuilt, Registering, Goto, Fail
<1>1. ASSUME AcquireRequestLock(p) PROVE StagingInv'
  BY <1>1 DEF AcquireRequestLock
<1>2. ASSUME PersistRequest(p) PROVE StagingInv'
  <2>1. Unstaging(p)
    BY <1>2, PublishRequestEffect DEF Unstaging
  <2> QED
    BY <2>1, StagingStill
<1>3. ASSUME PrepareSnapshot(p) PROVE StagingInv'
  <2>1. Unstaging(p)
    BY <1>3, SnapshotEffect DEF Unstaging
  <2> QED
    BY <2>1, StagingStill
<1>4. ASSUME ReadPlan(p) PROVE StagingInv'
  <2>1. /\ UNCHANGED <<install, dl, tmp, installLock, dlLock, fetch>>
        /\ \E to \in {"gcShared", "finish"} : pc' = [pc EXCEPT ![p] = to]
        /\ \A q \in Proc \ {p} : key'[q] = key[q]
        /\ pc[p] = "readPlan"
    BY <1>4 DEF ReadPlan
  <2>2. SameCalls
    BY <1>4, OutcomeEffect DEF ReadPlan
  <2>3. Unstaging(p)
    BY <2>1, <2>2 DEF SameCalls, Unstaging
  <2> QED
    BY <2>3, StagingStill
<1>5. ASSUME CreateAcquireGc(p) PROVE StagingInv'
  BY <1>5 DEF CreateAcquireGc, AcquireGcShared, SharedFree
<1>6. ASSUME AcquireInstallLock(p) PROVE StagingInv'
  BY <1>6 DEF AcquireInstallLock, InstallFree
<1>7. ASSUME CheckCached(p) PROVE StagingInv'
  <2>1. SameCalls
    BY <1>7, OutcomeEffect DEF CheckCached
  <2>2. /\ UNCHANGED <<install, dl, tmp, installLock, dlLock, key>>
        /\ pc[p] = "check"
        /\ \E to \in {"link", "finish", "build"} : pc' = [pc EXCEPT ![p] = to]
        /\ pc'[p] = "build" => install[key[p]] = "none"
    BY <1>7 DEF CheckCached
  <2>3. \A q \in Proc, d \in Dl :
          fetch'[q][d] \in {"locked", "fetching"} => fetch[q][d] = fetch'[q][d]
    <3>1. CASE fetch' = fetch
      BY <3>1
    <3>2. CASE fetch' = [fetch EXCEPT ![p] =
                 [d \in Dl |-> IF d \in Items[key[p]] THEN "want" ELSE "none"]]
      BY <3>2
    <3> QED
      BY <1>7, <3>1, <3>2 DEF CheckCached
  <2>4. InstallHeld' /\ DownloadHeld'
    BY <2>2, <2>3
  <2>5. StagedLate' /\ BuildStaged'
    BY <2>1, <2>2 DEF SameCalls
  <2>6. DownloadStaged'
    BY <2>2, <2>3
  <2> QED
    BY <2>4, <2>5, <2>6
<1>8. ASSUME PrepareInstall(p) PROVE StagingInv'
  BY <1>8 DEF PrepareInstall, BuildUnchanged
<1>9. ASSUME AbandonBuild(p) PROVE StagingInv'
  BY <1>9 DEF AbandonBuild, BuildUnchanged
<1>10. ASSUME PublishInstall(p) PROVE StagingInv'
  BY <1>10 DEF PublishInstall, BuildUnchanged
<1>11. ASSUME NEW d \in Dl, AcquireDlLock(p, d) PROVE StagingInv'
  BY <1>11 DEF AcquireDlLock, BuildUnchanged
<1>12. ASSUME NEW d \in Dl, ReuseDownload(p, d) PROVE StagingInv'
  BY <1>12 DEF ReuseDownload, EndDownload, BuildUnchanged
<1>13. ASSUME NEW d \in Dl, StartDownload(p, d) PROVE StagingInv'
  BY <1>13 DEF StartDownload, BuildUnchanged
<1>14. ASSUME NEW d \in Dl, PublishDownload(p, d) PROVE StagingInv'
  BY <1>14 DEF PublishDownload, EndDownload, BuildUnchanged
<1>15. ASSUME NEW d \in Dl, FailDownload(p, d) PROVE StagingInv'
  BY <1>15 DEF FailDownload, EndDownload, BuildUnchanged
<1>16. ASSUME FailItem(p) PROVE StagingInv'
  BY <1>16 DEF FailItem, BuildUnchanged
<1>17. ASSUME HardLink(p) PROVE StagingInv'
  BY <1>17 DEF HardLink
<1>18. ASSUME VerifyRegistration(p) PROVE StagingInv'
  BY <1>18, SMTT(30) DEF VerifyRegistration
<1>19. ASSUME CheckRow(p) PROVE StagingInv'
  BY <1>19 DEF CheckRow
<1>20. ASSUME AddRequest(p) PROVE StagingInv'
  BY <1>20 DEF AddRequest
<1> QED
  BY <1>1, <1>2, <1>3, <1>4, <1>5, <1>6, <1>7, <1>8, <1>9, <1>10, <1>11,
     <1>12, <1>13, <1>14, <1>15, <1>16, <1>17, <1>18, <1>19, <1>20 DEF
     CreateStep, EffectFailure

(* Nothing is staged at the start.                                         *)
LEMMA StagingInit == Init => StagingInv
  BY DEF Init, StagingInv, InstallHeld, DownloadHeld, StagedLate, BuildStaged,
     DownloadStaged, Unbuilt, Registering, NoFetch

(* Users stage nothing and a submitted call has staged nothing.            *)
LEMMA StagingSubmit ==
  \A p \in Proc : TypeInv /\ StagingInv /\ SubmitAny(p) => StagingInv'
<1> SUFFICES ASSUME NEW p \in Proc, TypeInv, StagingInv, SubmitAny(p) PROVE StagingInv'
  OBVIOUS
<1>1. /\ UNCHANGED <<install, dl, tmp, installLock, dlLock, fetch>>
      /\ \A q \in Proc \ {p} : job'[q] = job[q] /\ key'[q] = key[q]
      /\ ~job'[p].staged
      /\ \E first \in {"gcLock", "snapshot", "reqLock", "rmLock"} :
           pc' = [pc EXCEPT ![p] = first]
  BY SubmitFrame DEF objVars, lockVars
<1> QED
  BY <1>1 DEF TypeInv, TypeOK, StagingInv, InstallHeld, DownloadHeld, StagedLate,
     BuildStaged, DownloadStaged, Unbuilt, Registering

(* A remove stages nothing.                                                *)
LEMMA StagingRemove ==
  \A p \in Proc : TypeInv /\ StagingInv /\ RemoveStep(p) => StagingInv'
<1> SUFFICES ASSUME NEW p \in Proc, TypeInv, StagingInv, RemoveStep(p) PROVE StagingInv'
  OBVIOUS
<1>1. CASE RemoveSnapshot(p)
  <2>1. /\ UNCHANGED <<install, dl, tmp, installLock, dlLock, key, fetch>>
        /\ \A q \in Proc : job'[q].staged = job[q].staged
        /\ \E to \in {"rmRow", "finish"} : pc' = [pc EXCEPT ![p] = to]
    BY <1>1, RemoveSnapshotEffect DEF objVars, lockVars
  <2>2. Unstaging(p)
    <3>1. pc \in [Proc -> Step]
      BY DEF TypeInv, TypeOK
    <3> QED
      BY <2>1, <3>1 DEF Unstaging, Unbuilt, Registering
  <2> QED
    BY <2>2, StagingStill
<1>2. CASE RemoveAcquireGc(p) \/ RemoveRow(p) \/ RemoveLink(p)
  <2>1. SameCalls
    BY <1>2, OutcomeEffect DEF RemoveAcquireGc, AcquireGcShared, RemoveRow, RemoveLink
  <2>2. /\ UNCHANGED <<install, dl, tmp, installLock, dlLock, key, fetch>>
        /\ \E to \in {"rmSnapshot", "rmLink", "finish"} : pc' = [pc EXCEPT ![p] = to]
    BY <1>2 DEF RemoveAcquireGc, AcquireGcShared, RemoveRow, RemoveLink, Goto, objVars,
       lockVars
  <2>3. Unstaging(p)
    BY <2>1, <2>2 DEF Unstaging, SameCalls, Unbuilt, Registering, TypeInv, TypeOK
  <2> QED
    BY <2>3, StagingStill
<1> QED
  BY <1>1, <1>2 DEF RemoveStep

(* A gc sweeps when nothing is staged by a live call: whoever builds holds *)
(* the shared gc lock (gc_locked).                                         *)
LEMMA StagingGc ==
  \A p \in Proc : TypeInv /\ GcLockInv /\ StagingInv /\ GcStep(p) => StagingInv'
<1> SUFFICES ASSUME NEW p \in Proc, TypeInv, GcLockInv, StagingInv, GcStep(p)
             PROVE  StagingInv'
  OBVIOUS
<1>1. /\ UNCHANGED <<installLock, dlLock, key, fetch>>
      /\ \A q \in Proc \ {p} : pc'[q] = pc[q] /\ job'[q] = job[q]
      /\ pc'[p] \notin Unbuilt \cup {"build"} \cup Registering
  BY GcFrame DEF GcSteps, Unbuilt, Registering
<1>2. CASE pc[p] = "gcLock"
  <2>1. UNCHANGED objVars
    BY <1>2, GcFrame DEF GcAcquire
  <2> QED
    BY <1>1, <2>1 DEF objVars, StagingInv, InstallHeld, DownloadHeld, StagedLate,
       BuildStaged, DownloadStaged, Unbuilt, Registering
<1>3. CASE pc[p] # "gcLock"
  <2>1. gcExcl = p
    BY <1>3, GcFrame DEF GcLockInv, Sweeping
  <2>2. /\ \A q \in Proc : pc'[q] \notin {"check", "build"} \cup Registering
        /\ \A q \in Proc, d \in Dl : fetch'[q][d] = "none"
    BY <1>1, <2>1, GcAlone DEF SharedSteps, Registering, Unbuilt
  <2> QED
    BY <1>1, <2>2 DEF StagingInv, InstallHeld, DownloadHeld, StagedLate,
       BuildStaged, DownloadStaged, Unbuilt, Registering
<1> QED
  BY <1>2, <1>3

(* A call that ends takes away only what it staged itself.                 *)
LEMMA StagingEnd ==
  \A p \in Proc :
    TypeInv /\ GcLockInv /\ StagingInv /\ (Return(p) \/ CrashAny(p)) => StagingInv'
<1> SUFFICES ASSUME NEW p \in Proc, TypeInv, GcLockInv, StagingInv,
                    Return(p) \/ CrashAny(p)
             PROVE  StagingInv'
  OBVIOUS
<1>1. /\ \A q \in Proc \ {p} :
           /\ pc'[q] = pc[q] /\ key'[q] = key[q] /\ job'[q] = job[q]
           /\ fetch'[q] = fetch[q]
           /\ \A k \in Plan : installLock[k] = q => installLock'[k] = q
           /\ \A d \in Dl : dlLock[d] = q => dlLock'[d] = q
           /\ \A t \in Plan \cup Dl : <<q, t>> \in tmp => <<q, t>> \in tmp'
      /\ pc'[p] = "idle" /\ \A d \in Dl : fetch'[p][d] = "none"
      /\ gcExcl = p \/ UNCHANGED <<install, dl>>
  <2>1. pc \in [Proc -> Step] /\ job \in [Proc -> Job]
    BY DEF TypeInv, TypeOK
  <2> QED
    BY <2>1, EndFrame
<1>2. \A q \in Proc : pc[q] \in {"check", "build"} \cup Registering => key[q] \in Plan
  BY DEF TypeInv, CallsFormed, Keyed, Registering
<1>3. InstallHeld' /\ DownloadHeld' /\ StagedLate'
  BY <1>1, <1>2 DEF StagingInv, InstallHeld, DownloadHeld, StagedLate, Unbuilt, Registering
<1>4. CASE gcExcl = p
  <2>1. /\ \A q \in Proc : pc'[q] # "build"
        /\ \A q \in Proc, d \in Dl : fetch'[q][d] = "none"
    BY <1>1, <1>4, GcAlone DEF SharedSteps
  <2> QED
    BY <1>3, <2>1 DEF StagingInv, BuildStaged, DownloadStaged
<1>5. CASE UNCHANGED <<install, dl>>
  BY <1>1, <1>2, <1>3, <1>5 DEF StagingInv, BuildStaged, DownloadStaged
<1> QED
  BY <1>1, <1>4, <1>5

(* Every step keeps what is staged.                                        *)
LEMMA StagingStep == TypeInv /\ GcLockInv /\ StagingInv /\ [Next]_vars => StagingInv'
<1>1. StagingInv /\ (UserStep \/ UNCHANGED vars) => StagingInv'
  BY UserFrame DEF objVars, lockVars, procVars, StagingInv, InstallHeld, DownloadHeld,
     StagedLate, BuildStaged, DownloadStaged
<1> QED
  BY <1>1, StagingSubmit, StagingCreate, StagingRemove, StagingGc, StagingEnd
  DEF Next, ProcStep, Quiet

(* What a build stages and uses stays under it until it is renamed into    *)
(* place, for any number of processes: no gc sweeps it, no other call      *)
(* publishes the same object first (PublishInstall, apply_download).       *)
THEOREM StagingAlwaysSafe == Spec => []StagingSafe
<1>1. IInv /\ StagingInv => StagingSafe
  BY DEF IInv, BackInv, CreatesBacked, StagingInv, BuildStaged, DownloadStaged,
     StagingSafe
<1>2. IInv /\ StagingInv /\ [Next]_vars => StagingInv'
  BY StagingStep DEF IInv
<1> QED
  BY <1>1, <1>2, StagingInit, Invariant, PTL DEF Spec

-----------------------------------------------------------------------------
(* Exactness of gc.                                                        *)

(* A step of create moves its own call along the create path, or is one of *)
(* its downloads and leaves it where it is (run_create).                   *)
LEMMA CreateFrame ==
  ASSUME NEW q \in Proc, TypeInv, GcLockInv, CreateStep(q) \/ EffectFailure(q)
  PROVE  /\ \A p \in Proc \ {q} : pc'[p] = pc[p] /\ job'[p] = job[p]
         /\ job'[q].kind = job[q].kind
         /\ gcExcl' = gcExcl
         /\ \/ q \in gcShared /\ pc' = pc
            \/ pc[q] \in CreateSteps /\ pc'[q] \in CreateSteps \cup {"finish"}
<1> /\ pc \in [Proc -> Step] /\ job \in [Proc -> Job] /\ fetch \in [Proc -> [Dl -> Fetch]]
    /\ \A d \in Dl : fetch[q][d] # "none" => q \in gcShared
  BY DEF TypeInv, TypeOK, GcLockInv
<1> DEFINE Framed == /\ \A p \in Proc \ {q} : pc'[p] = pc[p] /\ job'[p] = job[p]
                     /\ job'[q].kind = job[q].kind
                     /\ gcExcl' = gcExcl
                     /\ \/ q \in gcShared /\ pc' = pc
                        \/ pc[q] \in CreateSteps /\ pc'[q] \in CreateSteps \cup {"finish"}
<1> USE DEF CreateSteps, Goto, Fail, lockVars
<1>1. ASSUME /\ AcquireRequestLock(q) \/ ReadPlan(q) \/ CreateAcquireGc(q)
                \/ AcquireInstallLock(q) \/ CheckCached(q)
      PROVE  Framed
  <2>1. SameCalls
    BY <1>1, OutcomeEffect DEF AcquireRequestLock, ReadPlan, CreateAcquireGc,
       AcquireGcShared, AcquireInstallLock, CheckCached
  <2>2. /\ \A p \in Proc \ {q} : pc'[p] = pc[p] /\ job'[p] = job[p]
        /\ pc[q] \in CreateSteps /\ pc'[q] \in CreateSteps \cup {"finish"}
        /\ gcExcl' = gcExcl
    BY <1>1 DEF AcquireRequestLock, ReadPlan, CreateAcquireGc, AcquireGcShared,
       AcquireInstallLock, CheckCached
  <2> QED
    BY <2>1, <2>2 DEF SameCalls
<1>2. CASE PersistRequest(q)
  BY <1>2, PublishRequestEffect
<1>3. CASE PrepareSnapshot(q)
  BY <1>3, SnapshotEffect
<1>4. CASE PrepareInstall(q)
  BY <1>4 DEF PrepareInstall, BuildUnchanged, Job
<1>5. ASSUME AbandonBuild(q) \/ PublishInstall(q) \/ HardLink(q)
             \/ VerifyRegistration(q) \/ CheckRow(q) \/ AddRequest(q) \/ FailItem(q)
      PROVE  Framed
  <2>1. SameCalls
    BY <1>5, OutcomeEffect DEF AbandonBuild, PublishInstall, HardLink,
       VerifyRegistration, CheckRow, AddRequest, FailItem
  <2>2. /\ \A p \in Proc \ {q} : pc'[p] = pc[p] /\ job'[p] = job[p]
        /\ pc[q] \in CreateSteps /\ pc'[q] \in CreateSteps \cup {"finish"}
        /\ gcExcl' = gcExcl
    BY <1>5 DEF AbandonBuild, PublishInstall, HardLink, VerifyRegistration, CheckRow,
       AddRequest, FailItem, BuildUnchanged
  <2> QED
    BY <2>1, <2>2 DEF SameCalls
<1>6. ASSUME NEW d \in Dl, AcquireDlLock(q, d) \/ ReuseDownload(q, d)
                           \/ StartDownload(q, d) \/ PublishDownload(q, d)
                           \/ FailDownload(q, d)
      PROVE  Framed
  <2>1. SameCalls
    BY <1>6, OutcomeEffect DEF AcquireDlLock, ReuseDownload, StartDownload,
       PublishDownload, FailDownload, EndDownload
  <2>2. /\ \A p \in Proc \ {q} : job'[p] = job[p]
        /\ pc' = pc /\ fetch[q][d] # "none" /\ gcExcl' = gcExcl
    BY <1>6 DEF AcquireDlLock, ReuseDownload, StartDownload, PublishDownload,
       FailDownload, EndDownload, BuildUnchanged
  <2> QED
    BY <2>1, <2>2 DEF SameCalls
<1> QED
  BY <1>1, <1>2, <1>3, <1>4, <1>5, <1>6 DEF CreateStep, EffectFailure

(* A step of remove moves its own call along the remove path.              *)
LEMMA RemoveFrame ==
  ASSUME NEW q \in Proc, TypeInv, RemoveStep(q)
  PROVE  /\ \A p \in Proc \ {q} : pc'[p] = pc[p]
         /\ \A p \in Proc : job'[p].kind = job[p].kind
         /\ gcExcl' = gcExcl
         /\ pc[q] \in RemoveSteps /\ pc'[q] \in RemoveSteps \cup {"finish"}
<1> pc \in [Proc -> Step] /\ job \in [Proc -> Job]
  BY DEF TypeInv, TypeOK
<1>1. CASE RemoveSnapshot(q)
  BY <1>1, RemoveSnapshotEffect DEF RemoveSteps, lockVars
<1>2. CASE RemoveAcquireGc(q) \/ RemoveRow(q) \/ RemoveLink(q)
  <2>1. SameCalls
    BY <1>2, OutcomeEffect DEF RemoveAcquireGc, AcquireGcShared, RemoveRow, RemoveLink
  <2>2. /\ gcExcl' = gcExcl /\ pc[q] \in RemoveSteps
        /\ \E to \in {"rmSnapshot", "rmLink", "finish"} : pc' = [pc EXCEPT ![q] = to]
    BY <1>2 DEF RemoveAcquireGc, AcquireGcShared, RemoveRow, RemoveLink, Goto,
       lockVars, RemoveSteps
  <2> QED
    BY <2>1, <2>2 DEF SameCalls, RemoveSteps
<1> QED
  BY <1>1, <1>2 DEF RemoveStep

(* While one process holds the gc lock exclusively, the others only get    *)
(* as far as the gc lock: the store it sweeps is its own (Store::gc).      *)
Untouched(p) ==
  /\ UNCHANGED <<reg, row, rel, install, dl>>
  /\ pc'[p] = pc[p] /\ job'[p] = job[p] /\ gcExcl' = p
  /\ tmp = {} => tmp' = {}
Active(q) == SubmitAny(q) \/ ProcStep(q) \/ EffectFailure(q) \/ CrashAny(q)

(* No other call touches the store under a gc.                             *)
LEMMA OthersWait ==
  ASSUME NEW p \in Proc, NEW q \in Proc \ {p}, TypeInv, GcLockInv, gcExcl = p, Active(q)
  PROVE  Untouched(p)
<1> /\ pc \in [Proc -> Step] /\ job \in [Proc -> Job] /\ Nil \notin Proc
    /\ \A d \in Dl : fetch[q][d] = "none"
    /\ pc[q] \notin SharedSteps /\ pc[q] \notin Sweeping
  BY NilAssumption, GcAlone DEF TypeInv, TypeOK
<1> USE DEF Untouched, lockVars, dbVars, objVars
<1>1. CASE SubmitAny(q)
  BY <1>1, SubmitFrame
<1>2. CASE CreateStep(q) \/ EffectFailure(q)
  <2>1. \/ AcquireRequestLock(q) \/ PersistRequest(q) \/ PrepareSnapshot(q)
        \/ ReadPlan(q) \/ CreateAcquireGc(q)
    <3> USE DEF SharedSteps, Registering
    <3>1. ~( \/ AcquireInstallLock(q) \/ CheckCached(q) \/ PrepareInstall(q)
             \/ AbandonBuild(q) \/ PublishInstall(q) \/ FailItem(q) )
      BY DEF AcquireInstallLock, CheckCached, PrepareInstall, AbandonBuild,
         PublishInstall, FailItem
    <3>2. ~(HardLink(q) \/ VerifyRegistration(q) \/ CheckRow(q) \/ AddRequest(q))
      BY DEF HardLink, VerifyRegistration, CheckRow, AddRequest
    <3>3. \A d \in Dl : ~( \/ AcquireDlLock(q, d) \/ ReuseDownload(q, d)
                           \/ StartDownload(q, d) \/ PublishDownload(q, d)
                           \/ FailDownload(q, d) )
      BY DEF AcquireDlLock, ReuseDownload, StartDownload, PublishDownload, FailDownload
    <3> QED
      BY <1>2, <3>1, <3>2, <3>3 DEF CreateStep, EffectFailure
  <2>2. ~CreateAcquireGc(q)
    BY DEF CreateAcquireGc, AcquireGcShared, SharedFree
  <2>3. CASE AcquireRequestLock(q) \/ ReadPlan(q)
    BY <2>3 DEF AcquireRequestLock, ReadPlan, Goto, Fail
  <2>4. CASE PersistRequest(q)
    BY <2>4, PublishRequestEffect
  <2>5. CASE PrepareSnapshot(q)
    BY <2>5, SnapshotEffect
  <2> QED
    BY <2>1, <2>2, <2>3, <2>4, <2>5
<1>3. ~RemoveStep(q)
  BY DEF RemoveStep, RemoveAcquireGc, AcquireGcShared, SharedFree, RemoveSnapshot,
     RemoveRow, RemoveLink, SharedSteps
<1>4. ~GcStep(q)
  <2>1. ~GcAcquire(q)
    BY DEF GcAcquire, ExclusiveFree
  <2> QED
    BY <2>1, GcFrame DEF Sweeping
<1>5. CASE Return(q) \/ CrashAny(q)
  BY <1>5, EndFrame
<1> QED
  BY <1>1, <1>2, <1>3, <1>4, <1>5 DEF Active, ProcStep

(* Each step of gc brings rows and links a step closer: it reads what is   *)
(* bound, drops the rows without links, then unlinks what nobody keeps, and*)
(* sweeps what is not live (gc_locked).                                    *)
LEMMA GcStageOwn ==
  ASSUME NEW p \in Proc, TypeInv, SweepsSpare, GcStage(p), GcStep(p)
  PROVE  GcStage(p)'
<1> /\ pc \in [Proc -> Step] /\ job \in [Proc -> Job]
    /\ row \in [Ino -> Plan \cup {Nil}] /\ reg \in [Ino -> Ino \cup {Nil}]
    /\ job[p] \in Job /\ job[p].known \subseteq Ino
  BY DEF TypeInv, TypeOK, Job
<1> USE DEF GcStage, GcFinished, Goto, dbVars, objVars
<1>1. CASE GcAcquire(p)
  BY <1>1 DEF GcAcquire
<1>2. CASE GcKnown(p)
  <2> DEFINE known == {i \in Ino : row[i] # Nil}
  <2>1. /\ UNCHANGED <<reg, row>> /\ pc'[p] = "gcRows"
        /\ job'[p].known = known /\ job'[p].todo = known
    BY <1>2 DEF GcKnown, Job
  <2>2. RowsKnown(p)' /\ KnownLinked(p, job[p].known \ job[p].todo)' /\ LinkedKnown(p, {})'
    BY <2>1 DEF RowsKnown, KnownLinked, LinkedKnown
  <2> QED
    BY <2>1, <2>2
<1>3. ASSUME NEW i \in Ino, GcStaleRow(p, i) PROVE GcStage(p)'
  <2>1. /\ pc[p] = "gcRows" /\ pc'[p] = "gcRows" /\ reg' = reg
        /\ row' = IF reg[i] = Nil THEN [row EXCEPT ![i] = Nil] ELSE row
        /\ job'[p].known = job[p].known /\ job'[p].todo = job[p].todo \ {i}
    BY <1>3 DEF GcStaleRow, StaleRow, Job
  <2>2. RowsKnown(p)' /\ LinkedKnown(p, {})'
    BY <2>1 DEF RowsKnown, LinkedKnown
  <2>3. KnownLinked(p, job[p].known \ job[p].todo)'
    BY <2>1 DEF KnownLinked
  <2> QED
    BY <2>1, <2>2, <2>3
<1>4. CASE GcListRequests(p)
  <2>1. /\ pc[p] = "gcRows" /\ pc'[p] = "gcScan" /\ UNCHANGED <<reg, row>>
        /\ job[p].todo = {} /\ job'[p].known = job[p].known
        /\ job'[p].todo = {n \in Ino : reg[n] # Nil}
    BY <1>4 DEF GcListRequests, Job
  <2>2. RowsKnown(p)' /\ LinkedKnown(p, {})'
    BY <2>1 DEF RowsKnown, LinkedKnown
  <2>3. KnownLinked(p, Ino)' /\ LinksMatched(job[p].todo)'
    BY <2>1 DEF RowsKnown, KnownLinked, LinksMatched
  <2> QED
    BY <2>1, <2>2, <2>3
<1>5. ASSUME NEW n \in Ino, GcEntry(p, n) PROVE GcStage(p)'
  <2>0. pc[p] = "gcScan" /\ reg' = reg
    BY <1>5 DEF GcEntry
  <2>1. CASE Abandoned(p, n)
    <3>1. /\ row' = IF n \in job[p].known THEN [row EXCEPT ![n] = Nil] ELSE row
          /\ pc'[p] = "gcUnlink"
          /\ job'[p].ino = n /\ job'[p].known = job[p].known /\ job'[p].todo = job[p].todo
      BY <1>5, <2>1 DEF GcEntry, Job
    <3>2. \A i \in Ino : /\ i # n => row'[i] = row[i]
                         /\ row'[n] = Nil
      BY <2>0, <3>1 DEF RowsKnown
    <3>3. RowsKnown(p)' /\ KnownLinked(p, Ino)'
      BY <2>0, <3>1, <3>2 DEF RowsKnown, KnownLinked
    <3>4. LinkedKnown(p, {job[p].ino})' /\ LinksMatched(job[p].todo \cup {job[p].ino})'
      BY <2>0, <3>1, <3>2 DEF LinkedKnown, LinksMatched
    <3> QED
      BY <3>1, <3>2, <3>3, <3>4
  <2>2. CASE ~Abandoned(p, n)
    <3>1. /\ UNCHANGED row /\ pc'[p] = "gcScan"
          /\ job'[p].known = job[p].known /\ job'[p].todo = job[p].todo \ {n}
      BY <1>5, <2>0, <2>2 DEF GcEntry, Job
    <3>2. n \in job[p].known
      BY <2>2 DEF Abandoned
    <3>3. RowsKnown(p)' /\ KnownLinked(p, Ino)' /\ LinkedKnown(p, {})'
      BY <2>0, <3>1 DEF RowsKnown, KnownLinked, LinkedKnown
    <3>4. LinksMatched(job[p].todo)'
      BY <2>0, <3>1, <3>2 DEF LinkedKnown, LinksMatched
    <3> QED
      BY <3>1, <3>3, <3>4
  <2> QED
    BY <2>1, <2>2
<1>6. CASE GcUnlink(p)
  <2> DEFINE n == job[p].ino
  <2>1. /\ pc[p] = "gcUnlink" /\ pc'[p] = "gcScan" /\ UNCHANGED row
        /\ n \in Ino /\ row[n] = Nil
        /\ reg' = [reg EXCEPT ![n] = Nil]
    BY <1>6 DEF GcUnlink
  <2>2. job'[p].known = job[p].known /\ job'[p].todo = job[p].todo \ {n}
    <3> HIDE DEF GcStage
    <3> QED BY <1>6, <2>1 DEF GcUnlink, Job
  <2>3. RowsKnown(p)' /\ KnownLinked(p, Ino)'
    BY <2>1, <2>2 DEF RowsKnown, KnownLinked
  <2>4. LinkedKnown(p, {})' /\ LinksMatched(job[p].todo)'
    BY <2>1, <2>2 DEF LinkedKnown, LinksMatched
  <2> QED
    BY <2>1, <2>3, <2>4
<1>7. CASE GcRelations(p)
  <2>1. /\ pc[p] = "gcScan" /\ pc'[p] = "gcInstalls" /\ UNCHANGED <<reg, row>>
        /\ job[p].todo = {}
    BY <1>7 DEF GcRelations
  <2>2. Matched'
    BY <2>1 DEF KnownLinked, LinksMatched, Matched
  <2> QED
    BY <2>1, <2>2
<1>8. ASSUME NEW k \in Plan, GcSweepInstall(p, k) PROVE GcStage(p)'
  BY <1>8 DEF GcSweepInstall, Matched
<1>9. CASE GcInstallsSwept(p)
  <2>1. /\ pc[p] = "gcInstalls" /\ pc'[p] = "gcDownloads"
        /\ UNCHANGED <<reg, row, rel, install>>
        /\ \A k \in Plan : install[k] # "none" => k \in job[p].live
        /\ job'[p].live = LiveDls
    BY <1>9 DEF GcInstallsSwept, Job
  <2>2. Matched' /\ InstallsLive' /\ LiveDls' = LiveDls
    BY <2>1 DEF Matched, InstallsLive, LiveKeys, LiveDls, SweepsSpare
  <2> QED
    BY <2>1, <2>2
<1>10. ASSUME NEW d \in Dl, GcSweepDownload(p, d) PROVE GcStage(p)'
  <2>1. /\ pc[p] = "gcDownloads" /\ UNCHANGED <<reg, row, rel, install, pc, job>>
    BY <1>10 DEF GcSweepDownload
  <2>2. Matched' /\ InstallsLive' /\ LiveDls' = LiveDls
    BY <2>1 DEF Matched, InstallsLive, LiveKeys, LiveDls
  <2> QED
    BY <2>1, <2>2
<1>11. CASE GcDownloadsSwept(p)
  <2>1. /\ pc[p] = "gcDownloads" /\ pc'[p] = "gcTmp"
        /\ UNCHANGED <<reg, row, rel, install, dl>>
        /\ \A d \in Dl : dl[d] # "none" => d \in job[p].live
    BY <1>11 DEF GcDownloadsSwept
  <2>2. Matched' /\ InstallsLive' /\ DownloadsLive'
    BY <2>1 DEF Matched, InstallsLive, DownloadsLive, LiveKeys, LiveDls
  <2> QED
    BY <2>1, <2>2
<1>12. CASE GcSweepTmp(p)
  <2>1. /\ pc[p] = "gcTmp" /\ pc'[p] = "finish" /\ tmp' = {}
        /\ UNCHANGED <<reg, row, rel, install, dl>>
    BY <1>12 DEF GcSweepTmp
  <2>2. Matched' /\ InstallsLive' /\ DownloadsLive'
    BY <2>1 DEF Matched, InstallsLive, DownloadsLive, LiveKeys, LiveDls
  <2> QED
    BY <2>1, <2>2
<1> QED
  BY <1>1, <1>2, <1>3, <1>4, <1>5, <1>6, <1>7, <1>8, <1>9, <1>10, <1>11, <1>12
  DEF GcStep

(* What nobody touches stays as the gc left it.                            *)
LEMMA GcStageUntouched ==
  ASSUME NEW p \in Proc, GcStage(p), Untouched(p)
  PROVE  GcStage(p)'
<1>1. /\ LiveKeys' = LiveKeys
      /\ GcFinished(p)' <=> GcFinished(p)
      /\ Matched' <=> Matched
  BY DEF Untouched, LiveKeys, GcFinished, Matched
<1>2. LiveDls' = LiveDls
  BY <1>1 DEF Untouched, LiveDls
<1> QED
  BY <1>1, <1>2 DEF Untouched, GcStage, RowsKnown, KnownLinked, LinkedKnown,
     LinksMatched, InstallsLive, DownloadsLive

(* Nothing is asked of a call that is no gc at work.                       *)
LEMMA GcStageIdle ==
  ASSUME NEW p \in Proc, pc[p] \notin Sweeping, ~GcFinished(p)
  PROVE  GcStage(p)
  BY DEF GcStage, Sweeping, GcSteps

(* Where the step of a call leaves the calls: the others where they were,  *)
(* its own of the kind it was, and done as a gc only under the gc lock.    *)
LEMMA KindStep ==
  ASSUME NEW q \in Proc, TypeInv, GcLockInv, KindInv, Active(q)
  PROVE  /\ KindInv'
         /\ \A p \in Proc \ {q} : pc'[p] = pc[p] /\ job'[p].kind = job[p].kind
<1> /\ pc \in [Proc -> Step] /\ job \in [Proc -> Job]
    /\ Nil \notin Proc
  BY NilAssumption DEF TypeInv, TypeOK
<1> USE DEF KindInv, GcFinished
<1>1. CASE SubmitAny(q)
  <2>1. /\ \A p \in Proc \ {q} : pc'[p] = pc[p] /\ job'[p] = job[p]
        /\ gcExcl' = gcExcl
        /\ \/ pc'[q] = "gcLock"
           \/ job'[q].kind # "gc" /\ pc'[q] # "finish"
    BY <1>1, SubmitFrame DEF lockVars
  <2> QED
    BY <2>1 DEF OnPath, CreateSteps, RemoveSteps
<1>2. CASE CreateStep(q) \/ EffectFailure(q)
  <2>1. /\ \A p \in Proc \ {q} : pc'[p] = pc[p] /\ job'[p] = job[p]
        /\ job'[q].kind = job[q].kind
        /\ gcExcl' = gcExcl
        /\ pc'[q] = pc[q] \/ pc[q] \in CreateSteps
    BY <1>2, CreateFrame
  <2> QED
    BY <2>1 DEF OnPath
<1>3. CASE RemoveStep(q)
  BY <1>3, RemoveFrame DEF OnPath
<1>4. CASE GcStep(q)
  <2>1. /\ \A p \in Proc \ {q} : pc'[p] = pc[p] /\ job'[p] = job[p]
        /\ pc'[q] \in GcSteps \cup {"finish"}
        /\ pc[q] # "gcLock" => gcExcl = q
    BY <1>4, GcFrame DEF GcLockInv, Sweeping
  <2>2. CASE GcAcquire(q)
    BY <2>1, <2>2 DEF GcAcquire, Goto, ExclusiveFree, OnPath, CreateSteps, RemoveSteps,
       GcSteps
  <2>3. CASE ~GcAcquire(q)
    <3>1. gcExcl = q
      BY <1>4, <2>1, <2>3, GcFrame
    <3>2. gcExcl' = gcExcl
      BY <1>4, <2>3 DEF GcStep, GcKnown, GcListRequests, GcUnlink, GcRelations,
         GcInstallsSwept, GcDownloadsSwept, GcSweepTmp, GcStaleRow, GcEntry,
         GcSweepInstall, GcSweepDownload
    <3> QED
      BY <2>1, <3>1, <3>2 DEF OnPath, CreateSteps, RemoveSteps, GcSteps
  <2> QED
    BY <2>2, <2>3
<1>5. CASE Return(q) \/ CrashAny(q)
  <2>1. /\ \A p \in Proc \ {q} : /\ pc'[p] = pc[p] /\ job'[p] = job[p]
                                 /\ gcExcl = p => gcExcl' = p
        /\ pc'[q] = "idle"
    BY <1>5, EndFrame
  <2> QED
    BY <2>1 DEF OnPath, CreateSteps, RemoveSteps
<1> QED
  BY <1>1, <1>2, <1>3, <1>4, <1>5 DEF Active, ProcStep

(* No gc is at work in an empty store.                                     *)
LEMMA GcInit == Init => GcInv
  BY DEF Init, GcInv, KindInv, GcStage, GcFinished, OnPath, CreateSteps, RemoveSteps

(* Every step keeps what a gc at work, or on its way back, has reached.    *)
LEMMA GcInvStep ==
  TypeInv /\ GcLockInv /\ SweepsSpare /\ GcInv /\ [Next]_vars => GcInv'
<1> SUFFICES ASSUME TypeInv, GcLockInv, SweepsSpare, GcInv, [Next]_vars PROVE GcInv'
  OBVIOUS
<1>1. CASE UserStep \/ UNCHANGED vars
  <2>1. UNCHANGED <<reg, row, rel, install, dl, tmp, gcExcl, pc, job>>
    BY <1>1, UserFrame DEF dbVars, objVars, lockVars, procVars
  <2> QED
    <3>1. KindInv'
      BY <2>1 DEF GcInv, KindInv, GcFinished
    <3>2. LiveKeys' = LiveKeys /\ LiveDls' = LiveDls
      BY <2>1 DEF LiveKeys, LiveDls
    <3>3. ASSUME NEW p \in Proc PROVE GcStage(p)'
      BY <2>1, <3>2, <3>3 DEF GcInv, GcStage, GcFinished, RowsKnown, KnownLinked,
         LinkedKnown, LinksMatched, Matched, InstallsLive, DownloadsLive
    <3> QED
      BY <3>1, <3>3 DEF GcInv
<1>2. ASSUME NEW q \in Proc, Active(q) PROVE GcInv'
  <2>1. /\ KindInv'
        /\ \A p \in Proc \ {q} : pc'[p] = pc[p] /\ job'[p].kind = job[p].kind
    BY <1>2, KindStep DEF GcInv
  <2>2. ASSUME NEW p \in Proc \ {q} PROVE GcStage(p)'
    <3>1. CASE pc[p] \in Sweeping \/ GcFinished(p)
      <4>1. gcExcl = p
        BY <3>1 DEF GcLockInv, GcInv, KindInv
      <4>2. Untouched(p)
        BY <1>2, <4>1, OthersWait
      <4> QED
        BY <4>2, GcStageUntouched DEF GcInv
    <3>2. CASE pc[p] \notin Sweeping /\ ~GcFinished(p)
      <4>1. pc'[p] \notin Sweeping /\ ~GcFinished(p)'
        BY <2>1, <2>2, <3>2 DEF GcFinished
      <4> QED
        BY <4>1 DEF GcStage, GcFinished, Sweeping, GcSteps
    <3> QED
      BY <3>1, <3>2
  <2>3. GcStage(q)'
    <3>1. CASE GcStep(q)
      BY <3>1, GcStageOwn DEF GcInv
    <3>2. CASE ~GcStep(q)
      <4>1. pc'[q] \notin Sweeping /\ ~GcFinished(q)'
        <5> pc \in [Proc -> Step] /\ job \in [Proc -> Job]
          BY DEF TypeInv, TypeOK
        <5> USE DEF GcFinished, Sweeping, GcSteps, CreateSteps, RemoveSteps
        <5>1. CASE SubmitAny(q)
          BY <5>1, SubmitFrame
        <5>2. CASE CreateStep(q) \/ EffectFailure(q)
          <6>1. CASE pc[q] \in CreateSteps /\ pc'[q] \in CreateSteps \cup {"finish"}
            <7>1. job'[q].kind = job[q].kind
              BY <5>2, CreateFrame
            <7> QED
              BY <6>1, <7>1 DEF GcInv, KindInv, OnPath
          <6>2. CASE q \in gcShared /\ pc' = pc
            <7>1. job'[q].kind = job[q].kind
              BY <5>2, CreateFrame
            <7>2. gcExcl # q
              BY <6>2, NilAssumption DEF GcLockInv
            <7> QED
              BY <6>2, <7>1, <7>2 DEF GcInv, KindInv, GcLockInv
          <6> QED
            BY <5>2, <6>1, <6>2, CreateFrame
        <5>3. CASE RemoveStep(q)
          BY <5>3, RemoveFrame DEF GcInv, KindInv, OnPath
        <5>4. CASE Return(q) \/ CrashAny(q)
          BY <5>4, EndFrame
        <5> QED
          BY <1>2, <3>2, <5>1, <5>2, <5>3, <5>4 DEF Active, ProcStep
      <4> QED
        BY <4>1 DEF GcStage, GcFinished, Sweeping, GcSteps
    <3> QED
      BY <3>1, <3>2
  <2> QED
    BY <2>1, <2>2, <2>3 DEF GcInv
<1> QED
  BY <1>1, <1>2 DEF Next, Quiet, Active

(* A gc that returns has left nothing unreferenced behind: no object or    *)
(* temporary directory without a registered request, no row without its    *)
(* link, no link without its row, whatever was killed before (Store::gc).  *)
THEOREM GcAlwaysExact == Spec => []GcExact
<1>1. GcInv => GcExact
  BY DEF GcInv, GcStage, GcFinished, InstallsLive, DownloadsLive, Matched, GcExact
<1>2. IInv /\ GcInv /\ [Next]_vars => GcInv'
  BY GcInvStep DEF IInv, BackInv
<1> QED
  BY <1>1, <1>2, GcInit, Invariant, PTL DEF Spec

-----------------------------------------------------------------------------
(* Promises.                                                               *)

(* A file registered under its own inode number and named upstream has at  *)
(* least two links: the count gc reads is not that of an abandoned one     *)
(* (gc_locked).                                                            *)
LEMMA LinksOfKept ==
  ASSUME NEW i \in Ino, reg[i] = i, Upstream(i) # {}
  PROVE  Links(i) # 1
<1> DEFINE A == Upstream(i)
           B == {n \in Ino : reg[n] = i}
<1>1. IsFiniteSet(A) /\ IsFiniteSet(B)
  BY FS_Subset, FiniteAssumption DEF Upstream
<1>2. A # {} /\ B # {}
  OBVIOUS
<1>3. /\ Cardinality(A) \in Nat /\ Cardinality(A) # 0
      /\ Cardinality(B) \in Nat /\ Cardinality(B) # 0
  <2> HIDE DEF A, B
  <2> QED BY <1>1, <1>2, FS_CardinalityType, FS_EmptySet
<1>4. Links(i) = Cardinality(A) + Cardinality(B)
  BY DEF Links
<1> HIDE DEF A, B
<1> QED
  BY <1>3, <1>4

(* A step that binds, links and promises nothing, and after which no call  *)
(* is further in its registration, keeps the promises.                     *)
Promising == {"rowCheck", "bind"}
KeepsPromises ==
  /\ UNCHANGED <<row, reg, kept>>
  /\ \A i \in Ino : kept[i] # Nil /\ Upstream(i) # {} => Upstream(i)' # {}
  /\ \A p \in Proc :
       /\ pc'[p] \in Bound \cup Forgetting =>
            job'[p].ino = job[p].ino /\ job'[p].raced = job[p].raced
       /\ pc'[p] \in Bound => pc[p] \in Bound
       /\ pc'[p] \in Forgetting => pc[p] \in Forgetting
       /\ pc'[p] \in Promising => pc[p] \in Promising

(* Such a step keeps the invariant of the promises.                        *)
LEMMA KeepStill == KeepInv /\ KeepsPromises => KeepInv'
<1> SUFFICES ASSUME KeepInv, KeepsPromises PROVE KeepInv'
  OBVIOUS
<1> USE DEF KeepsPromises, KeepInv
<1>1. PromisesRegistered'
  BY DEF PromisesRegistered
<1>2. CreatesHaveInode'
  BY DEF CreatesHaveInode
<1>3. RemovesForget'
  BY DEF RemovesForget
<1>4. RacesKnown'
  BY DEF RacesKnown
<1>5. CreatesLinked'
  BY DEF CreatesLinked, Promising, Bound, Registering
<1> QED
  BY <1>1, <1>2, <1>3, <1>4, <1>5

(* Nothing is promised at the start.                                       *)
LEMMA KeepInit == Init => KeepInv
  BY DEF Init, KeepInv, PromisesRegistered, CreatesHaveInode, RemovesForget, RacesKnown,
     CreatesLinked, Bound, Registering, Forgetting

(* A user who unlinks the last path of a file gives its promise up; the    *)
(* other things users do give none up.                                     *)
LEMMA KeepUser == TypeInv /\ KeepInv /\ UserStep => KeepInv'
<1> SUFFICES ASSUME TypeInv, KeepInv, UserStep PROVE KeepInv'
  OBVIOUS
<1> path \in [Path -> Ino \cup {Nil}] /\ kept \in [Ino -> Plan \cup {Nil}] /\ Nil \notin Ino
  BY NilAssumption DEF TypeInv, TypeOK
<1>1. UNCHANGED <<row, reg, pc, job>>
  BY UserFrame DEF dbVars, procVars
<1>2. ASSUME kept' = kept, \A u \in Path : path[u] # Nil => path'[u] = path[u]
      PROVE  KeepInv'
  <2>1. KeepsPromises
    BY <1>1, <1>2 DEF KeepsPromises, Upstream
  <2> QED
    BY <2>1, KeepStill
<1>3. ASSUME NEW u \in Path, UserUnlink(u) PROVE KeepInv'
  <2>1. kept' = [i \in Ino |-> IF \E v \in Path : path'[v] = i THEN kept[i] ELSE Nil]
    BY <1>3 DEF UserUnlink, Reconsider
  <2>2. PromisesRegistered'
    BY <1>1, <2>1 DEF KeepInv, PromisesRegistered, Upstream
  <2>3. CreatesHaveInode' /\ RacesKnown' /\ CreatesLinked'
    BY <1>1 DEF KeepInv, CreatesHaveInode, RacesKnown, CreatesLinked
  <2>4. RemovesForget'
    BY <1>1, <2>1 DEF KeepInv, RemovesForget, CreatesHaveInode
  <2> QED
    BY <2>2, <2>3, <2>4 DEF KeepInv
<1>4. ASSUME NEW u \in Path, NEW k \in Plan, UserWrite(u, k) \/ UserEdit(u, k)
      PROVE  KeepInv'
  BY <1>2, <1>4 DEF UserWrite, UserEdit, promises
<1>5. ASSUME NEW u \in Path, NEW v \in Path, UserLink(u, v) PROVE KeepInv'
  BY <1>2, <1>5 DEF UserLink, promises
<1> QED
  BY <1>3, <1>4, <1>5 DEF UserStep

(* A submitted call has read no inode.                                     *)
LEMMA KeepSubmit == \A p \in Proc : TypeInv /\ KeepInv /\ SubmitAny(p) => KeepInv'
<1> SUFFICES ASSUME NEW p \in Proc, TypeInv, KeepInv, SubmitAny(p) PROVE KeepInv'
  OBVIOUS
<1>1. /\ UNCHANGED <<path, row, reg, kept>>
      /\ \A q \in Proc \ {p} : job'[q] = job[q]
      /\ \E first \in {"gcLock", "snapshot", "reqLock", "rmLock"} :
           pc' = [pc EXCEPT ![p] = first]
  BY SubmitFrame DEF dbVars
<1>2. KeepsPromises
  BY <1>1 DEF KeepsPromises, Bound, Registering, Forgetting, Promising, Upstream, TypeInv,
     TypeOK
<1> QED
  BY <1>2, KeepStill

(* A call that ends forgets what it read.                                  *)
LEMMA KeepEnd ==
  \A p \in Proc : TypeInv /\ GcLockInv /\ KeepInv /\ (Return(p) \/ CrashAny(p)) => KeepInv'
<1> SUFFICES ASSUME NEW p \in Proc, TypeInv, GcLockInv, KeepInv, Return(p) \/ CrashAny(p)
             PROVE  KeepInv'
  OBVIOUS
<1>1. /\ UNCHANGED <<path, row, reg, kept>>
      /\ pc' = [pc EXCEPT ![p] = "idle"]
      /\ job' = [job EXCEPT ![p] = IdleJob]
  BY EndFrame
<1>2. KeepsPromises
  BY <1>1 DEF KeepsPromises, Bound, Registering, Forgetting, Promising, Upstream, TypeInv,
     TypeOK
<1> QED
  BY <1>2, KeepStill

(* A step of create keeps the promises: it links a file only under a name  *)
(* no promise uses, and what it promises it has verified, under the gc     *)
(* lock and with no remove at work on the inode (register_create).         *)
LEMMA KeepCreate ==
  \A p \in Proc :
    TypeInv /\ GcLockInv /\ KeepInv /\ (CreateStep(p) \/ EffectFailure(p)) => KeepInv'
<1> SUFFICES ASSUME NEW p \in Proc, TypeInv, GcLockInv, KeepInv,
                    CreateStep(p) \/ EffectFailure(p)
             PROVE  KeepInv'
  OBVIOUS
<1> /\ pc \in [Proc -> Step] /\ job \in [Proc -> Job]
    /\ row \in [Ino -> Plan \cup {Nil}] /\ reg \in [Ino -> Ino \cup {Nil}]
    /\ kept \in [Ino -> Plan \cup {Nil}] /\ path \in [Path -> Ino \cup {Nil}]
    /\ Nil \notin Ino /\ Nil \notin Plan
  BY NilAssumption DEF TypeInv, TypeOK
<1> USE DEF Bound, Registering, Forgetting, Promising
<1>1. ASSUME \/ AcquireRequestLock(p) \/ ReadPlan(p) \/ CreateAcquireGc(p)
             \/ AcquireInstallLock(p) \/ CheckCached(p) \/ AbandonBuild(p)
             \/ PublishInstall(p) \/ FailItem(p) \/ CheckRow(p)
      PROVE  KeepInv'
  <2>1. SameCalls
    BY <1>1, OutcomeEffect DEF AcquireRequestLock, ReadPlan, CreateAcquireGc,
       AcquireGcShared, AcquireInstallLock, CheckCached, AbandonBuild, PublishInstall,
       FailItem, CheckRow, Fail
  <2>2. /\ UNCHANGED <<path, row, reg, kept>>
        /\ \A q \in Proc \ {p} : pc'[q] = pc[q]
        /\ pc'[p] \in Bound => pc[p] \in Bound
        /\ pc'[p] \notin Forgetting
        /\ pc'[p] \in Promising => pc[p] \in Promising
    BY <1>1 DEF AcquireRequestLock, ReadPlan, CreateAcquireGc, AcquireGcShared,
       AcquireInstallLock, CheckCached, AbandonBuild, PublishInstall, FailItem, CheckRow,
       BuildUnchanged, Goto, Fail, fsVars, dbVars, histVars, promises
  <2>3. KeepsPromises
    BY <2>1, <2>2 DEF SameCalls, KeepsPromises, Upstream
  <2> QED
    BY <2>3, KeepStill
<1>2. CASE PersistRequest(p)
  <2>1. /\ UNCHANGED <<row, reg>>
        /\ kept' = [i \in Ino |-> IF \E u \in Path : path'[u] = i THEN kept[i] ELSE Nil]
        /\ \A q \in Proc \ {p} : pc'[q] = pc[q] /\ job'[q] = job[q]
        /\ pc'[p] \in {"snapshot", "finish"}
    BY <1>2, PublishRequestEffect DEF dbVars
  <2>2. PromisesRegistered'
    BY <2>1 DEF KeepInv, PromisesRegistered, Upstream
  <2>3. CreatesHaveInode' /\ RacesKnown' /\ CreatesLinked'
    BY <2>1 DEF KeepInv, CreatesHaveInode, RacesKnown, CreatesLinked
  <2>4. RemovesForget'
    BY <2>1 DEF KeepInv, RemovesForget, CreatesHaveInode
  <2> QED
    BY <2>2, <2>3, <2>4 DEF KeepInv
<1>3. CASE PrepareSnapshot(p)
  <2>1. /\ UNCHANGED <<path, row, reg, kept>>
        /\ \A q \in Proc \ {p} : pc'[q] = pc[q] /\ job'[q] = job[q]
        /\ \/ pc'[p] = "finish"
           \/ /\ pc'[p] = "readPlan"
              /\ job'[p].ino \in Ino
              /\ job'[p].raced = RemoveInFlight(job'[p].ino)
    BY <1>3, SnapshotEffect DEF dbVars
  <2>2. PromisesRegistered' /\ RemovesForget'
    BY <2>1 DEF KeepInv, PromisesRegistered, RemovesForget, Upstream
  <2>3. CreatesHaveInode' /\ CreatesLinked'
    BY <2>1 DEF KeepInv, CreatesHaveInode, CreatesLinked
  <2>4. RacesKnown'
    <3> SUFFICES ASSUME NEW r \in Proc, NEW q \in Proc, pc'[r] \in Bound,
                        pc'[q] \in Forgetting, job'[r].ino = job'[q].ino
                 PROVE  job'[r].raced
      BY DEF RacesKnown
    <3>1. q # p /\ pc[q] \in Forgetting /\ job[q].ino = job'[r].ino
      BY <2>1 DEF Forgetting
    <3>2. CASE r = p
      BY <2>1, <3>1, <3>2 DEF RemoveInFlight, Forgetting, Bound
    <3>3. CASE r # p
      BY <2>1, <3>1, <3>3 DEF KeepInv, RacesKnown
    <3> QED
      BY <3>2, <3>3
  <2> QED
    BY <2>2, <2>3, <2>4 DEF KeepInv
<1>4. CASE PrepareInstall(p)
  <2>1. /\ UNCHANGED <<path, row, reg, kept, pc>>
        /\ \A q \in Proc : job'[q].ino = job[q].ino /\ job'[q].raced = job[q].raced
    <3>1. /\ UNCHANGED <<path, row, reg, kept, pc>>
          /\ job' = [job EXCEPT ![p].staged = TRUE]
      BY <1>4 DEF PrepareInstall, BuildUnchanged, fsVars, dbVars, histVars, promises
    <3>2. job \in [Proc -> Job]
      BY DEF TypeInv, TypeOK
    <3> QED
      BY <3>1, <3>2 DEF Job
  <2>2. KeepsPromises
    BY <2>1 DEF KeepsPromises, Upstream
  <2> QED
    BY <2>2, KeepStill
<1>5. ASSUME NEW d \in Dl, AcquireDlLock(p, d) \/ ReuseDownload(p, d)
                           \/ StartDownload(p, d) \/ PublishDownload(p, d)
                           \/ FailDownload(p, d)
      PROVE  KeepInv'
  <2>1. SameCalls
    BY <1>5, OutcomeEffect DEF AcquireDlLock, ReuseDownload, StartDownload,
       PublishDownload, FailDownload, EndDownload
  <2>2. UNCHANGED <<path, row, reg, kept, pc>>
    BY <1>5 DEF AcquireDlLock, ReuseDownload, StartDownload, PublishDownload,
       FailDownload, EndDownload, BuildUnchanged, fsVars, dbVars, histVars, promises
  <2>3. KeepsPromises
    BY <2>1, <2>2 DEF SameCalls, KeepsPromises, Upstream
  <2> QED
    BY <2>3, KeepStill
<1>6. CASE HardLink(p)
  <2> DEFINE i == job[p].ino
  <2>1. SameCalls
    BY <1>6, OutcomeEffect DEF HardLink, Fail
  <2>2. /\ UNCHANGED <<path, row, kept>>
        /\ \A q \in Proc \ {p} : pc'[q] = pc[q]
        /\ pc[p] = "link" /\ pc'[p] \in {"verify", "finish"}
    BY <1>6 DEF HardLink, Goto, Fail, fsVars, dbVars, histVars, promises
  <2>3. (reg' = reg) \/ (reg[i] = Nil /\ \E n : reg' = [reg EXCEPT ![i] = n])
    BY <1>6 DEF HardLink
  <2>4. \A n \in Ino : reg[n] # Nil => reg'[n] = reg[n]
    BY <2>3
  <2>5. PromisesRegistered' /\ CreatesLinked'
    BY <2>1, <2>2, <2>4 DEF SameCalls, KeepInv, PromisesRegistered, CreatesLinked,
       CreatesHaveInode, Upstream
  <2>6. CreatesHaveInode' /\ RemovesForget' /\ RacesKnown'
    BY <2>1, <2>2 DEF SameCalls, KeepInv, CreatesHaveInode, RemovesForget, RacesKnown
  <2> QED
    BY <2>5, <2>6 DEF KeepInv
<1>7. CASE VerifyRegistration(p)
  <2>1. SameCalls
    BY <1>7, OutcomeEffect DEF VerifyRegistration, Fail
  <2>2. /\ UNCHANGED <<path, row, reg, kept>>
        /\ \A q \in Proc \ {p} : pc'[q] = pc[q]
        /\ pc[p] = "verify" /\ pc'[p] \in {"rowCheck", "finish"}
        /\ pc'[p] = "rowCheck" => reg[job[p].ino] = job[p].ino
    BY <1>7 DEF VerifyRegistration, Goto, Fail, fsVars, dbVars, histVars, promises
  <2>3. PromisesRegistered' /\ CreatesLinked'
    BY <2>1, <2>2 DEF SameCalls, KeepInv, PromisesRegistered, CreatesLinked, Upstream
  <2>4. CreatesHaveInode' /\ RemovesForget' /\ RacesKnown'
    BY <2>1, <2>2 DEF SameCalls, KeepInv, CreatesHaveInode, RemovesForget, RacesKnown
  <2> QED
    BY <2>3, <2>4 DEF KeepInv
<1>8. CASE AddRequest(p)
  <2> DEFINE i == job[p].ino
  <2>1. SameCalls
    BY <1>8, OutcomeEffect DEF AddRequest
  <2>2. /\ pc[p] = "bind" /\ pc' = [pc EXCEPT ![p] = "finish"]
        /\ UNCHANGED <<path, reg>>
        /\ row' = [row EXCEPT ![i] = key[p]]
        /\ kept' = [kept EXCEPT ![i] = IF Promised(p) THEN key[p] ELSE Nil]
    BY <1>8 DEF AddRequest, Goto, fsVars
  <2>3. i \in Ino /\ Nil \notin Ino
    BY <2>2 DEF KeepInv, CreatesHaveInode
  <2>4. Promised(p) => reg[i] = i /\ Upstream(i) # {}
    BY <2>2 DEF Promised, KeepInv, CreatesLinked
  <2>5. PromisesRegistered'
    <3>1. ASSUME NEW n \in Ino, kept'[n] # Nil
          PROVE  row'[n] = kept'[n] /\ reg[n] = n /\ Upstream(n) # {}
      <4>1. CASE n = i
        BY <2>2, <2>3, <2>4, <3>1, <4>1
      <4>2. CASE n # i
        BY <2>2, <3>1, <4>2 DEF KeepInv, PromisesRegistered
      <4> QED
        BY <4>1, <4>2
    <3> QED
      BY <2>2, <3>1 DEF PromisesRegistered, Upstream
  <2>6. CreatesHaveInode' /\ RacesKnown' /\ CreatesLinked'
    BY <2>1, <2>2 DEF SameCalls, KeepInv, CreatesHaveInode, RacesKnown, CreatesLinked
  <2>7. ASSUME NEW q \in Proc, pc'[q] \in Forgetting PROVE kept'[job'[q].ino] = Nil
    <3>1. pc[q] \in Forgetting /\ job'[q].ino = job[q].ino
      BY <2>1, <2>2, <2>7 DEF SameCalls
    <3>2. kept[job[q].ino] = Nil /\ job[q].ino \in Ino
      BY <3>1 DEF KeepInv, RemovesForget, CreatesHaveInode
    <3>3. CASE job[q].ino = i
      <4>1. ~Promised(p)
        BY <2>2, <3>1, <3>3 DEF Promised, KeepInv, RacesKnown
      <4> QED
        BY <2>2, <2>3, <3>1, <3>3, <4>1
    <3>4. CASE job[q].ino # i
      BY <2>2, <3>1, <3>2, <3>4
    <3> QED
      BY <3>3, <3>4
  <2> QED
    BY <2>5, <2>6, <2>7 DEF KeepInv, RemovesForget
<1> QED
  BY <1>1, <1>2, <1>3, <1>4, <1>5, <1>6, <1>7, <1>8 DEF CreateStep, EffectFailure

(* A remove ends the promise to the inode it reads before it drops its row *)
(* and its link, and the creates at work on the inode learn of it.         *)
LEMMA KeepRemove == \A p \in Proc : TypeInv /\ KeepInv /\ RemoveStep(p) => KeepInv'
<1> SUFFICES ASSUME NEW p \in Proc, TypeInv, KeepInv, RemoveStep(p) PROVE KeepInv'
  OBVIOUS
<1> /\ pc \in [Proc -> Step] /\ job \in [Proc -> Job]
    /\ row \in [Ino -> Plan \cup {Nil}] /\ reg \in [Ino -> Ino \cup {Nil}]
    /\ kept \in [Ino -> Plan \cup {Nil}] /\ path \in [Path -> Ino \cup {Nil}]
    /\ Nil \notin Ino /\ Nil \notin Plan
  BY NilAssumption DEF TypeInv, TypeOK
<1> USE DEF Bound, Registering, Forgetting, Promising
<1>1. CASE RemoveAcquireGc(p)
  <2>1. /\ UNCHANGED <<path, row, reg, kept, job>>
        /\ pc' = [pc EXCEPT ![p] = "rmSnapshot"]
    BY <1>1 DEF RemoveAcquireGc, AcquireGcShared, Goto, fsVars, dbVars, histVars, promises
  <2>2. KeepsPromises
    BY <2>1 DEF KeepsPromises, Upstream
  <2> QED
    BY <2>2, KeepStill
<1>2. CASE RemoveSnapshot(p)
  <2>1. /\ UNCHANGED <<path, row, reg>> /\ pc[p] = "rmSnapshot"
        /\ \A q \in Proc \ {p} : /\ pc'[q] = pc[q] /\ job'[q].ino = job[q].ino
                                 /\ job[q].raced => job'[q].raced
        /\ \/ pc'[p] = "finish" /\ UNCHANGED kept
           \/ /\ pc'[p] = "rmRow" /\ job'[p].ino \in Ino
              /\ kept' = [kept EXCEPT ![job'[p].ino] = Nil]
              /\ \A q \in Proc \ {p} : job[q].ino = job'[p].ino => job'[q].raced
    BY <1>2, RemoveSnapshotEffect DEF dbVars
  <2>2. \A i \in Ino : kept'[i] = kept[i] \/ kept'[i] = Nil
    BY <2>1
  <2>3. PromisesRegistered'
    BY <2>1, <2>2 DEF KeepInv, PromisesRegistered, Upstream
  <2>4. CreatesHaveInode'
    BY <2>1 DEF KeepInv, CreatesHaveInode
  <2>5. RemovesForget'
    BY <2>1, <2>2 DEF KeepInv, RemovesForget, CreatesHaveInode
  <2>6. RacesKnown'
    BY <2>1 DEF KeepInv, RacesKnown
  <2>7. CreatesLinked'
    BY <2>1 DEF KeepInv, CreatesLinked
  <2> QED
    BY <2>3, <2>4, <2>5, <2>6, <2>7 DEF KeepInv
<1>3. CASE RemoveRow(p)
  <2>1. /\ UNCHANGED <<path, reg, kept, job>>
        /\ pc[p] = "rmRow" /\ pc' = [pc EXCEPT ![p] = "rmLink"]
        /\ row' = [row EXCEPT ![job[p].ino] = Nil]
    BY <1>3 DEF RemoveRow, Goto, fsVars, histVars, promises
  <2>2. kept[job[p].ino] = Nil
    BY <2>1 DEF KeepInv, RemovesForget
  <2>3. PromisesRegistered'
    BY <2>1, <2>2 DEF KeepInv, PromisesRegistered, Upstream
  <2>4. CreatesHaveInode' /\ RemovesForget' /\ RacesKnown' /\ CreatesLinked'
    BY <2>1 DEF KeepInv, CreatesHaveInode, RemovesForget, RacesKnown, CreatesLinked
  <2> QED
    BY <2>3, <2>4 DEF KeepInv
<1>4. CASE RemoveLink(p)
  <2>1. SameCalls
    BY <1>4, OutcomeEffect DEF RemoveLink
  <2>2. /\ UNCHANGED <<path, row, kept>>
        /\ pc[p] = "rmLink" /\ pc' = [pc EXCEPT ![p] = "finish"]
        /\ reg' = [reg EXCEPT ![job[p].ino] = Nil]
    BY <1>4 DEF RemoveLink, Goto, fsVars, dbVars, histVars, promises
  <2>3. kept[job[p].ino] = Nil
    BY <2>2 DEF KeepInv, RemovesForget
  <2>4. PromisesRegistered'
    BY <2>2, <2>3 DEF KeepInv, PromisesRegistered, Upstream
  <2>5. CreatesHaveInode' /\ RemovesForget' /\ RacesKnown'
    BY <2>1, <2>2 DEF SameCalls, KeepInv, CreatesHaveInode, RemovesForget, RacesKnown
  <2>6. ASSUME NEW q \in Proc, pc'[q] \in {"rowCheck", "bind"}, ~job'[q].raced
        PROVE  reg'[job'[q].ino] = job'[q].ino
    <3>1. /\ pc[q] \in {"rowCheck", "bind"} /\ ~job[q].raced
          /\ job'[q].ino = job[q].ino
      BY <2>1, <2>2, <2>6 DEF SameCalls
    <3>2. job[q].ino # job[p].ino
      BY <2>2, <3>1 DEF KeepInv, RacesKnown
    <3>3. reg[job[q].ino] = job[q].ino /\ job[q].ino \in Ino
      BY <3>1 DEF KeepInv, CreatesLinked, CreatesHaveInode
    <3> QED
      BY <2>2, <3>1, <3>2, <3>3
  <2> QED
    BY <2>4, <2>5, <2>6 DEF KeepInv, CreatesLinked
<1> QED
  BY <1>1, <1>2, <1>3, <1>4 DEF RemoveStep

(* A gc forgets no file it owes anything: a promised file has its row, its *)
(* link and at least two links, and no create is at work meanwhile.        *)
LEMMA KeepGc ==
  \A p \in Proc : TypeInv /\ GcLockInv /\ GcInv /\ KeepInv /\ GcStep(p) => KeepInv'
<1> SUFFICES ASSUME NEW p \in Proc, TypeInv, GcLockInv, GcInv, KeepInv, GcStep(p)
             PROVE  KeepInv'
  OBVIOUS
<1> /\ pc \in [Proc -> Step] /\ job \in [Proc -> Job]
    /\ row \in [Ino -> Plan \cup {Nil}] /\ reg \in [Ino -> Ino \cup {Nil}]
    /\ kept \in [Ino -> Plan \cup {Nil}] /\ Nil \notin Ino /\ Nil \notin Plan
  BY NilAssumption DEF TypeInv, TypeOK
<1>1. /\ UNCHANGED <<path, kept>>
      /\ \A q \in Proc \ {p} : pc'[q] = pc[q] /\ job'[q] = job[q]
      /\ pc'[p] \notin Bound \cup Forgetting
  BY GcFrame DEF GcSteps, Bound, Registering, Forgetting
<1>2. CASE pc[p] = "gcLock"
  <2>1. UNCHANGED <<row, reg>>
    BY <1>2, GcFrame DEF GcAcquire, dbVars
  <2>2. KeepsPromises
    BY <1>1, <2>1 DEF KeepsPromises, Upstream, Promising, Bound, Registering
  <2> QED
    BY <2>2, KeepStill
<1>3. CASE pc[p] # "gcLock"
  <2>1. gcExcl = p
    BY <1>3, GcFrame DEF GcLockInv, Sweeping
  <2>2. \A q \in Proc : pc'[q] \notin Forgetting \cup {"rowCheck", "bind"}
    BY <1>1, <2>1, GcAlone DEF SharedSteps, Registering, Forgetting, Bound
  <2>3. RemovesForget' /\ RacesKnown' /\ CreatesLinked'
    BY <2>2 DEF RemovesForget, RacesKnown, CreatesLinked
  <2>4. CreatesHaveInode'
    BY <1>1 DEF KeepInv, CreatesHaveInode
  <2>5. ASSUME NEW i \in Ino, kept[i] # Nil PROVE row'[i] = row[i] /\ reg'[i] = reg[i]
    <3>0. row[i] # Nil /\ reg[i] = i /\ Upstream(i) # {}
      BY <2>5 DEF KeepInv, PromisesRegistered
    <3>1. ASSUME NEW n \in Ino, GcStaleRow(p, n) PROVE row'[i] = row[i] /\ reg'[i] = reg[i]
      BY <3>0, <3>1 DEF GcStaleRow, StaleRow
    <3>2. ASSUME NEW n \in Ino, GcEntry(p, n) PROVE row'[i] = row[i] /\ reg'[i] = reg[i]
      <4>1. i \in job[p].known
        BY <3>0, <3>2 DEF GcEntry, GcInv, GcStage, RowsKnown
      <4>2. CASE n = i
        <5>1. ~Abandoned(p, i)
          BY <3>0, <4>1, LinksOfKept DEF Abandoned
        <5> QED
          BY <3>2, <4>2, <5>1 DEF GcEntry
      <4>3. CASE n # i
        BY <3>2, <4>3 DEF GcEntry
      <4> QED
        BY <4>2, <4>3
    <3>3. CASE GcUnlink(p)
      <4>1. row[job[p].ino] = Nil
        BY <3>3 DEF GcUnlink, GcInv, GcStage
      <4> QED
        BY <3>0, <3>3, <4>1 DEF GcUnlink, dbVars
    <3>4. ASSUME \/ GcAcquire(p) \/ GcKnown(p) \/ GcListRequests(p) \/ GcRelations(p)
                 \/ GcInstallsSwept(p) \/ GcDownloadsSwept(p) \/ GcSweepTmp(p)
                 \/ \E k \in Plan : GcSweepInstall(p, k)
                 \/ \E d \in Dl : GcSweepDownload(p, d)
          PROVE  UNCHANGED <<row, reg>>
      BY <3>4 DEF GcAcquire, GcKnown, GcListRequests, GcRelations, GcInstallsSwept,
         GcDownloadsSwept, GcSweepTmp, GcSweepInstall, GcSweepDownload, dbVars
    <3> QED
      BY <3>1, <3>2, <3>3, <3>4 DEF GcStep
  <2>6. PromisesRegistered'
    BY <1>1, <2>5 DEF KeepInv, PromisesRegistered, Upstream
  <2> QED
    BY <2>3, <2>4, <2>6 DEF KeepInv
<1> QED
  BY <1>2, <1>3

(* Every step keeps the promises.                                          *)
LEMMA KeepStep ==
  TypeInv /\ GcLockInv /\ GcInv /\ KeepInv /\ [Next]_vars => KeepInv'
<1>1. KeepInv /\ UNCHANGED vars => KeepInv'
  BY DEF KeepInv, PromisesRegistered, CreatesHaveInode, RemovesForget, RacesKnown,
     CreatesLinked, Upstream, vars, fsVars, dbVars, procVars, histVars, promises
<1> QED
  BY <1>1, KeepUser, KeepSubmit, KeepCreate, KeepRemove, KeepGc, KeepEnd
  DEF Next, ProcStep, Quiet

(* What Ok means to the owner of a plan file: until the file's last path   *)
(* goes or a remove reads its inode, its registration, its link and its    *)
(* installation stay, whatever other calls, gcs and crashes do             *)
(* (Store::create, Store::remove, Store::gc).                              *)
THEOREM PromisesKept == Spec => []KeptInstalled
<1>1. IInv /\ KeepInv => KeptInstalled
  BY DEF IInv, BackInv, RowsInstalled, KeepInv, PromisesRegistered, KeptInstalled
<1>2. IInv /\ GcInv /\ [Next]_vars => GcInv'
  BY GcInvStep DEF IInv, BackInv
<1>3. IInv /\ GcInv /\ KeepInv /\ [Next]_vars => KeepInv'
  BY KeepStep DEF IInv
<1> QED
  BY <1>1, <1>2, <1>3, GcInit, KeepInit, Invariant, PTL DEF Spec

=============================================================================
