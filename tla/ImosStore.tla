------------------------------ MODULE ImosStore ------------------------------
(***************************************************************************)
(* The artifact store of the imos crate: what several processes that call  *)
(* create, install, remove and gc on one store directory do to the request *)
(* files, the intent database, the published objects and the file locks,   *)
(* while users write, edit, link and unlink their plan files and any       *)
(* process may be killed between two steps.                                *)
(*                                                                         *)
(* A plan file is an inode reached through upstream paths; the store       *)
(* registers it by hard-linking it as requests/<inode number>, so that the *)
(* link count tells gc whether the user still keeps it.                    *)
(***************************************************************************)
EXTENDS Naturals, FiniteSets

CONSTANTS
  Proc,       \* processes (or concurrent calls) sharing the store
  Ino,        \* inode numbers of the file system, reused once free
  Path,       \* the users' plan file paths
  Plan,       \* plan keys
  Dl,         \* download keys
  Items,      \* the download keys of the items of each plan
  Nil,        \* absence of a value
  MaxCalls,   \* bound on the calls submitted
  MaxClock,   \* bound on the edits made by users
  MaxCrashes  \* bound on the processes killed

ASSUME ItemsAssumption == Items \in [Plan -> SUBSET Dl]
\* Temporary directories are named install-* and download-*.
ASSUME KeysAssumption == Plan \cap Dl = {}
ASSUME NilAssumption == Nil \notin Proc \cup Ino \cup Path \cup Plan \cup Dl
ASSUME FiniteAssumption == IsFiniteSet(Ino) /\ IsFiniteSet(Path)
ASSUME BoundsAssumption ==
  MaxCalls \in Nat /\ MaxClock \in Nat /\ MaxCrashes \in Nat

VARIABLES
  path,        \* upstream directory entries: path -> inode
  content,     \* the plan key each inode's bytes spell
  stamp,       \* modification time of each inode
  clock,       \* the file system's clock, advanced by every write
  reg,         \* requests/<name>: the inode the internal link refers to
  row,         \* request_plans: inode name -> plan key
  rel,         \* plan_downloads: pairs <<plan key, download key>>
  install,     \* install/<plan>: none, whole, or what a killed gc left
  dl,          \* dl/<download>: none, whole or torn
  tmp,         \* tmp/ directories, each with the call that staged it
  gcShared,    \* holders of the shared lock on locks/gc
  gcExcl,      \* holder of the exclusive lock on locks/gc
  installLock, \* holder of locks/install/<plan>
  dlLock,      \* holder of locks/dl/<download>
  reqLock,     \* holder of locks/request/<path>
  pc,          \* where each process stands
  key,         \* plan key of the call a process serves
  job,         \* the rest of a call's local state
  fetch,       \* state of each download task of a call
  calls,       \* calls submitted so far
  crashes,     \* processes killed so far
  kept,        \* history: plan promised to the owner of an inode
  owed         \* history: plan last installed for a path that still asks for it

fsVars   == <<path, content, stamp, clock>>
dbVars   == <<row, rel>>
objVars  == <<install, dl, tmp>>
lockVars == <<gcShared, gcExcl, installLock, dlLock, reqLock>>
procVars == <<pc, key, job, fetch>>
promises == <<kept, owed>>
histVars == <<calls, crashes, promises>>
vars == <<fsVars, reg, dbVars, objVars, lockVars, procVars, histVars>>

Kind == {"none", "create", "install", "remove", "gc"}

CreateSteps == {"reqLock", "persist", "snapshot", "readPlan", "gcShared",
                "installLock", "check", "build", "link", "verify", "rowCheck", "bind"}
RemoveSteps == {"rmLock", "rmSnapshot", "rmRow", "rmLink"}
GcSteps == {"gcLock", "gcKnown", "gcRows", "gcScan", "gcUnlink",
            "gcInstalls", "gcDownloads", "gcTmp"}
Step == {"idle", "finish"} \cup CreateSteps \cup RemoveSteps \cup GcSteps

Object == {"none", "whole", "husk", "stub"}
Fetch  == {"none", "want", "locked", "fetching", "done", "failed"}

Job == [kind: Kind, path: Path \cup {Nil}, ino: Ino \cup {Nil}, stamp: Nat,
        already: BOOLEAN, minLinks: Nat, staged: BOOLEAN, ok: BOOLEAN,
        failed: BOOLEAN, known: SUBSET Ino, todo: SUBSET Ino, live: SUBSET (Plan \cup Dl),
        raced: BOOLEAN]

IdleJob == [kind |-> "none", path |-> Nil, ino |-> Nil, stamp |-> 0,
            already |-> FALSE, minLinks |-> 0, staged |-> FALSE, ok |-> FALSE,
            failed |-> FALSE, known |-> {}, todo |-> {}, live |-> {}, raced |-> FALSE]

NoFetch == [d \in Dl |-> "none"]

TypeOK ==
  /\ path \in [Path -> Ino \cup {Nil}]
  /\ content \in [Ino -> Plan \cup {Nil}]
  /\ stamp \in [Ino -> Nat]
  /\ clock \in Nat
  /\ reg \in [Ino -> Ino \cup {Nil}]
  /\ row \in [Ino -> Plan \cup {Nil}]
  /\ rel \subseteq Plan \X Dl
  /\ install \in [Plan -> Object]
  /\ dl \in [Dl -> {"none", "whole", "torn"}]
  /\ tmp \subseteq (Proc \cup {Nil}) \X (Plan \cup Dl)
  /\ gcShared \subseteq Proc
  /\ gcExcl \in Proc \cup {Nil}
  /\ installLock \in [Plan -> Proc \cup {Nil}]
  /\ dlLock \in [Dl -> Proc \cup {Nil}]
  /\ reqLock \in [Path -> Proc \cup {Nil}]
  /\ pc \in [Proc -> Step]
  /\ key \in [Proc -> Plan \cup {Nil}]
  /\ job \in [Proc -> Job]
  /\ fetch \in [Proc -> [Dl -> Fetch]]
  /\ calls \in Nat
  /\ crashes \in Nat
  /\ kept \in [Ino -> Plan \cup {Nil}]
  /\ owed \in [Path -> Plan \cup {Nil}]

Init ==
  /\ path = [u \in Path |-> Nil]
  /\ content = [i \in Ino |-> Nil]
  /\ stamp = [i \in Ino |-> 0]
  /\ clock = 0
  /\ reg = [i \in Ino |-> Nil]
  /\ row = [i \in Ino |-> Nil]
  /\ rel = {}
  /\ install = [k \in Plan |-> "none"]
  /\ dl = [d \in Dl |-> "none"]
  /\ tmp = {}
  /\ gcShared = {}
  /\ gcExcl = Nil
  /\ installLock = [k \in Plan |-> Nil]
  /\ dlLock = [d \in Dl |-> Nil]
  /\ reqLock = [u \in Path |-> Nil]
  /\ pc = [p \in Proc |-> "idle"]
  /\ key = [p \in Proc |-> Nil]
  /\ job = [p \in Proc |-> IdleJob]
  /\ fetch = [p \in Proc |-> NoFetch]
  /\ calls = 0
  /\ crashes = 0
  /\ kept = [i \in Ino |-> Nil]
  /\ owed = [u \in Path |-> Nil]

-----------------------------------------------------------------------------
(* The file system: link counts and inode reuse.                           *)

Upstream(i) == {u \in Path : path[u] = i}
Links(i) == Cardinality(Upstream(i)) + Cardinality({n \in Ino : reg[n] = i})
FreeIno == {i \in Ino : Links(i) = 0}

(* The plans and downloads the database calls live.                        *)
LiveKeys == {row[i] : i \in Ino} \ {Nil}
LiveDls == {d \in Dl : \E k \in LiveKeys : <<k, d>> \in rel}

Goto(p, step) == pc' = [pc EXCEPT ![p] = step]
Fail(p) ==
  /\ Goto(p, "finish")
  /\ job' = [job EXCEPT ![p].ok = FALSE]

(* A remove that has read the inode number i and has not returned.         *)
RemoveInFlight(i) ==
  \E q \in Proc : pc[q] \in {"rmRow", "rmLink"} /\ job[q].ino = i

(* History: the promise for an inode lapses when its last upstream path    *)
(* goes; what a path is owed, when it no longer asks for that plan.        *)
Reconsider(newPath, stillOwed) ==
  /\ kept' = [i \in Ino |-> IF \E u \in Path : newPath[u] = i THEN kept[i] ELSE Nil]
  /\ owed' = [u \in Path |-> IF u \in stillOwed THEN owed[u] ELSE Nil]
Cancel(i) == [u \in Path |-> IF path[u] = i THEN Nil ELSE owed[u]]

(* try_lock on the lock files: shared or exclusive for locks/gc, exclusive *)
(* for the others.                                                         *)
SharedMutant == TRUE                          \* mutant: granted during a gc
SharedFree == gcExcl = Nil
ExclusiveMutant == gcExcl = Nil               \* mutant: granted over creates
ExclusiveFree == gcExcl = Nil /\ gcShared = {}
InstallFreeMutant(k) == k \in Plan            \* mutant: two builders
InstallFree(k) == installLock[k] = Nil

-----------------------------------------------------------------------------
(* Users and their plan files.                                             *)

UserTick == clock < MaxClock /\ clock' = clock + 1
UserUnchanged == UNCHANGED <<reg, dbVars, objVars, lockVars, procVars, calls, crashes>>

UserWrite(u, k) ==
  /\ path[u] = Nil
  /\ UserTick
  /\ \E i \in FreeIno :
       /\ path' = [path EXCEPT ![u] = i]
       /\ content' = [content EXCEPT ![i] = k]
       /\ stamp' = [stamp EXCEPT ![i] = clock + 1]
  /\ UNCHANGED promises
  /\ UserUnchanged

UserEdit(u, k) ==
  /\ path[u] # Nil
  /\ UserTick
  /\ content' = [content EXCEPT ![path[u]] = k]
  /\ stamp' = [stamp EXCEPT ![path[u]] = clock + 1]
  /\ owed' = Cancel(path[u])
  /\ UNCHANGED <<path, kept>>
  /\ UserUnchanged

UserLink(u, v) ==
  /\ path[u] # Nil
  /\ path[v] = Nil
  /\ UserTick
  /\ path' = [path EXCEPT ![v] = path[u]]
  /\ UNCHANGED <<content, stamp, promises>>
  /\ UserUnchanged

UserUnlink(u) ==
  /\ path[u] # Nil
  /\ path' = [path EXCEPT ![u] = Nil]
  /\ Reconsider(path', Path \ {u})
  /\ UNCHANGED <<content, stamp, clock>>
  /\ UserUnchanged

-----------------------------------------------------------------------------
(* Calls.                                                                  *)

Submit(p, kind, u, k, first) ==
  /\ pc[p] = "idle"
  /\ calls < MaxCalls
  /\ calls' = calls + 1
  /\ Goto(p, first)
  /\ key' = [key EXCEPT ![p] = k]
  /\ job' = [job EXCEPT ![p] = [IdleJob EXCEPT !.kind = kind, !.path = u]]
  /\ UNCHANGED <<fsVars, reg, dbVars, objVars, lockVars, fetch, crashes, promises>>

SubmitCreate(p, u) == Submit(p, "create", u, Nil, "snapshot")
SubmitInstall(p, u, k) == Submit(p, "install", u, k, "reqLock")
SubmitRemove(p, u) == Submit(p, "remove", u, Nil, "rmLock")
SubmitGc(p) == Submit(p, "gc", Nil, Nil, "gcLock")

(* The locks a call holds are released when its state is dropped, whether  *)
(* it returns or its process is killed.                                    *)
InstallLocksMutant(p) == IF p \in Proc THEN installLock ELSE <<>>  \* mutant: kept
InstallLocksWithout(p) ==
  [k \in Plan |-> IF installLock[k] = p THEN Nil ELSE installLock[k]]

Release(p) ==
  /\ gcShared' = gcShared \ {p}
  /\ gcExcl' = IF gcExcl = p THEN Nil ELSE gcExcl
  /\ installLock' = InstallLocksWithout(p)
  /\ dlLock' = [d \in Dl |-> IF dlLock[d] = p THEN Nil ELSE dlLock[d]]
  /\ reqLock' = [u \in Path |-> IF reqLock[u] = p THEN Nil ELSE reqLock[u]]

(* Temporary directories a call leaves behind belong to nobody.            *)
Orphan(p) == tmp' = {IF t[1] = p THEN <<Nil, t[2]>> ELSE t : t \in tmp}

Retire(p) ==
  /\ Goto(p, "idle")
  /\ key' = [key EXCEPT ![p] = Nil]
  /\ job' = [job EXCEPT ![p] = IdleJob]
  /\ fetch' = [fetch EXCEPT ![p] = NoFetch]
  /\ Release(p)
  /\ Orphan(p)

Return(p) ==
  /\ pc[p] = "finish"
  /\ Retire(p)
  /\ UNCHANGED <<fsVars, reg, dbVars, install, dl, histVars>>

-----------------------------------------------------------------------------
(* install: publish the request file, then create.                         *)

AcquireRequestLock(p) ==
  /\ pc[p] = "reqLock"
  /\ reqLock[job[p].path] = Nil
  /\ reqLock' = [reqLock EXCEPT ![job[p].path] = p]
  /\ Goto(p, "persist")
  /\ UNCHANGED <<fsVars, reg, dbVars, objVars, gcShared, gcExcl, installLock,
                 dlLock, key, job, fetch, histVars>>

(* A new inode takes the place of the request file; with no inode left the *)
(* temporary file cannot be created and the call fails.                    *)
PersistRequest(p) ==
  /\ pc[p] = "persist"
  /\ \/ \E i \in FreeIno :
          /\ path' = [path EXCEPT ![job[p].path] = i]
          /\ content' = [content EXCEPT ![i] = key[p]]
          /\ stamp' = [stamp EXCEPT ![i] = clock + 1]
          /\ clock' = clock + 1
          /\ job' = [job EXCEPT ![p].ino = i]
          /\ Goto(p, "snapshot")
     \/ FreeIno = {} /\ Fail(p) /\ UNCHANGED fsVars
  /\ Reconsider(path', {u \in Path : u = job[p].path => owed[u] = key[p]})
  /\ UNCHANGED <<reg, dbVars, objVars, lockVars, key, fetch, calls, crashes>>

-----------------------------------------------------------------------------
(* create: snapshot and read the plan file, no lock held.                  *)

AlreadyRegistered(i) == reg[i] # Nil

PrepareSnapshot(p) ==
  LET i == path[job[p].path] IN
  /\ pc[p] = "snapshot"
  /\ IF i # Nil
        /\ (AlreadyRegistered(i) \/ Links(i) = 1)
        /\ (job[p].kind = "install" => i = job[p].ino)
       THEN /\ Goto(p, "readPlan")
            /\ job' = [job EXCEPT
                 ![p].ino = i,
                 ![p].stamp = stamp[i],
                 ![p].already = AlreadyRegistered(i),
                 ![p].minLinks = IF AlreadyRegistered(i) /\ Links(i) > 2
                                   THEN Links(i) ELSE 2,
                 ![p].raced = RemoveInFlight(i)]
       ELSE Fail(p)
  /\ UNCHANGED <<fsVars, reg, dbVars, objVars, lockVars, key, fetch, histVars>>

ReadPlan(p) ==
  LET i == path[job[p].path] IN
  /\ pc[p] = "readPlan"
  /\ IF i # Nil
       THEN /\ key' = [key EXCEPT ![p] = content[i]]
            /\ Goto(p, "gcShared")
            /\ UNCHANGED job
       ELSE Fail(p) /\ UNCHANGED key
  /\ UNCHANGED <<fsVars, reg, dbVars, objVars, lockVars, fetch, histVars>>

-----------------------------------------------------------------------------
(* create: the shared gc lock, then the installation's lock, then the      *)
(* check of the object; all three are kept until the call returns.         *)

AcquireGcShared(p, from, to) ==
  /\ pc[p] = from
  /\ SharedFree
  /\ gcShared' = gcShared \cup {p}
  /\ Goto(p, to)
  /\ UNCHANGED <<fsVars, reg, dbVars, objVars, gcExcl, installLock, dlLock,
                 reqLock, key, job, fetch, histVars>>

CreateAcquireGc(p) == AcquireGcShared(p, "gcShared", "installLock")

AcquireInstallLock(p) ==
  /\ pc[p] = "installLock"
  /\ InstallFree(key[p])
  /\ installLock' = [installLock EXCEPT ![key[p]] = p]
  /\ Goto(p, "check")
  /\ UNCHANGED <<fsVars, reg, dbVars, objVars, gcShared, gcExcl, dlLock,
                 reqLock, key, job, fetch, histVars>>

(* valid_object looks for the key file and the root directory only: an     *)
(* object whose contents are partly deleted passes, one without them is an *)
(* error.                                                                  *)
CheckCached(p) ==
  LET o == install[key[p]] IN
  /\ pc[p] = "check"
  /\ \/ o \in {"whole", "husk"} /\ Goto(p, "link") /\ UNCHANGED <<job, fetch>>
     \/ o = "stub" /\ Fail(p) /\ UNCHANGED fetch
     \/ /\ o = "none"
        /\ Goto(p, "build")
        /\ fetch' = [fetch EXCEPT ![p] =
             [d \in Dl |-> IF d \in Items[key[p]] THEN "want" ELSE "none"]]
        /\ UNCHANGED job
  /\ UNCHANGED <<fsVars, reg, dbVars, objVars, lockVars, key, histVars>>

-----------------------------------------------------------------------------
(* create: build an installation that is not there. Downloads are          *)
(* concurrent tasks, each under its own lock.                              *)

BuildUnchanged ==
  UNCHANGED <<fsVars, reg, dbVars, gcShared, gcExcl, installLock, reqLock, key, histVars>>

PrepareInstall(p) ==
  /\ pc[p] = "build"
  /\ ~job[p].staged
  /\ tmp' = tmp \cup {<<p, key[p]>>}
  /\ job' = [job EXCEPT ![p].staged = TRUE]
  /\ UNCHANGED <<install, dl, dlLock, pc, fetch>>
  /\ BuildUnchanged

AcquireDlLock(p, d) ==
  /\ fetch[p][d] = "want"
  /\ dlLock[d] = Nil
  /\ dlLock' = [dlLock EXCEPT ![d] = p]
  /\ fetch' = [fetch EXCEPT ![p][d] = "locked"]
  /\ UNCHANGED <<objVars, pc, job>>
  /\ BuildUnchanged

(* The end of a download task: the lock is dropped with it; a failure is   *)
(* the result of the call, whatever its other tasks still do.              *)
EndDownload(p, d, outcome) ==
  /\ fetch' = [fetch EXCEPT ![p][d] = outcome]
  /\ dlLock' = [dlLock EXCEPT ![d] = Nil]
  /\ job' = IF outcome = "failed" THEN [job EXCEPT ![p].failed = TRUE] ELSE job
  /\ UNCHANGED pc
  /\ BuildUnchanged

(* verify_download: the key file, and data of the plan's size and digest.  *)
VerifiedMutant(d) == dl[d] # "none"           \* mutant: as an installation is
Verified(d) == dl[d] = "whole"

(* The object exists: it is verified and reused, or the task fails.        *)
ReuseDownload(p, d) ==
  /\ fetch[p][d] = "locked"
  /\ dl[d] # "none"
  /\ EndDownload(p, d, IF Verified(d) THEN "done" ELSE "failed")
  /\ UNCHANGED objVars

StartDownload(p, d) ==
  /\ fetch[p][d] = "locked"
  /\ dl[d] = "none"
  /\ tmp' = tmp \cup {<<p, d>>}
  /\ fetch' = [fetch EXCEPT ![p][d] = "fetching"]
  /\ UNCHANGED <<install, dl, dlLock, pc, job>>
  /\ BuildUnchanged

(* Publication renames the staged directory; it fails when that directory  *)
(* is gone or the target exists.                                           *)
PublishDownload(p, d) ==
  LET ok == <<p, d>> \in tmp /\ dl[d] = "none" IN
  /\ fetch[p][d] = "fetching"
  /\ dl' = IF ok THEN [dl EXCEPT ![d] = "whole"] ELSE dl
  /\ tmp' = IF ok THEN tmp \ {<<p, d>>} ELSE tmp
  /\ EndDownload(p, d, IF ok THEN "done" ELSE "failed")
  /\ UNCHANGED install

FailDownload(p, d) ==
  /\ fetch[p][d] = "fetching"
  /\ tmp' = IF <<p, d>> \in tmp THEN (tmp \ {<<p, d>>}) \cup {<<Nil, d>>} ELSE tmp
  /\ EndDownload(p, d, "failed")
  /\ UNCHANGED <<install, dl>>

Downloaded(p) == \A d \in Items[key[p]] : fetch[p][d] = "done"
Drained(p) == \A d \in Dl : fetch[p][d] \in {"none", "done", "failed"}

(* Executing an item may fail once its download is there.                  *)
FailItem(p) ==
  /\ pc[p] = "build"
  /\ ~job[p].failed
  /\ job[p].staged
  /\ \E d \in Dl : fetch[p][d] = "done"
  /\ job' = [job EXCEPT ![p].failed = TRUE]
  /\ UNCHANGED <<objVars, dlLock, pc, fetch>>
  /\ BuildUnchanged

(* A failed call returns once all its tasks have ended.                    *)
AbandonBuild(p) ==
  /\ pc[p] = "build"
  /\ job[p].failed
  /\ job[p].staged
  /\ Drained(p)
  /\ Fail(p)
  /\ UNCHANGED <<objVars, dlLock, fetch>>
  /\ BuildUnchanged

PublishInstall(p) ==
  LET ok == <<p, key[p]>> \in tmp /\ install[key[p]] = "none" IN
  /\ pc[p] = "build"
  /\ ~job[p].failed
  /\ job[p].staged
  /\ Downloaded(p)
  /\ install' = IF ok THEN [install EXCEPT ![key[p]] = "whole"] ELSE install
  /\ tmp' = IF ok THEN tmp \ {<<p, key[p]>>} ELSE tmp
  /\ IF ok THEN Goto(p, "link") /\ UNCHANGED job ELSE Fail(p)
  /\ UNCHANGED <<dl, dlLock, fetch>>
  /\ BuildUnchanged

-----------------------------------------------------------------------------
(* create: register the plan file, the installation being there.           *)

HardLink(p) ==
  LET i == job[p].ino
      source == path[job[p].path] IN
  /\ pc[p] = "link"
  /\ IF job[p].already \/ reg[i] # Nil
       THEN Goto(p, "verify") /\ UNCHANGED <<reg, job>>
       ELSE IF source # Nil
              THEN /\ reg' = [reg EXCEPT ![i] = source]
                   /\ Goto(p, "verify")
                   /\ UNCHANGED job
              ELSE Fail(p) /\ UNCHANGED reg
  /\ UNCHANGED <<fsVars, dbVars, objVars, lockVars, key, fetch, histVars>>

(* The internal link is the file snapshotted, unmodified and still kept    *)
(* upstream.                                                               *)
VerifyRegistration(p) ==
  LET i == job[p].ino IN
  /\ pc[p] = "verify"
  /\ IF reg[i] = i /\ stamp[i] = job[p].stamp /\ Links(i) >= job[p].minLinks
       THEN Goto(p, "rowCheck") /\ UNCHANGED job
       ELSE Fail(p)
  /\ UNCHANGED <<fsVars, reg, dbVars, objVars, lockVars, key, fetch, histVars>>

(* The database does not bind the inode to another plan, in a transaction  *)
(* before the one that binds it.                                           *)
CheckRow(p) ==
  /\ pc[p] = "rowCheck"
  /\ IF row[job[p].ino] \in {Nil, key[p]}
       THEN Goto(p, "bind") /\ UNCHANGED job
       ELSE Fail(p)
  /\ UNCHANGED <<fsVars, reg, dbVars, objVars, lockVars, key, fetch, histVars>>

(* History: the owner of the file is promised the plan unless nobody keeps *)
(* the file any more, a remove that has read its inode overlaps this call, *)
(* or another call stands before its own upsert of the inode, to another   *)
(* plan: that one rebinds it (NeverRebound).                               *)
Promised(p) ==
  /\ ~job[p].raced
  /\ Upstream(job[p].ino) # {}
  /\ \A q \in Proc : pc[q] = "bind" /\ job[q].ino = job[p].ino => key[q] = key[p]

AddRequest(p) ==
  /\ pc[p] = "bind"
  /\ row' = [row EXCEPT ![job[p].ino] = key[p]]
  /\ kept' = [kept EXCEPT ![job[p].ino] = IF Promised(p) THEN key[p] ELSE Nil]
  /\ owed' = [u \in Path |-> IF Promised(p) /\ path[u] = job[p].ino
                               /\ content[path[u]] = key[p]
                            THEN key[p] ELSE owed[u]]
  /\ rel' = rel \cup ({key[p]} \X Items[key[p]])
  /\ job' = [job EXCEPT ![p].ok = TRUE]
  /\ Goto(p, "finish")
  /\ UNCHANGED <<fsVars, reg, objVars, lockVars, key, fetch, calls, crashes>>

-----------------------------------------------------------------------------
(* remove: forget a plan file's registration, under the shared gc lock.    *)

RemoveAcquireGc(p) == AcquireGcShared(p, "rmLock", "rmSnapshot")

(* History: the promise for that inode ends here, and the creates at work  *)
(* on it overlap this remove.                                              *)
RemoveSnapshot(p) ==
  LET i == path[job[p].path] IN
  /\ pc[p] = "rmSnapshot"
  /\ IF i # Nil
       THEN /\ job' = [q \in Proc |->
                 IF q = p THEN [job[p] EXCEPT !.ino = i]
                 ELSE IF job[q].ino = i THEN [job[q] EXCEPT !.raced = TRUE]
                 ELSE job[q]]
            /\ kept' = [kept EXCEPT ![i] = Nil]
            /\ owed' = Cancel(i)
            /\ Goto(p, "rmRow")
       ELSE Fail(p) /\ UNCHANGED promises
  /\ UNCHANGED <<fsVars, reg, dbVars, objVars, lockVars, key, fetch, calls, crashes>>

RemoveRow(p) ==
  /\ pc[p] = "rmRow"
  /\ row' = [row EXCEPT ![job[p].ino] = Nil]
  /\ Goto(p, "rmLink")
  /\ UNCHANGED <<fsVars, reg, rel, objVars, lockVars, key, job, fetch, histVars>>

RemoveLink(p) ==
  /\ pc[p] = "rmLink"
  /\ reg' = [reg EXCEPT ![job[p].ino] = Nil]
  /\ job' = [job EXCEPT ![p].ok = TRUE]
  /\ Goto(p, "finish")
  /\ UNCHANGED <<fsVars, dbVars, objVars, lockVars, key, fetch, histVars>>

-----------------------------------------------------------------------------
(* gc, under the exclusive gc lock.                                        *)

GcUnchanged == UNCHANGED <<fsVars, gcShared, installLock, dlLock, reqLock,
                           key, fetch, histVars>>

GcAcquire(p) ==
  /\ pc[p] = "gcLock"
  /\ ExclusiveFree
  /\ gcExcl' = p
  /\ Goto(p, "gcKnown")
  /\ UNCHANGED <<reg, dbVars, objVars, job>>
  /\ GcUnchanged

GcKnown(p) ==
  LET known == {i \in Ino : row[i] # Nil} IN
  /\ pc[p] = "gcKnown"
  /\ job' = [job EXCEPT ![p].known = known, ![p].todo = known]
  /\ Goto(p, "gcRows")
  /\ UNCHANGED <<reg, dbVars, objVars, gcExcl>>
  /\ GcUnchanged

(* Rows whose internal link is gone, one transaction each.                 *)
StaleRowMutant(i) == i \notin Ino             \* mutant: never
StaleRow(i) == reg[i] = Nil

GcStaleRow(p, i) ==
  /\ pc[p] = "gcRows"
  /\ i \in job[p].todo
  /\ row' = IF StaleRow(i) THEN [row EXCEPT ![i] = Nil] ELSE row
  /\ job' = [job EXCEPT ![p].todo = @ \ {i}]
  /\ UNCHANGED <<reg, rel, objVars, gcExcl, pc>>
  /\ GcUnchanged

GcListRequests(p) ==
  /\ pc[p] = "gcRows"
  /\ job[p].todo = {}
  /\ job' = [job EXCEPT ![p].todo = {n \in Ino : reg[n] # Nil}]
  /\ Goto(p, "gcScan")
  /\ UNCHANGED <<reg, dbVars, objVars, gcExcl>>
  /\ GcUnchanged

(* An entry nobody keeps upstream, or that the database did not know.      *)
AbandonedOffByOne(p, n) == Links(reg[n]) <= 2 \/ n \notin job[p].known  \* mutant
AbandonedUnlessTwo(p, n) == Links(reg[n]) # 2 \/ n \notin job[p].known  \* mutant
AbandonedIfKnown(p, n) == Links(reg[n]) = 1 /\ n \in job[p].known       \* mutant
Abandoned(p, n) == Links(reg[n]) = 1 \/ n \notin job[p].known

GcEntry(p, n) ==
  /\ pc[p] = "gcScan"
  /\ n \in job[p].todo
  /\ IF Abandoned(p, n)
       THEN /\ row' = IF n \in job[p].known THEN [row EXCEPT ![n] = Nil] ELSE row
            /\ job' = [job EXCEPT ![p].ino = n]
            /\ Goto(p, "gcUnlink")
       ELSE /\ job' = [job EXCEPT ![p].todo = @ \ {n}]
            /\ UNCHANGED <<row, pc>>
  /\ UNCHANGED <<reg, rel, objVars, gcExcl>>
  /\ GcUnchanged

GcUnlink(p) ==
  /\ pc[p] = "gcUnlink"
  /\ reg' = [reg EXCEPT ![job[p].ino] = Nil]
  /\ job' = [job EXCEPT ![p].todo = @ \ {job[p].ino}, ![p].ino = Nil]
  /\ Goto(p, "gcScan")
  /\ UNCHANGED <<dbVars, objVars, gcExcl>>
  /\ GcUnchanged

GcRelations(p) ==
  /\ pc[p] = "gcScan"
  /\ job[p].todo = {}
  /\ rel' = {r \in rel : r[1] \in LiveKeys}
  /\ job' = [job EXCEPT ![p].live = LiveKeys]
  /\ Goto(p, "gcInstalls")
  /\ UNCHANGED <<reg, row, objVars, gcExcl>>
  /\ GcUnchanged

GcSweepInstall(p, k) ==
  /\ pc[p] = "gcInstalls"
  /\ install[k] # "none"
  /\ k \notin job[p].live
  /\ install' = [install EXCEPT ![k] = "none"]
  /\ UNCHANGED <<reg, dbVars, dl, tmp, gcExcl, pc, job>>
  /\ GcUnchanged

GcInstallsSwept(p) ==
  /\ pc[p] = "gcInstalls"
  /\ \A k \in Plan : install[k] # "none" => k \in job[p].live
  /\ job' = [job EXCEPT ![p].live = LiveDls]
  /\ Goto(p, "gcDownloads")
  /\ UNCHANGED <<reg, dbVars, objVars, gcExcl>>
  /\ GcUnchanged

GcSweepDownload(p, d) ==
  /\ pc[p] = "gcDownloads"
  /\ dl[d] # "none"
  /\ d \notin job[p].live
  /\ dl' = [dl EXCEPT ![d] = "none"]
  /\ UNCHANGED <<reg, dbVars, install, tmp, gcExcl, pc, job>>
  /\ GcUnchanged

GcDownloadsSwept(p) ==
  /\ pc[p] = "gcDownloads"
  /\ \A d \in Dl : dl[d] # "none" => d \in job[p].live
  /\ Goto(p, "gcTmp")
  /\ UNCHANGED <<reg, dbVars, objVars, gcExcl, job>>
  /\ GcUnchanged

GcSweepTmp(p) ==
  /\ pc[p] = "gcTmp"
  /\ tmp' = {}
  /\ job' = [job EXCEPT ![p].ok = TRUE]
  /\ Goto(p, "finish")
  /\ UNCHANGED <<reg, dbVars, install, dl, gcExcl>>
  /\ GcUnchanged

-----------------------------------------------------------------------------
(* A process is killed: the system drops its locks, everything else it did *)
(* stays. A gc killed while it deletes an object's tree leaves part of it. *)

CrashUnchanged == UNCHANGED <<fsVars, reg, dbVars, calls, promises>>

Killed(p) ==
  /\ crashes < MaxCrashes
  /\ crashes' = crashes + 1
  /\ Retire(p)

Crash(p) ==
  /\ pc[p] # "idle"
  /\ Killed(p)
  /\ UNCHANGED <<install, dl>>
  /\ CrashUnchanged

CrashSweepingInstall(p, k) ==
  /\ pc[p] = "gcInstalls"
  /\ install[k] # "none"
  /\ k \notin job[p].live
  /\ Killed(p)
  /\ \E left \in {"husk", "stub"} : install' = [install EXCEPT ![k] = left]
  /\ UNCHANGED dl
  /\ CrashUnchanged

(* remove_dir_all was cut short, in no order of its own: the key file, the *)
(* data, or both are gone, and no reader of a download tells them apart.   *)
CrashSweepingDownload(p, d) ==
  /\ pc[p] = "gcDownloads"
  /\ dl[d] # "none"
  /\ d \notin job[p].live
  /\ Killed(p)
  /\ dl' = [dl EXCEPT ![d] = "torn"]
  /\ UNCHANGED install
  /\ CrashUnchanged

-----------------------------------------------------------------------------

CreateStep(p) ==
  \/ AcquireRequestLock(p) \/ PersistRequest(p)
  \/ PrepareSnapshot(p) \/ ReadPlan(p)
  \/ CreateAcquireGc(p) \/ AcquireInstallLock(p) \/ CheckCached(p)
  \/ PrepareInstall(p) \/ AbandonBuild(p) \/ PublishInstall(p)
  \/ \E d \in Dl : \/ AcquireDlLock(p, d) \/ ReuseDownload(p, d)
                   \/ StartDownload(p, d) \/ PublishDownload(p, d)
  \/ HardLink(p) \/ VerifyRegistration(p) \/ CheckRow(p) \/ AddRequest(p)

RemoveStep(p) ==
  \/ RemoveAcquireGc(p) \/ RemoveSnapshot(p) \/ RemoveRow(p) \/ RemoveLink(p)

GcStep(p) ==
  \/ GcAcquire(p) \/ GcKnown(p) \/ GcListRequests(p) \/ GcUnlink(p)
  \/ GcRelations(p) \/ GcInstallsSwept(p) \/ GcDownloadsSwept(p) \/ GcSweepTmp(p)
  \/ \E i \in Ino : GcStaleRow(p, i) \/ GcEntry(p, i)
  \/ \E k \in Plan : GcSweepInstall(p, k)
  \/ \E d \in Dl : GcSweepDownload(p, d)

ProcStep(p) == CreateStep(p) \/ RemoveStep(p) \/ GcStep(p) \/ Return(p)

SubmitAny(p) ==
  \/ \E u \in Path : SubmitCreate(p, u) \/ SubmitRemove(p, u)
  \/ \E u \in Path, k \in Plan : SubmitInstall(p, u, k)
  \/ SubmitGc(p)

EffectFailure(p) == FailItem(p) \/ \E d \in Dl : FailDownload(p, d)

CrashAny(p) ==
  \/ Crash(p)
  \/ \E k \in Plan : CrashSweepingInstall(p, k)
  \/ \E d \in Dl : CrashSweepingDownload(p, d)

UserStep ==
  \/ \E u \in Path, k \in Plan : UserWrite(u, k) \/ UserEdit(u, k)
  \/ \E u, v \in Path : UserLink(u, v)
  \/ \E u \in Path : UserUnlink(u)

(* The bound on calls is reached and every call has returned.              *)
Quiet ==
  /\ calls = MaxCalls
  /\ \A p \in Proc : pc[p] = "idle"
  /\ UNCHANGED vars

Next ==
  \/ UserStep
  \/ \E p \in Proc : SubmitAny(p) \/ ProcStep(p) \/ EffectFailure(p) \/ CrashAny(p)
  \/ Quiet

Spec == Init /\ [][Next]_vars

(* A live process keeps taking steps; a lock file is polled every 100 ms   *)
(* without a queue, so a waiter is only sure to get a lock that stays      *)
(* free. A download that neither completes nor fails is not excluded by    *)
(* the code, so each transfer is assumed to end.                           *)
Fairness == \A p \in Proc : WF_vars(ProcStep(p))
FairSpec == Spec /\ Fairness

-----------------------------------------------------------------------------
(* Properties.                                                             *)

(* Everything the database references is there: gc never deletes an        *)
(* installation, or a download, between the moment a create found or       *)
(* published it and the moment it registers it, nor while it is registered *)
(* (register_create, gc_locked, and the gc lock both take).                *)
RowsBacked ==
  \A i \in Ino : row[i] # Nil =>
    /\ install[row[i]] # "none"
    /\ \A d \in Items[row[i]] : dl[d] = "whole"

(* What a build stages and uses stays under it until it is renamed into    *)
(* place: no gc sweeps the temporary directory of a live call, no other    *)
(* call publishes the same object first, and the downloads it unpacked are *)
(* still there (PublishInstall and apply_download under their locks).      *)
StagingSafe ==
  \A p \in Proc :
    /\ pc[p] = "build" =>
         /\ install[key[p]] = "none"
         /\ job[p].staged => <<p, key[p]>> \in tmp
    /\ \A d \in Dl :
         /\ fetch[p][d] = "fetching" => <<p, d>> \in tmp /\ dl[d] = "none"
         /\ fetch[p][d] = "done" => dl[d] = "whole"

(* What Ok means to the owner of a plan file: until the file's last        *)
(* upstream link goes, a remove reads its inode, or another create binds   *)
(* it, the registration, the internal link and the installation all stay,  *)
(* whatever other calls, gc and crashes do (Store::create, Store::remove,  *)
(* Store::gc). Promised says which Ok counts: not that of a create that    *)
(* overlaps a remove of its inode or a create about to bind the inode to   *)
(* another plan.                                                           *)
KeptInstalled ==
  \A i \in Ino : kept[i] # Nil =>
    row[i] = kept[i] /\ reg[i] = i /\ install[kept[i]] # "none"

(* A gc that returns has left nothing unreferenced behind: no installation,*)
(* download or temporary directory without a registered request, no row    *)
(* without its link and no link without its row (Store::gc).               *)
GcExact ==
  \A p \in Proc : pc[p] = "finish" /\ job[p].kind = "gc" =>
    /\ \A k \in Plan : install[k] # "none" => k \in LiveKeys
    /\ \A d \in Dl : dl[d] # "none" => d \in LiveDls
    /\ tmp = {}
    /\ \A i \in Ino : row[i] = Nil <=> reg[i] = Nil

(* A download torn by a killed gc stays as it is until a gc sweeps it, and *)
(* until then no create of a plan that names it succeeds: not one that     *)
(* builds, which no download repairs, nor one that finds the installation  *)
(* cached and never looks at its downloads (apply_download, gc_locked).    *)
TornUntilGc ==
  [][\A d \in Dl : dl[d] = "torn" =>
       /\ dl'[d] # dl[d] =>
            \E p \in Proc : /\ gcExcl = p
                            /\ pc[p] = "gcDownloads"
                            /\ d \notin job[p].live
       /\ \A p \in Proc : pc[p] = "bind" /\ pc'[p] = "finish" => d \notin Items[key[p]]]_vars

(* Every call returns, whatever the others do: the request, gc, install    *)
(* and download locks are taken in an order that never closes a cycle.     *)
CallsReturn == \A p \in Proc : pc[p] # "idle" ~> pc[p] = "idle"

(* The store implements reference-counted possession of plans.             *)
Intent == INSTANCE ImosIntent WITH
  bound <- row, have <- {k \in Plan : install[k] # "none"}
ImplementsIntent == Intent!Spec

(* A plan file that was installed, still in place and still asking for the *)
(* same plan, keeps its installation.                                      *)
PresenceKeepsInstall == \A u \in Path : owed[u] # Nil => install[owed[u]] # "none"

(* A registered installation is complete.                                  *)
RegisteredWhole == \A i \in Ino : row[i] # Nil => install[row[i]] = "whole"

(* A request inode bound to a plan key is not bound to another one before  *)
(* it is removed.                                                          *)
NeverRebound ==
  [][\A i \in Ino : row[i] # Nil /\ row'[i] # Nil => row'[i] = row[i]]_vars
=============================================================================
