------------------------- MODULE UpdateTransaction -------------------------
(***************************************************************************)
(* The transactional component updater of the appliance                    *)
(* (assets/runtime/xaac_update_runtime.py): apply_update, manual_rollback, *)
(* restore_latest_configuration and recover_interrupted, run by the        *)
(* administrators' xaac-update-admin processes and by the boot service     *)
(* xaac-update-recover.service, over the files they leave on the disk.     *)
(* Every step that changes a durable file is an action of its own, so a    *)
(* power loss (Reboot) or a Ctrl-C or hang-up (Interrupt) can fall between *)
(* any two of them.                                                        *)
(***************************************************************************)
EXTENDS Naturals, FiniteSets

CONSTANTS
  Components,     \* the packages a manifest names
  Versions,       \* package versions, ordered as dpkg orders them
  Manifests,      \* signed component sets, each a function of Components
  Baseline,       \* the set the image ships, with its .debs in the cache
  Defective,      \* the sets that install but never pass the health check
  Admins,         \* processes running xaac-update-admin
  BootService,    \* the process of xaac-update-recover.service
  None,           \* no process, no manifest
  Commands,       \* which of "update", "rollback", "restore" are used
  Faults,         \* which of "reboot", "interrupt", "io", "rollback" happen
  MkdirExistOk,   \* FALSE: _cache_candidates as written; TRUE: with exist_ok
  RecoveryFirst,  \* no command runs before the boot service has finished
  MaxPoints,      \* recovery_point.max_points of the policy
  MaxTx,          \* bound: updates started
  MaxFaults       \* bound: faults of the kinds in Faults

TxIds == 1..MaxTx

ASSUME ConstantsOK ==
  /\ Components # {}
  /\ Versions \subseteq Nat
  /\ Manifests \subseteq [Components -> Versions]
  /\ Defective \subseteq Manifests
  /\ Baseline \in Manifests \ Defective
  /\ BootService \notin Admins
  /\ None \notin Admins \cup {BootService} \cup Manifests
  /\ {MkdirExistOk, RecoveryFirst} \subseteq BOOLEAN
  /\ MaxPoints \in Nat \ {0}
  /\ {MaxTx, MaxFaults} \subseteq Nat

VARIABLES
  installed,  \* dpkg's database: version and configured flag of a component
  cache,      \* package_cache: the .deb of a version, absent, torn or whole
  points,     \* recovery-points/<txid>
  staging,    \* staging/<txid> directories
  current,    \* current-release.json
  blocked,    \* blocked-versions.json
  disk,       \* transaction-state.json
  holder,     \* who holds the flock on xaac-update.lock
  pc,         \* what the holder does next
  target,     \* the manifest the holder installs, None for a rollback
  tx,         \* the transaction, or the recovery point, the holder works on
  todo,       \* components the current loop has still to treat
  verified,   \* manifest an administrator has verified, before taking the lock
  boot,       \* where recover_interrupted is in this boot
  readTx,     \* the transaction recover_interrupted read from disk
  lastTx,     \* transactions started so far
  faults      \* faults so far

onDisk == <<installed, cache, points, staging, current, blocked, disk>>
run    == <<holder, pc, target, tx, todo>>
waiting == <<verified, boot, readTx>>
bounds == <<lastTx, faults>>
vars   == <<onDisk, run, waiting, bounds>>

----------------------------------------------------------------------------
(* What the files can hold. *)

Interrupted == {"installing", "validating", "rolling_back"}

Status == Interrupted \cup
  {"idle", "preparing", "confirmed", "rolled_back", "rollback_failed",
   "rolled_back_manual", "rolled_back_after_interruption",
   "configuration_restored_manual"}

Point == [kind : {"none", "dir", "ready"},
          pkgs : [Components -> Versions] \cup {None},
          rel  : Manifests \cup {None}]

NoPoint  == [kind |-> "none", pkgs |-> None, rel |-> None]
EmptyDir == [NoPoint EXCEPT !.kind = "dir"]

UpdatePcs == {"stage", "mkpoint", "fillpoint", "begin", "unpack", "configure",
              "restart", "health", "cache", "publish", "confirm", "prune",
              "clean"}
RollbackPcs == {"rb_check", "rb_unpack", "rb_configure", "rb_health",
                "rb_release", "rb_block", "rb_record"}

TypeOK ==
  /\ installed \in [Components -> [ver : Versions, conf : BOOLEAN]]
  /\ cache \in [Components -> [Versions -> {"absent", "torn", "whole"}]]
  /\ points \in [TxIds -> Point]
  /\ staging \subseteq TxIds
  /\ current \in Manifests
  /\ blocked \subseteq [tx : TxIds, pkgs : Manifests]
  /\ disk \in [status : Status, tx : 0..MaxTx]
  /\ holder \in Admins \cup {BootService, None}
  /\ pc \in {"idle"} \cup UpdatePcs \cup RollbackPcs
  /\ target \in Manifests \cup {None}
  /\ tx \in 0..MaxTx
  /\ todo \subseteq Components
  /\ verified \in [Admins -> Manifests \cup {None}]
  /\ boot \in {"pending", "read", "locked", "done"}
  /\ readTx \in 0..MaxTx
  /\ lastTx \in 0..MaxTx
  /\ faults \in 0..MaxFaults

Init ==
  /\ installed = [c \in Components |-> [ver |-> Baseline[c], conf |-> TRUE]]
  /\ cache = [c \in Components |->
                [v \in Versions |-> IF v = Baseline[c] THEN "whole" ELSE "absent"]]
  /\ points = [t \in TxIds |-> NoPoint]
  /\ staging = {}
  /\ current = Baseline
  /\ blocked = {}
  /\ disk = [status |-> "idle", tx |-> 0]
  /\ holder = None /\ pc = "idle" /\ target = None /\ tx = 0 /\ todo = {}
  /\ verified = [p \in Admins |-> None]
  /\ boot = "pending" /\ readTx = 0
  /\ lastTx = 0 /\ faults = 0

----------------------------------------------------------------------------
(* Helpers. *)

Installed(m) == \A c \in Components : installed[c] = [ver |-> m[c], conf |-> TRUE]

HealthOK(m) == m \notin Defective /\ Installed(m)

IsBlocked(m) == \E b \in blocked : b.pkgs = m

Ready(t) == points[t].kind = "ready"

(* Every package the point names still has its .deb in the cache. *)
DebsPresent(t) ==
  \A c \in Components : cache[c][points[t].pkgs[c]] # "absent"

(* _latest_recovery_point: directories are created in transaction order    *)
(* under the lock, so the newest modification time is the highest id.      *)
IsLatest(t) == Ready(t) /\ \A u \in TxIds : Ready(u) => u <= t

(* A fault of a kind that the instance allows; it uses up the budget. *)
Fault(kind) == kind \in Faults /\ faults < MaxFaults /\ faults' = faults + 1

Release ==
  /\ holder' = None /\ pc' = "idle" /\ target' = None /\ tx' = 0 /\ todo' = {}

(* The holder goes on to step p, with the components of s to treat there. *)
Goto(p, s) == pc' = p /\ todo' = s /\ UNCHANGED <<holder, target, tx>>

(* One component of a loop done: stay, or go on to step p with set s. *)
Done(c, p, s) == IF todo = {c} THEN Goto(p, s) ELSE Goto(pc, todo \ {c})

Record(status, t) == disk' = [status |-> status, tx |-> t]

----------------------------------------------------------------------------
(* Administrators, before and around the lock. *)

MayRun(p) == (RecoveryFirst => boot = "done") /\ holder # p /\ verified[p] = None

(* verify_manifest: the preflight (dpkg audit, every component installed)  *)
(* and the refusal of downgrades.  It runs outside the lock.               *)
VerifyManifest(p, m) ==
  /\ "update" \in Commands /\ MayRun(p)
  /\ \A c \in Components : installed[c].conf /\ m[c] >= installed[c].ver
  /\ verified' = [verified EXCEPT ![p] = m]
  /\ UNCHANGED <<onDisk, run, boot, readTx, bounds>>

(* Mutation: the state is recorded once, before there is a recovery point. *)
StartUpdateInstalling(p) ==
  /\ verified[p] # None /\ holder = None /\ lastTx < MaxTx
  /\ holder' = p /\ target' = verified[p] /\ tx' = lastTx + 1
  /\ pc' = "stage" /\ todo' = {}
  /\ verified' = [verified EXCEPT ![p] = None]
  /\ lastTx' = lastTx + 1
  /\ Record("installing", lastTx + 1)
  /\ UNCHANGED <<installed, cache, points, staging, current, blocked, boot, readTx,
                 faults>>

(* apply_update takes the lock and overwrites the recorded state.          *)
StartUpdate(p) ==
  /\ verified[p] # None /\ holder = None /\ lastTx < MaxTx
  /\ holder' = p /\ target' = verified[p] /\ tx' = lastTx + 1
  /\ pc' = "stage" /\ todo' = {}
  /\ verified' = [verified EXCEPT ![p] = None]
  /\ lastTx' = lastTx + 1
  /\ Record("preparing", lastTx + 1)
  /\ UNCHANGED <<installed, cache, points, staging, current, blocked, boot, readTx,
                 faults>>

(* _lock does not wait: the command gives up.                              *)
RefuseUpdate(p) ==
  /\ verified[p] # None /\ holder # None
  /\ verified' = [verified EXCEPT ![p] = None]
  /\ UNCHANGED <<onDisk, run, boot, readTx, bounds>>

(* manual_rollback: nothing is recorded until it has succeeded.            *)
StartRollback(p) ==
  /\ "rollback" \in Commands /\ MayRun(p) /\ holder = None
  /\ \E t \in TxIds : IsLatest(t) /\ tx' = t
  /\ holder' = p /\ target' = None /\ pc' = "rb_check" /\ todo' = {}
  /\ UNCHANGED <<onDisk, waiting, bounds>>

(* restore_latest_configuration, whole: the archive is extracted and the   *)
(* recorded state replaced, whatever it was.                               *)
RestoreConfiguration(p) ==
  /\ "restore" \in Commands /\ MayRun(p) /\ holder = None
  /\ \E t \in TxIds : IsLatest(t) /\ Record("configuration_restored_manual", t)
  /\ UNCHANGED <<installed, cache, points, staging, current, blocked, run, waiting,
                 bounds>>

----------------------------------------------------------------------------
(* apply_update, under the lock, up to the confirmation. *)

(* Mutation: the registry of blocked combinations is not consulted.        *)
StageBundleUnchecked ==
  /\ pc = "stage"
  /\ staging' = staging \cup {tx}
  /\ Goto("mkpoint", {})
  /\ UNCHANGED <<installed, cache, points, current, blocked, disk, waiting, bounds>>

StageBundle ==
  /\ pc = "stage" /\ ~IsBlocked(target)
  /\ staging' = staging \cup {tx}
  /\ Goto("mkpoint", {})
  /\ UNCHANGED <<installed, cache, points, current, blocked, disk, waiting, bounds>>

MakePointDirectory ==
  /\ pc = "mkpoint"
  /\ points' = [points EXCEPT ![tx] = EmptyDir]
  /\ Goto("fillpoint", {})
  /\ UNCHANGED <<installed, cache, staging, current, blocked, disk, waiting, bounds>>

(* Mutation: the .debs of the installed versions are not looked for.       *)
RollbackPossibleUncached == \A c \in Components : installed[c].conf

(* Every component is configured and its installed .deb is in the cache.   *)
RollbackPossible ==
  \A c \in Components : installed[c].conf /\ cache[c][installed[c].ver] # "absent"

(* Mutation: the manifest of the candidate is kept, not the current one.   *)
FillPointOfCandidate ==
  /\ pc = "fillpoint" /\ RollbackPossible
  /\ points' = [points EXCEPT ![tx] =
       [kind |-> "ready", rel |-> target,
        pkgs |-> [c \in Components |-> installed[c].ver]]]
  /\ Goto("begin", {})
  /\ UNCHANGED <<installed, cache, staging, current, blocked, disk, waiting, bounds>>

FillPoint ==
  /\ pc = "fillpoint" /\ RollbackPossible
  /\ points' = [points EXCEPT ![tx] =
       [kind |-> "ready", rel |-> current,
        pkgs |-> [c \in Components |-> installed[c].ver]]]
  /\ Goto("begin", {})
  /\ UNCHANGED <<installed, cache, staging, current, blocked, disk, waiting, bounds>>

(* A refusal or an error before "installing": the recorded state stays     *)
(* "preparing" and the directories made so far stay.                       *)
AbortUpdate ==
  /\ pc \in {"stage", "mkpoint", "fillpoint"}
  /\ staging' \in {staging, staging \cup {tx}}
  /\ Release
  /\ UNCHANGED <<installed, cache, points, current, blocked, disk, waiting, bounds>>

(* With every version installed already nothing is unpacked.               *)
BeginInstall ==
  /\ pc = "begin"
  /\ Record("installing", tx)
  /\ IF \A c \in Components : installed[c] = [ver |-> target[c], conf |-> TRUE]
     THEN Goto("restart", {}) ELSE Goto("unpack", Components)
  /\ UNCHANGED <<installed, cache, points, staging, current, blocked, waiting, bounds>>

UnpackPackage(c) ==
  /\ pc = "unpack" /\ c \in todo
  /\ installed' = [installed EXCEPT ![c] = [ver |-> target[c], conf |-> FALSE]]
  /\ Done(c, "configure", Components)
  /\ UNCHANGED <<cache, points, staging, current, blocked, disk, waiting, bounds>>

ConfigurePackage(c) ==
  /\ pc = "configure" /\ c \in todo
  /\ installed' = [installed EXCEPT ![c] = [ver |-> @.ver, conf |-> TRUE]]
  /\ Done(c, "restart", {})
  /\ UNCHANGED <<cache, points, staging, current, blocked, disk, waiting, bounds>>

RestartChanged ==
  /\ pc = "restart"
  /\ Record("validating", tx)
  /\ Goto("health", {})
  /\ UNCHANGED <<installed, cache, points, staging, current, blocked, waiting, bounds>>

PassHealthCheck ==
  /\ pc = "health" /\ HealthOK(target)
  /\ Goto("cache", Components)
  /\ UNCHANGED <<onDisk, waiting, bounds>>

(* target.parent.mkdir(parents=True) fails when the directory is there,    *)
(* and it is there once any .deb of the package has been cached.           *)
MkdirWorks(c) ==
  MkdirExistOk \/ \A v \in Versions : cache[c][v] = "absent"

CacheCandidate(c) ==
  /\ pc = "cache" /\ c \in todo /\ MkdirWorks(c)
  /\ cache[c][target[c]] # "torn"
  /\ cache' = [cache EXCEPT ![c][target[c]] = "whole"]
  /\ Done(c, "publish", {})
  /\ UNCHANGED <<installed, points, staging, current, blocked, disk, waiting, bounds>>

PublishRelease ==
  /\ pc = "publish"
  /\ current' = target
  /\ Goto("confirm", {})
  /\ UNCHANGED <<installed, cache, points, staging, blocked, disk, waiting, bounds>>

Confirm ==
  /\ pc = "confirm"
  /\ Record("confirmed", tx)
  /\ Goto("prune", {})
  /\ UNCHANGED <<installed, cache, points, staging, current, blocked, waiting, bounds>>

(* Writing "confirmed" fails: the handler sees a confirmed transaction,    *)
(* does not roll back, and the disk goes on saying "validating".           *)
LoseConfirmation ==
  /\ pc = "confirm" /\ Fault("io")
  /\ Release
  /\ UNCHANGED <<onDisk, waiting, lastTx>>

(* Points, complete or not, newest first, up to MaxPoints; keep stays.     *)
Retained(keep) ==
  {t \in TxIds : \/ t = keep
                 \/ Cardinality({u \in TxIds : u > t /\ points[u].kind # "none"})
                      < MaxPoints}

PrunePoints ==
  /\ pc = "prune"
  /\ points' = [t \in TxIds |-> IF t \in Retained(tx) THEN points[t] ELSE NoPoint]
  /\ Goto("clean", {})
  /\ UNCHANGED <<installed, cache, staging, current, blocked, disk, waiting, bounds>>

(* The audit record or the pruning fails after the confirmation.           *)
LoseCleanup ==
  /\ pc = "prune" /\ Fault("io")
  /\ Release
  /\ UNCHANGED <<onDisk, waiting, lastTx>>

RemoveStaging ==
  /\ pc = "clean"
  /\ staging' = staging \ {tx}
  /\ Release
  /\ UNCHANGED <<installed, cache, points, current, blocked, disk, waiting, bounds>>

----------------------------------------------------------------------------
(* Failures of an update whose recovery point exists, and the rollback. *)

(* shutil.copy2 into the cache is not atomic: stopping it leaves half a    *)
(* .deb under its final name.                                              *)
MayTearCopy ==
  \/ cache' = cache
  \/ /\ pc = "cache"
     /\ \E c \in todo : /\ MkdirWorks(c) /\ cache[c][target[c]] = "absent"
                        /\ cache' = [cache EXCEPT ![c][target[c]] = "torn"]

(* Mutation: the health check waits for ever for a service that is down.   *)
UpdateStepFailsNotHealth ==
  \/ pc \in {"unpack", "configure", "restart"} /\ UNCHANGED faults
  \/ pc \in {"begin", "cache", "publish"} /\ Fault("io")

(* dpkg, a restart or the health check may fail at any time; the remaining *)
(* steps fail when the code makes them fail, or on an I/O error.           *)
UpdateStepFails ==
  \/ pc \in {"unpack", "configure", "restart", "health"} /\ UNCHANGED faults
  \/ /\ pc = "cache" /\ UNCHANGED faults
     /\ \E c \in todo : ~MkdirWorks(c) \/ cache[c][target[c]] = "torn"
  \/ pc \in {"begin", "cache", "publish"} /\ Fault("io")

FailUpdate ==
  /\ UpdateStepFails /\ MayTearCopy
  /\ Record("rolling_back", tx)
  /\ Goto("rb_check", {})
  /\ UNCHANGED <<installed, points, staging, current, blocked, waiting, lastTx>>

(* _rollback_from_recovery: metadata, then every .deb, then dpkg.          *)
CheckRollback ==
  /\ pc = "rb_check" /\ Ready(tx) /\ DebsPresent(tx)
  /\ Goto("rb_unpack", Components)
  /\ UNCHANGED <<onDisk, waiting, bounds>>

UnpackPrevious(c) ==
  /\ pc = "rb_unpack" /\ c \in todo
  /\ cache[c][points[tx].pkgs[c]] = "whole"
  /\ installed' = [installed EXCEPT ![c] = [ver |-> points[tx].pkgs[c], conf |-> FALSE]]
  /\ Done(c, "rb_configure", Components)
  /\ UNCHANGED <<cache, points, staging, current, blocked, disk, waiting, bounds>>

ConfigurePrevious(c) ==
  /\ pc = "rb_configure" /\ c \in todo
  /\ installed' = [installed EXCEPT ![c] = [ver |-> @.ver, conf |-> TRUE]]
  /\ Done(c, "rb_health", {})
  /\ UNCHANGED <<cache, points, staging, current, blocked, disk, waiting, bounds>>

(* Configuration restored, services restarted, health check passed.        *)
PassRollbackCheck ==
  /\ pc = "rb_health" /\ HealthOK(points[tx].pkgs)
  /\ Goto("rb_release", {})
  /\ UNCHANGED <<onDisk, waiting, bounds>>

(* Mutation: the state is recorded without marking the combination.        *)
RestoreReleaseUnblocked ==
  /\ pc = "rb_release"
  /\ current' = points[tx].rel
  /\ Goto("rb_record", {})
  /\ UNCHANGED <<installed, cache, points, staging, blocked, disk, waiting, bounds>>

RestoreRelease ==
  /\ pc = "rb_release"
  /\ current' = points[tx].rel
  /\ Goto(IF target # None THEN "rb_block" ELSE "rb_record", {})
  /\ UNCHANGED <<installed, cache, points, staging, blocked, disk, waiting, bounds>>

(* Only apply_update marks the combination it has rolled back.             *)
BlockFailed ==
  /\ pc = "rb_block"
  /\ blocked' = blocked \cup {[tx |-> tx, pkgs |-> target]}
  /\ Goto("rb_record", {})
  /\ UNCHANGED <<installed, cache, points, staging, current, disk, waiting, bounds>>

RollbackStatus ==
  CASE target # None -> "rolled_back"
    [] holder = BootService -> "rolled_back_after_interruption"
    [] OTHER -> "rolled_back_manual"

BootOver == boot' = IF holder = BootService THEN "done" ELSE boot

RecordRollback ==
  /\ pc = "rb_record"
  /\ Record(RollbackStatus, tx)
  /\ Release /\ BootOver
  /\ UNCHANGED <<installed, cache, points, staging, current, blocked, verified, readTx,
                 bounds>>

RollbackStepFails ==
  \/ pc = "rb_check" /\ ~(Ready(tx) /\ DebsPresent(tx)) /\ UNCHANGED faults
  \/ /\ pc = "rb_unpack" /\ UNCHANGED faults
     /\ \E c \in todo : cache[c][points[tx].pkgs[c]] # "whole"
  \/ pc = "rb_health" /\ ~HealthOK(points[tx].pkgs) /\ UNCHANGED faults
  \/ pc \in RollbackPcs /\ Fault("rollback")

(* apply_update records the failure; the two others leave the record as it *)
(* is.  Nobody tries again before an administrator or the next boot does.  *)
FailRollback ==
  /\ RollbackStepFails
  /\ IF target # None THEN Record("rollback_failed", tx) ELSE UNCHANGED disk
  /\ Release /\ BootOver
  /\ UNCHANGED <<installed, cache, points, staging, current, blocked, verified, readTx,
                 lastTx>>

----------------------------------------------------------------------------
(* recover_interrupted, run once in every boot. *)

(* Mutation: a rollback that was cut is not taken up again.                *)
ReadStateNotRollingBack ==
  /\ boot = "pending"
  /\ IF disk.status \in {"installing", "validating"} /\ Ready(disk.tx)
     THEN boot' = "read" /\ readTx' = disk.tx
     ELSE boot' = "done" /\ readTx' = 0
  /\ UNCHANGED <<onDisk, run, verified, bounds>>

(* The recorded state and the metadata are read before the lock is taken.  *)
ReadState ==
  /\ boot = "pending"
  /\ IF disk.status \in Interrupted /\ Ready(disk.tx)
     THEN boot' = "read" /\ readTx' = disk.tx
     ELSE boot' = "done" /\ readTx' = 0
  /\ UNCHANGED <<onDisk, run, verified, bounds>>

StartRecovery ==
  /\ boot = "read" /\ holder = None
  /\ holder' = BootService /\ target' = None /\ tx' = readTx
  /\ pc' = "rb_check" /\ todo' = {}
  /\ boot' = "locked" /\ readTx' = 0
  /\ UNCHANGED <<onDisk, verified, bounds>>

RefuseRecovery ==
  /\ boot = "read" /\ holder # None
  /\ boot' = "done" /\ readTx' = 0
  /\ UNCHANGED <<onDisk, run, verified, bounds>>

----------------------------------------------------------------------------
(* Faults. *)

(* Ctrl-C or a hang-up ends an administrator's command: KeyboardInterrupt  *)
(* and SIGHUP pass by "except Exception", and the lock is freed.           *)
Interrupt ==
  /\ holder \in Admins /\ Fault("interrupt")
  /\ MayTearCopy /\ Release
  /\ UNCHANGED <<installed, points, staging, current, blocked, disk, waiting, lastTx>>

(* Power loss or reboot: the files stay, the processes and the lock do not. *)
Reboot ==
  /\ Fault("reboot")
  /\ MayTearCopy /\ Release
  /\ verified' = [p \in Admins |-> None]
  /\ boot' = "pending" /\ readTx' = 0
  /\ UNCHANGED <<installed, points, staging, current, blocked, disk, lastTx>>

----------------------------------------------------------------------------
(* What the process holding the lock may do next. *)
UpdateStep ==
  \/ StageBundle \/ MakePointDirectory \/ FillPoint \/ AbortUpdate \/ BeginInstall
  \/ \E c \in Components : \/ UnpackPackage(c) \/ ConfigurePackage(c)
                           \/ CacheCandidate(c)
  \/ RestartChanged \/ PassHealthCheck \/ PublishRelease \/ Confirm
  \/ LoseConfirmation \/ PrunePoints \/ LoseCleanup \/ RemoveStaging \/ FailUpdate

RollbackStep ==
  \/ CheckRollback \/ PassRollbackCheck \/ RestoreRelease \/ BlockFailed
  \/ RecordRollback \/ FailRollback
  \/ \E c \in Components : UnpackPrevious(c) \/ ConfigurePrevious(c)

AdminStep(p) ==
  \/ \E m \in Manifests : VerifyManifest(p, m)
  \/ StartUpdate(p) \/ RefuseUpdate(p) \/ StartRollback(p) \/ RestoreConfiguration(p)

BootStep == ReadState \/ StartRecovery \/ RefuseRecovery

Next ==
  \/ UpdateStep \/ RollbackStep \/ BootStep
  \/ \E p \in Admins : AdminStep(p)
  \/ Interrupt \/ Reboot

Spec == Init /\ [][Next]_vars

(* Every command the holder runs has a timeout, so it returns; systemd     *)
(* starts the boot service.  Nobody obliges an administrator to act.       *)
Fairness == WF_vars(UpdateStep \/ RollbackStep) /\ WF_vars(BootStep)

FairSpec == Spec /\ Fairness

----------------------------------------------------------------------------
(* Properties. *)

(* While the record says an update was interrupted, the recovery point it  *)
(* names is complete and every .deb it needs is in the cache: apply_update *)
(* checks this before it writes "installing", and nothing undoes it.       *)
EvidenceRestorable ==
  disk.status \in Interrupted => Ready(disk.tx) /\ DebsPresent(disk.tx)

(* The same, and the rollback must succeed: the .debs are whole and the    *)
(* set of versions to go back to is one that passes its health check.      *)
InterruptedIsRecoverable ==
  disk.status \in Interrupted =>
    /\ Ready(disk.tx)
    /\ points[disk.tx].pkgs \in Manifests \ Defective
    /\ \A c \in Components : cache[c][points[disk.tx].pkgs[c]] = "whole"

(* Nobody at work and nothing recorded for the next boot: the components   *)
(* are all configured, belong to one release that passes its health check, *)
(* and current-release.json names it (atomic_component_set of the policy). *)
Settled == holder = None /\ disk.status \notin Interrupted \cup {"rollback_failed"}

SettledIsReleased == Settled => HealthOK(current)

(* A complete recovery point pairs the versions of one good release with   *)
(* that release's own manifest, so rolling back to it leads somewhere.     *)
PointsAreKnownGood ==
  \A t \in TxIds : Ready(t) => /\ points[t].pkgs = points[t].rel
                               /\ points[t].pkgs \notin Defective

(* Once "rolled_back" is recorded the combination is in the registry, even *)
(* if the power goes between the two writes.                               *)
RolledBackIsBlocked ==
  disk.status = "rolled_back" => \E b \in blocked : b.tx = disk.tx

(* No package of a blocked combination is unpacked by an update, however   *)
(* long before the failure the manifest was verified.                      *)
BlockedNeverInstalled ==
  [][\A m \in Manifests :
       pc = "unpack" /\ target = m /\ installed' # installed => ~IsBlocked(m)]_vars

(* With no fault so far, an update whose health check has passed is not    *)
(* rolled back.                                                            *)
HealthyUpdateIsKept ==
  [][pc = "cache" /\ faults = 0 => pc' # "rb_check"]_vars

(* Whoever takes the lock gives it back.                                   *)
LockReleased == holder # None ~> holder = None

(* A boot that finds an interrupted update rolls it back.                  *)
BootRecovers ==
  boot = "pending" /\ disk.status \in Interrupted ~> disk.status \notin Interrupted
=============================================================================
