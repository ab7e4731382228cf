--------------------- MODULE RecoveryEnvironmentProofs ---------------------
(***************************************************************************)
(* The two channels and the recovery environment over one dpkg database,   *)
(* for every number of administrators, every set of packages and whatever  *)
(* Debian publishes.                                                       *)
(*                                                                         *)
(* The channels do not know each other, so each part of the invariant says *)
(* what one of them relies on the other not to do: Processes says who may  *)
(* be behind dpkg's lock, and what it may then unpack.                     *)
(***************************************************************************)
EXTENDS RecoveryEnvironment, TLAPS

-----------------------------------------------------------------------------
(* The invariant. *)

Checking == {"idle", "preflight", "refresh", "simulate", "record"}
Changing == {"install", "installing", "repair", "repairing", "health"}

(* dpkg's lock has one owner, who is where its code waits for the command.
   The base channel unpacks base packages at versions that a plan has named,
   the component channel unpacks components, and a repair unpacks nothing. *)
Processes ==
  /\ \A a \in Admin : dpkg.by = a <=> run[a].pc \in {"installing", "repairing"}
  /\ dpkg.by = Updater <=> comp.pc \in {"unpacking", "configuring"}
  /\ dpkg.by = Repairer <=> repair = "configuring"
  /\ dpkg.by = None => dpkg = NoCommand
  /\ \A pv \in dpkg.unpack :
       \/ dpkg.by \in Admin /\ pv[1] \in Base /\ pv \in approved
       \/ dpkg.by = Updater /\ pv[1] \in Component

(* The lock of the base updater, and what is true of whoever holds it. *)
Locking ==
  \A a \in Admin :
    /\ run[a].update <=> lock = a
    /\ run[a].pc = "idle" => lock # a
    /\ run[a].pc \notin Checking => lock = a
    /\ mode = "recovery" => run[a].pc \in {"idle", "preflight"}

(* The state file tells of base packages that are half installed: while the
   holder of the lock looks and downloads there are none, and while it
   changes the system the file says so. *)
Telling ==
  /\ half \cap Base # {} => status \in {"installing", "failed_requires_recovery"} \/ raced
  /\ \A a \in Admin :
       /\ run[a].pc \in Changing => status = "installing" \/ raced
       /\ lock = a /\ run[a].pc \notin Changing \cup {"preflight"} => half \cap Base = {}

(* Neither a plan nor a file in the cache is newer than the index, which
   only grows; when apt installs, a file is in the plan or of no use. *)
Cached ==
  /\ \A pv \in debs : pv[2] <= Archive[index][pv[1]]
  /\ \A a \in Admin :
       /\ \A c \in run[a].plan : c.to <= Archive[index][c.pkg]
       /\ run[a].pc \in {"snapshot", "download", "verify", "install"} =>
            Targets(run[a].plan) \subseteq approved
       /\ run[a].pc = "install" =>
            \A pv \in debs : \/ pv[2] <= version[pv[1]]
                             \/ \E c \in run[a].plan : c.pkg = pv[1] /\ pv[2] <= c.to

(* The record is that of the operation the component updater is in; a point
   taken of a set that was whole gives a whole set back. *)
Recording ==
  /\ comp.pc = "idle" <=> comp.how = "none"
  /\ comp.how = "update" => record = "installing"
  /\ comp.how = "auto" => record = "rolling_back"
  /\ comp.how = "boot" => Interrupted
  /\ evidenceLost \/ \A p, q \in Component : point[p] = point[q]
  /\ MixtureIsRecorded

(* A repair is of a recovery boot, in which no base update gets anywhere. *)
Repairing ==
  /\ repair # "idle" => mode = "recovery"
  /\ audited => comp = Resting /\ mode = "recovery" /\ half = {}

Inv == TypeOK /\ Processes /\ Locking /\ Telling /\ Cached /\ OnlyApprovedInstalled
         /\ Recording /\ Repairing

-----------------------------------------------------------------------------
(* Types, the Booleans apart. *)

Pcs == {"idle", "preflight", "refresh", "simulate", "record", "snapshot", "download",
        "verify", "install", "installing", "repair", "repairing", "health"}
Plans == SUBSET [pkg : Base, from : Nat, to : Nat]
Runs == [pc : Pcs, update : BOOLEAN, plan : Plans]

DatabaseTyped ==
  /\ version \in [Package -> Nat]
  /\ half \subseteq Package
  /\ dpkg \in [by : Admin \cup {None, Updater, Repairer},
               unpack : SUBSET (Package \X Nat), configure : SUBSET Package]
  /\ faults \in 0 .. MaxFaults

BaseTyped ==
  /\ mode \in {"normal", "recovery"}
  /\ archive \in DOMAIN Archive /\ index \in 1 .. archive
  /\ debs \subseteq Base \X Nat
  /\ lock \in Admin \cup {None}
  /\ status \in {"idle", "current", "available", "downloading", "installing",
                 "completed", "failed_requires_recovery"}
  /\ run \in [Admin -> Runs]
  /\ approved \subseteq Base \X Nat

ComponentTyped ==
  /\ record \in {"idle", "installing", "rolling_back", "confirmed", "rolled_back",
                 "rollback_failed", "configuration_restored"}
  /\ point \in [Component -> Nat]
  /\ target \in 0 .. MaxRelease
  /\ comp \in [pc : {"idle", "unpack", "unpacking", "configure", "configuring", "health"},
               how : {"none", "update", "auto", "manual", "recovery", "boot"}]
  /\ repair \in {"idle", "configure", "configuring", "audit", "rebuild"}
  /\ report \in {"ready", "error"}

Booleans == raced \in BOOLEAN /\ evidenceLost \in BOOLEAN /\ audited \in BOOLEAN

Typed == DatabaseTyped /\ BaseTyped /\ ComponentTyped

LEMMA TypedIs == TypeOK <=> Typed /\ Booleans
BY Zenon DEF TypeOK, Typed, DatabaseTyped, BaseTyped, ComponentTyped, Booleans, Runs, Pcs, Plans

\* A command goes on: it keeps its kind and its plan, and the others theirs.
LEMMA GotoMoves ==
  ASSUME run \in [Admin -> Runs], NEW a \in Admin, NEW pc \in Pcs, Goto(a, pc)
  PROVE  /\ run' \in [Admin -> Runs]
         /\ run'[a].pc = pc /\ run'[a].update = run[a].update /\ run'[a].plan = run[a].plan
         /\ \A b \in Admin \ {a} : run'[b] = run[b]
BY DEF Goto, Runs

\* A command ends, and gives its lock back.
LEMMA ReturnEnds ==
  ASSUME run \in [Admin -> Runs], NEW a \in Admin, Return(a)
  PROVE  /\ run' \in [Admin -> Runs]
         /\ run'[a] = Idle
         /\ \A b \in Admin \ {a} : run'[b] = run[b]
         /\ lock # a => lock' = lock
         /\ lock = a => lock' = None
BY DEF Return, Idle, Runs, Pcs, Plans

LEMMA LaunchTyped ==
  ASSUME DatabaseTyped, NEW who \in Admin \cup {Updater, Repairer},
         NEW unpack \in SUBSET (Package \X Nat), NEW configure \in SUBSET Package,
         Launch(who, unpack, configure)
  PROVE  DatabaseTyped'
BY DEF Launch, DatabaseTyped

LEMMA CommandEndsTyped ==
  ASSUME DatabaseTyped, NEW who, Succeeds(who) \/ Fails(who)
  PROVE  DatabaseTyped'
BY BaseAssumption DEF Succeeds, Fails, NoCommand, DatabaseTyped

\* What Debian has published and what the index says are versions.
LEMMA ArchiveTyped ==
  /\ \A i \in DOMAIN Archive : Archive[i] \in [Base -> Nat]
  /\ DOMAIN Archive = 1 .. Len(Archive) /\ Len(Archive) \in Nat
BY BaseAssumption

LEMMA UpgradeTyped ==
  ASSUME DatabaseTyped, BaseTyped
  PROVE  Upgrade \in Plans /\ Targets(Upgrade) \subseteq Base \X Nat
<1>1. index \in DOMAIN Archive
  BY ArchiveTyped DEF BaseTyped
<1>2. \A p \in Base : Archive[index][p] \in Nat /\ version[p] \in Nat
  BY <1>1, ArchiveTyped, BaseAssumption DEF DatabaseTyped
<1>3. Upgrade \in Plans
  BY <1>2 DEF Upgrade, Plans
<1> QED
  BY <1>3 DEF Targets, Plans

LEMMA PlanTyped ==
  ASSUME BaseTyped, NEW a \in Admin
  PROVE  run[a].plan \in Plans /\ Targets(run[a].plan) \subseteq Base \X Nat
<1>1. run[a].plan \in Plans
  BY DEF BaseTyped, Runs
<1> QED
  BY <1>1 DEF Targets, Plans

LEMMA TypedInit == RecoveryInit => Typed /\ Booleans
<1> SUFFICES ASSUME RecoveryInit PROVE Typed /\ Booleans
  OBVIOUS
<1>1. Booleans
  BY Zenon DEF RecoveryInit, Init, Booleans
<1>2. DatabaseTyped
  BY BaseAssumption DEF RecoveryInit, Init, DatabaseInit, DatabaseTyped, NoCommand
<1>3. BaseTyped
  BY BaseAssumption, ArchiveTyped DEF RecoveryInit, Init, BaseTyped, Idle, Runs, Pcs, Plans
<1>4. ComponentTyped
  BY RecoveryAssumption DEF RecoveryInit, ComponentTyped, Resting
<1> QED
  BY <1>1, <1>2, <1>3, <1>4 DEF Typed

LEMMA BaseStepTyped ==
  ASSUME DatabaseTyped, BaseTyped, NEW a \in Admin, UpdateStep(a) \/ BaseCommand(a)
  PROVE  DatabaseTyped' /\ BaseTyped'
<1>1. CASE StartCheck(a)
  <2>1. run' \in [Admin -> Runs]
    BY <1>1, GotoMoves DEF StartCheck, BaseTyped, Pcs
  <2> QED BY <1>1, <2>1 DEF StartCheck, dpkgVars, DatabaseTyped, BaseTyped
<1>2. CASE StartUpdate(a)
  <2>1. run' \in [Admin -> Runs]
    BY <1>2 DEF StartUpdate, BaseTyped, Runs, Pcs, Plans
  <2> QED BY <1>2, <2>1 DEF StartUpdate, dpkgVars, DatabaseTyped, BaseTyped
<1>3. CASE Preflight(a) \/ Refresh(a)
  <2>1. run' \in [Admin -> Runs]
    BY <1>3, GotoMoves DEF Preflight, Refresh, BaseTyped, Pcs
  <2> QED BY <1>3, <2>1, ArchiveTyped DEF Preflight, Refresh, fixed, dpkgVars, DatabaseTyped, BaseTyped
<1>4. CASE Simulate(a)
  <2>1. run' \in [Admin -> Runs]
    BY <1>4, UpgradeTyped DEF Simulate, BaseTyped, Runs, Pcs
  <2> QED BY <1>4, <2>1 DEF Simulate, fixed, dpkgVars, DatabaseTyped, BaseTyped
<1>5. CASE RecordPlan(a)
  <2>1. approved' \subseteq Base \X Nat
    BY <1>5, PlanTyped DEF RecordPlan, BaseTyped
  <2>2. run' \in [Admin -> Runs] /\ lock' \in Admin \cup {None}
    <3>1. CASE Goto(a, "snapshot") /\ UNCHANGED lock
      BY <3>1, GotoMoves DEF BaseTyped, Pcs
    <3>2. CASE Return(a)
      BY <3>2, ReturnEnds DEF BaseTyped
    <3> QED BY <1>5, <3>1, <3>2 DEF RecordPlan
  <2>3. status' \in {"current", "available"}
    BY <1>5 DEF RecordPlan, WriteState
  <2> QED BY <1>5, <2>1, <2>2, <2>3 DEF RecordPlan, fixed, dpkgVars, DatabaseTyped, BaseTyped
<1>6. CASE PreflightRefuses(a) \/ CheckFails(a)
  <2>1. run' \in [Admin -> Runs] /\ lock' \in Admin \cup {None}
    BY <1>6, ReturnEnds DEF PreflightRefuses, CheckFails, BaseTyped
  <2> QED BY <1>6, <2>1 DEF PreflightRefuses, CheckFails, fixed, dpkgVars, DatabaseTyped, BaseTyped
<1>7. CASE Snapshot(a) \/ VerifyPlan(a)
  <2>1. run' \in [Admin -> Runs]
    BY <1>7, GotoMoves DEF Snapshot, VerifyPlan, BaseTyped, Pcs
  <2> QED
    BY <1>7, <2>1 DEF Snapshot, VerifyPlan, WriteState, fixed, dpkgVars, DatabaseTyped, BaseTyped
<1>8. CASE Download(a)
  <2>1. run' \in [Admin -> Runs]
    BY <1>8, GotoMoves DEF Download, BaseTyped, Pcs
  <2> QED BY <1>8, <2>1, UpgradeTyped DEF Download, fixed, dpkgVars, DatabaseTyped, BaseTyped
<1>9. CASE Install(a)
  <2>1. run' \in [Admin -> Runs]
    BY <1>9, GotoMoves DEF Install, BaseTyped, Pcs
  <2>2. Targets(Upgrade) \subseteq Package \X Nat /\ {c.pkg : c \in Upgrade} \subseteq Package
    BY UpgradeTyped, BaseAssumption DEF Plans
  <2>3. DatabaseTyped'
    BY <1>9, <2>2, LaunchTyped DEF Install
  <2> QED BY <1>9, <2>1, <2>3 DEF Install, fixed, BaseTyped
<1>10. CASE InstallImpossible(a)
  <2>1. run' \in [Admin -> Runs]
    BY <1>10, GotoMoves DEF InstallImpossible, BaseTyped, Pcs
  <2> QED BY <1>10, <2>1 DEF InstallImpossible, fixed, dpkgVars, DatabaseTyped, BaseTyped
<1>11. CASE Installed(a) \/ InstallFails(a) \/ Repaired(a)
  <2>1. run' \in [Admin -> Runs]
    BY <1>11, GotoMoves DEF Installed, InstallFails, Repaired, BaseTyped, Pcs
  <2>2. DatabaseTyped'
    BY <1>11, CommandEndsTyped DEF Installed, InstallFails, Repaired
  <2> QED BY <1>11, <2>1, <2>2 DEF Installed, InstallFails, Repaired, fixed, BaseTyped
<1>12. CASE Repair(a)
  <2>1. run' \in [Admin -> Runs]
    BY <1>12, GotoMoves DEF Repair, BaseTyped, Pcs
  <2>2. half \subseteq Package
    BY DEF DatabaseTyped
  <2>3. DatabaseTyped'
    BY <1>12, <2>2, LaunchTyped DEF Repair
  <2> QED BY <1>12, <2>1, <2>3 DEF Repair, fixed, BaseTyped
<1>13. CASE Complete(a)
  <2>1. run' \in [Admin -> Runs] /\ lock' \in Admin \cup {None}
    BY <1>13, ReturnEnds DEF Complete, BaseTyped
  <2> QED BY <1>13, <2>1 DEF Complete, WriteState, fixed, dpkgVars, DatabaseTyped, BaseTyped
<1>14. CASE UpdateFails(a)
  <2>1. run' \in [Admin -> Runs] /\ lock' \in Admin \cup {None}
    BY <1>14, ReturnEnds DEF UpdateFails, BaseTyped
  <2>2. DatabaseTyped'
    BY <1>14, CommandEndsTyped DEF UpdateFails, dpkgVars, DatabaseTyped
  <2> QED BY <1>14, <2>1, <2>2 DEF UpdateFails, WriteState, fixed, BaseTyped
<1>15. CASE Interrupt(a)
  <2>1. run' \in [Admin -> Runs] /\ lock' \in Admin \cup {None}
    BY <1>15, ReturnEnds DEF Interrupt, BaseTyped
  <2> QED BY <1>15, <2>1 DEF Interrupt, NoCommand, fixed, DatabaseTyped, BaseTyped
<1> QED
  BY <1>1, <1>2, <1>3, <1>4, <1>5, <1>6, <1>7, <1>8, <1>9, <1>10, <1>11, <1>12, <1>13, <1>14,
    <1>15 DEF UpdateStep, BaseCommand

LEMMA ComponentStepTyped ==
  ASSUME DatabaseTyped, ComponentTyped, ComponentStep
  PROVE  DatabaseTyped' /\ ComponentTyped'
<1> USE RecoveryAssumption
<1>1. CASE ComponentUnpack
  <2>1. Wanted \in [Component -> Nat]
    BY DEF Wanted, ComponentTyped
  <2>2. {<<p, Wanted[p]>> : p \in Component} \subseteq Package \X Nat
    BY <2>1
  <2>3. DatabaseTyped'
    BY <1>1, <2>2, LaunchTyped DEF ComponentUnpack
  <2> QED BY <1>1, <2>3 DEF ComponentUnpack, recoveryVars, ComponentTyped
<1>2. CASE ComponentConfigure
  <2>1. DatabaseTyped'
    BY <1>2, LaunchTyped DEF ComponentConfigure
  <2> QED BY <1>2, <2>1 DEF ComponentConfigure, recoveryVars, ComponentTyped
<1>3. CASE ComponentCommandDone
  <2>1. DatabaseTyped'
    BY <1>3, CommandEndsTyped DEF ComponentCommandDone
  <2> QED BY <1>3, <2>1 DEF ComponentCommandDone, recoveryVars, ComponentTyped
<1>4. CASE ComponentFails
  <2>1. CASE UNCHANGED dpkgVars
    BY <1>4, <2>1 DEF ComponentFails, Resting, WriteReport, dpkgVars, DatabaseTyped, ComponentTyped
  <2>2. CASE Fails(Updater)
    <3>1. DatabaseTyped'
      BY <2>2, CommandEndsTyped
    <3> QED BY <1>4, <3>1 DEF ComponentFails, Resting, WriteReport, ComponentTyped
  <2>3. CASE faults < MaxFaults /\ faults' = faults + 1 /\ UNCHANGED <<version, half, dpkg>>
    BY <1>4, <2>3, BaseAssumption
    DEF ComponentFails, Resting, WriteReport, DatabaseTyped, ComponentTyped
  <2> QED BY <1>4, <2>1, <2>2, <2>3 DEF ComponentFails, ComponentCommandFails
<1>5. CASE ComponentDone
  BY <1>5 DEF ComponentDone, Resting, WriteReport, dpkgVars, DatabaseTyped, ComponentTyped
<1> QED
  BY <1>1, <1>2, <1>3, <1>4, <1>5 DEF ComponentStep

LEMMA RepairStepTyped ==
  ASSUME DatabaseTyped, ComponentTyped, RepairStep
  PROVE  DatabaseTyped' /\ ComponentTyped'
<1>1. CASE RepairConfigure
  <2>1. half \subseteq Package
    BY DEF DatabaseTyped
  <2>2. DatabaseTyped'
    BY <1>1, <2>1, LaunchTyped DEF RepairConfigure
  <2> QED BY <1>1, <2>2 DEF RepairConfigure, repairUnchanged, componentVars, ComponentTyped
<1>2. CASE RepairConfigured
  <2>1. DatabaseTyped'
    BY <1>2, CommandEndsTyped DEF RepairConfigured
  <2> QED BY <1>2, <2>1 DEF RepairConfigured, repairUnchanged, componentVars, ComponentTyped
<1>3. CASE RepairAudit \/ RepairDone
  BY <1>3 DEF RepairAudit, RepairDone, WriteReport, repairUnchanged, componentVars, dpkgVars,
    DatabaseTyped, ComponentTyped
<1>4. CASE RepairFails
  <2>1. DatabaseTyped'
    BY <1>4, CommandEndsTyped DEF RepairFails, dpkgVars, DatabaseTyped
  <2> QED BY <1>4, <2>1 DEF RepairFails, WriteReport, repairUnchanged, componentVars, ComponentTyped
<1> QED
  BY <1>1, <1>2, <1>3, <1>4 DEF RepairStep

LEMMA TypedStep ==
  ASSUME Typed, [RecoveryNext]_vars
  PROVE  Typed'
<1> USE DEF Typed
<1>1. CASE DatabaseStep /\ UNCHANGED <<baseVars, OtherVars>>
  <2>1. DatabaseTyped'
    BY <1>1 DEF DatabaseStep, UnpackOne, ConfigureOne, DatabaseTyped
  <2> QED
    BY <1>1, <2>1 DEF baseVars, baseState, OtherVars, componentVars, recoveryVars, BaseTyped,
      ComponentTyped
<1>2. CASE DebianPublishes /\ UNCHANGED OtherVars
  <2>1. DatabaseTyped' /\ ComponentTyped'
    BY <1>2 DEF DebianPublishes, dpkgVars, OtherVars, componentVars, recoveryVars, DatabaseTyped,
      ComponentTyped
  <2>2. BaseTyped'
    BY <1>2, ArchiveTyped DEF DebianPublishes, BaseTyped
  <2> QED BY <2>1, <2>2
<1>3. ASSUME NEW a \in Admin, UpdateStep(a) \/ BaseCommand(a), UNCHANGED OtherVars
      PROVE  Typed'
  BY <1>3, BaseStepTyped DEF OtherVars, componentVars, recoveryVars, ComponentTyped
<1>4. CASE ComponentUpdate \/ Rollback("manual") \/ Rollback("recovery")
  BY <1>4, RecoveryAssumption DEF ComponentUpdate, Rollback, dpkgVars, baseState, recoveryVars,
    DatabaseTyped, BaseTyped, ComponentTyped
<1>5. CASE ComponentStep
  <2>1. UNCHANGED baseVars
    BY <1>5 DEF ComponentStep, ComponentUnpack, ComponentConfigure, ComponentCommandDone,
      ComponentFails, ComponentDone
  <2> QED BY <1>5, <2>1, ComponentStepTyped DEF baseVars, baseState, BaseTyped
<1>6. CASE ComponentInterrupt
  BY <1>6 DEF ComponentInterrupt, Resting, NoCommand, baseVars, baseState, recoveryVars,
    DatabaseTyped, BaseTyped, ComponentTyped
<1>7. CASE RestoreConfiguration
  BY <1>7 DEF RestoreConfiguration, WriteReport, dpkgVars, baseState, DatabaseTyped, BaseTyped,
    ComponentTyped
<1>8. CASE StartRepair \/ SetNetwork
  BY <1>8 DEF StartRepair, SetNetwork, WriteReport, dpkgVars, baseVars, baseState, componentVars,
    DatabaseTyped, BaseTyped, ComponentTyped
<1>9. CASE RepairStep
  <2>1. UNCHANGED baseVars
    BY <1>9 DEF RepairStep, RepairConfigure, RepairConfigured, RepairAudit, RepairDone, RepairFails,
      repairUnchanged
  <2> QED BY <1>9, <2>1, RepairStepTyped DEF baseVars, baseState, BaseTyped
<1>10. CASE Reboot
  <2>1. run' \in [Admin -> Runs]
    BY <1>10 DEF Reboot, BaseReboot, Idle, Runs, Pcs, Plans
  <2> QED
    BY <1>10, <2>1 DEF Reboot, BaseReboot, Resting, NoCommand, DatabaseTyped, BaseTyped,
      ComponentTyped
<1>11. CASE UNCHANGED vars
  BY <1>11 DEF vars, dpkgVars, baseVars, baseState, componentVars, recoveryVars, DatabaseTyped,
    BaseTyped, ComponentTyped
<1> QED
  BY <1>1, <1>2, <1>3, <1>4, <1>5, <1>6, <1>7, <1>8, <1>9, <1>10, <1>11 DEF RecoveryNext, Menu

LEMMA BooleansStep ==
  ASSUME Booleans, [RecoveryNext]_vars
  PROVE  Booleans'
<1>1. CASE DatabaseStep /\ UNCHANGED <<baseVars, OtherVars>>
  BY <1>1, Zenon DEF baseVars, baseState, OtherVars, history, Booleans
<1>2. CASE DebianPublishes /\ UNCHANGED OtherVars
  BY <1>2, Zenon DEF DebianPublishes, OtherVars, history, Booleans
<1>3. ASSUME NEW a \in Admin, UpdateStep(a) \/ BaseCommand(a), UNCHANGED OtherVars
      PROVE  Booleans'
  <2>1. raced' \in BOOLEAN
    BY <1>3, Zenon DEF UpdateStep, BaseCommand, StartCheck, StartUpdate, Interrupt, Preflight,
      PreflightRefuses, Refresh, Simulate, RecordPlan, CheckFails, Snapshot, Download, VerifyPlan,
      Install, InstallImpossible, Installed, InstallFails, Repair, Repaired, Complete, UpdateFails,
      Booleans
  <2> QED BY <1>3, <2>1, Zenon DEF OtherVars, history, Booleans
<1>4. CASE ComponentUpdate \/ Rollback("manual") \/ Rollback("recovery") \/ RestoreConfiguration
  BY <1>4, Zenon DEF ComponentUpdate, Rollback, RestoreConfiguration, baseState, Booleans
<1>5. CASE ComponentStep
  BY <1>5, Zenon DEF ComponentStep, ComponentUnpack, ComponentConfigure, ComponentCommandDone,
    ComponentFails, ComponentDone, baseVars, baseState, history, Booleans
<1>6. CASE ComponentInterrupt
  BY <1>6, Zenon DEF ComponentInterrupt, baseVars, baseState, Booleans
<1>7. CASE StartRepair \/ SetNetwork
  BY <1>7, Zenon DEF StartRepair, SetNetwork, baseVars, baseState, history, Booleans
<1>8. CASE RepairStep
  BY <1>8, Zenon DEF RepairStep, RepairConfigure, RepairConfigured, RepairAudit, RepairDone,
    RepairFails, repairUnchanged, baseVars, baseState, Booleans
<1>9. CASE Reboot
  BY <1>9, Zenon DEF Reboot, BaseReboot, Booleans
<1>10. CASE UNCHANGED vars
  BY <1>10, Zenon DEF vars, baseVars, baseState, history, Booleans
<1> QED
  BY <1>1, <1>2, <1>3, <1>4, <1>5, <1>6, <1>7, <1>8, <1>9, <1>10 DEF RecoveryNext, Menu

(***************************************************************************)
(* Every variable stays in its type.                                       *)
(***************************************************************************)
THEOREM RecoveryTypesCorrect == Spec => []TypeOK
<1>1. RecoveryInit => Typed /\ Booleans
  BY TypedInit
<1>2. Typed /\ [RecoveryNext]_vars => Typed'
  BY TypedStep
<1>3. Booleans /\ [RecoveryNext]_vars => Booleans'
  BY BooleansStep
<1> QED
  BY <1>1, <1>2, <1>3, TypedIs, PTL DEF Spec

-----------------------------------------------------------------------------
(* dpkg's lock. *)

\* The processes are not each other.
LEMMA Distinct ==
  /\ Updater # Repairer /\ Updater # None /\ Repairer # None
  /\ Updater \notin Admin /\ Repairer \notin Admin /\ None \notin Admin
BY BaseAssumption, RecoveryAssumption

\* Archive[i] only grows with i.
LEMMA ArchiveGrows ==
  ASSUME NEW i \in DOMAIN Archive, NEW j \in DOMAIN Archive, i <= j, NEW p \in Base
  PROVE  /\ Archive[i][p] \in Nat /\ Archive[j][p] \in Nat
         /\ Archive[i][p] <= Archive[j][p]
BY ArchiveTyped, BaseAssumption

\* A file that apt finds in the cache for what it wants to install now is
\* the one the plan has named.
LEMMA InstallsApproved ==
  ASSUME Typed, Cached, NEW a \in Admin, Install(a)
  PROVE  Targets(Upgrade) \subseteq approved
<1> SUFFICES ASSUME NEW u \in Upgrade
             PROVE  <<u.pkg, u.to>> \in approved
  BY DEF Targets
<1>1. index \in DOMAIN Archive /\ u.pkg \in Base /\ u.to = Archive[index][u.pkg]
        /\ u.to > version[u.pkg] /\ u.to \in Nat /\ version[u.pkg] \in Nat
  BY ArchiveTyped, BaseAssumption DEF Upgrade, Typed, BaseTyped, DatabaseTyped
<1>2. <<u.pkg, u.to>> \in debs
  BY Zenon DEF Install, Targets
<1>3. PICK c \in run[a].plan : c.pkg = u.pkg /\ u.to <= c.to
  <2>1. run[a].pc = "install"
    BY DEF Install, At
  <2> QED BY <1>1, <1>2, <2>1 DEF Cached
<1>4. c.to <= Archive[index][u.pkg] /\ c.to \in Nat
  BY <1>3, PlanTyped DEF Cached, Typed, Plans
<1>5. c.to = u.to
  BY <1>1, <1>3, <1>4
<1>6. <<c.pkg, c.to>> \in approved
  BY <1>3 DEF Cached, Install, At, Targets
<1> QED
  BY <1>3, <1>5, <1>6

\* A step of the base updater that leaves dpkg alone.
LEMMA ProcessesKept ==
  ASSUME Processes, NEW a \in Admin,
         run[a].pc \notin {"installing", "repairing"}, run'[a].pc \notin {"installing", "repairing"},
         \A b \in Admin \ {a} : run'[b] = run[b],
         approved \subseteq approved', UNCHANGED <<dpkg, comp, repair>>
  PROVE  Processes'
BY DEF Processes

\* A command that begins: nobody else has one.
LEMMA LaunchedBy ==
  ASSUME Typed, Processes, NEW who, NEW unpack, NEW configure, Launch(who, unpack, configure)
  PROVE  /\ dpkg'.by = who /\ dpkg'.unpack = unpack
         /\ \A a \in Admin : run[a].pc \notin {"installing", "repairing"}
         /\ comp.pc \notin {"unpacking", "configuring"} /\ repair # "configuring"
<1>1. dpkg.by = None
  BY DEF Launch, Locked, NoCommand
<1> QED
  BY <1>1, Distinct DEF Processes, Launch

\* And one that ends leaves the lock free.
LEMMA EndedBy ==
  ASSUME NEW who, Succeeds(who) \/ Fails(who)
  PROVE  dpkg.by = who /\ dpkg' = NoCommand /\ dpkg'.by = None /\ dpkg'.unpack = {}
BY DEF Succeeds, Fails, NoCommand

LEMMA BaseProcesses ==
  ASSUME Typed, Processes, Cached, NEW a \in Admin, UpdateStep(a) \/ BaseCommand(a),
         UNCHANGED OtherVars
  PROVE  Processes'
<1> USE Distinct
<1>0. run \in [Admin -> Runs] /\ UNCHANGED <<comp, repair>>
  BY DEF Typed, BaseTyped, OtherVars, componentVars, recoveryVars
<1>1. CASE \/ StartCheck(a) \/ Preflight(a) \/ Refresh(a) \/ Snapshot(a) \/ Download(a)
           \/ VerifyPlan(a) \/ InstallImpossible(a)
  <2>1. PICK pc \in Pcs \ {"installing", "repairing"} : Goto(a, pc)
    BY <1>1 DEF StartCheck, Preflight, Refresh, Snapshot, Download, VerifyPlan, InstallImpossible, Pcs
  <2>2. run[a].pc \notin {"installing", "repairing"} /\ UNCHANGED <<dpkg, approved>>
    BY <1>1 DEF StartCheck, Preflight, Refresh, Snapshot, Download, VerifyPlan, InstallImpossible, At,
      dpkgVars
  <2> QED BY <1>0, <2>1, <2>2, GotoMoves, ProcessesKept
<1>2. CASE StartUpdate(a)
  BY <1>0, <1>2, ProcessesKept DEF StartUpdate, At, dpkgVars, Runs
<1>3. CASE Simulate(a)
  BY <1>0, <1>3, ProcessesKept DEF Simulate, At, dpkgVars, Runs
<1>4. CASE RecordPlan(a)
  <2>1. run[a].pc = "record" /\ UNCHANGED dpkg /\ approved \subseteq approved'
    BY <1>4 DEF RecordPlan, At, dpkgVars
  <2>2. Goto(a, "snapshot") \/ Return(a)
    BY <1>4 DEF RecordPlan
  <2>3. /\ run'[a].pc \notin {"installing", "repairing"}
        /\ \A b \in Admin \ {a} : run'[b] = run[b]
    BY <1>0, <2>2, GotoMoves, ReturnEnds DEF Pcs, Idle
  <2> QED BY <1>0, <2>1, <2>3, ProcessesKept
<1>5. CASE PreflightRefuses(a) \/ CheckFails(a) \/ Complete(a)
  <2>1. /\ run[a].pc \notin {"installing", "repairing"} /\ UNCHANGED <<dpkg, approved>>
        /\ Return(a)
    BY <1>5 DEF PreflightRefuses, CheckFails, Complete, At, dpkgVars
  <2> QED BY <1>0, <2>1, ReturnEnds, ProcessesKept DEF Idle
<1>6. CASE Install(a)
  <2>1. Targets(Upgrade) \subseteq approved /\ Targets(Upgrade) \subseteq Base \X Nat
    BY <1>6, InstallsApproved, UpgradeTyped DEF Typed
  <2>2. dpkg'.by = a /\ dpkg'.unpack = Targets(Upgrade)
    BY <1>6, LaunchedBy DEF Install
  <2>3. /\ run'[a].pc = "installing" /\ \A b \in Admin \ {a} : run'[b] = run[b]
        /\ approved' = approved
    BY <1>0, <1>6, GotoMoves DEF Install, Pcs
  <2> QED BY <1>0, <1>6, <2>1, <2>2, <2>3, LaunchedBy DEF Install, Processes
<1>7. CASE Repair(a)
  <2>1. dpkg'.by = a /\ dpkg'.unpack = {}
    BY <1>7, LaunchedBy DEF Repair
  <2>2. run'[a].pc = "repairing" /\ \A b \in Admin \ {a} : run'[b] = run[b]
    BY <1>0, <1>7, GotoMoves DEF Repair, Pcs
  <2> QED BY <1>0, <1>7, <2>1, <2>2, LaunchedBy DEF Repair, Processes
<1>8. CASE Installed(a) \/ InstallFails(a) \/ Repaired(a)
  <2>1. dpkg.by = a /\ dpkg' = NoCommand /\ dpkg'.by = None /\ dpkg'.unpack = {}
    BY <1>8, EndedBy DEF Installed, InstallFails, Repaired
  <2>2. /\ run'[a].pc \notin {"installing", "repairing"}
        /\ \A b \in Admin \ {a} : run'[b] = run[b]
    BY <1>0, <1>8, GotoMoves DEF Installed, InstallFails, Repaired, Pcs
  <2> QED BY <1>0, <2>1, <2>2 DEF Processes
<1>9. CASE UpdateFails(a)
  <2>1. run'[a].pc = "idle" /\ (\A b \in Admin \ {a} : run'[b] = run[b]) /\ approved' = approved
    BY <1>0, <1>9, ReturnEnds DEF UpdateFails, Idle
  <2>2. CASE run[a].pc \in {"installing", "repairing"}
    <3>1. Fails(a)
      BY <1>9, <2>2 DEF UpdateFails
    <3> QED BY <1>0, <2>1, <3>1, EndedBy DEF Processes
  <2>3. CASE run[a].pc \notin {"installing", "repairing"}
    BY <1>0, <1>9, <2>1, <2>3, ProcessesKept DEF UpdateFails, dpkgVars
  <2> QED BY <2>2, <2>3
<1>10. CASE Interrupt(a)
  <2>1. run'[a].pc = "idle" /\ (\A b \in Admin \ {a} : run'[b] = run[b]) /\ approved' = approved
    BY <1>0, <1>10, ReturnEnds DEF Interrupt, Idle
  <2>2. dpkg' = IF dpkg.by = a THEN NoCommand ELSE dpkg
    BY <1>10 DEF Interrupt
  <2> QED BY <1>0, <2>1, <2>2 DEF Processes, NoCommand
<1> QED
  BY <1>1, <1>2, <1>3, <1>4, <1>5, <1>6, <1>7, <1>8, <1>9, <1>10 DEF UpdateStep, BaseCommand

LEMMA ComponentProcesses ==
  ASSUME Typed, Processes, ComponentStep
  PROVE  Processes'
<1> USE Distinct
<1>0. UNCHANGED <<run, approved, repair>>
  BY DEF ComponentStep, ComponentUnpack, ComponentConfigure, ComponentCommandDone, ComponentFails,
    ComponentDone, baseVars, baseState, recoveryVars
<1>1. CASE ComponentUnpack \/ ComponentConfigure
  <2>1. PICK unpack, configure : /\ Launch(Updater, unpack, configure)
                                 /\ \A pv \in unpack : pv[1] \in Component
    BY <1>1 DEF ComponentUnpack, ComponentConfigure
  <2>2. comp'.pc \in {"unpacking", "configuring"}
    BY <1>1 DEF ComponentUnpack, ComponentConfigure, Typed, ComponentTyped
  <2> QED BY <1>0, <2>1, <2>2, LaunchedBy DEF Processes
<1>2. CASE ComponentCommandDone
  BY <1>0, <1>2, EndedBy DEF ComponentCommandDone, Processes, Typed, ComponentTyped
<1>3. CASE ComponentFails
  <2>1. comp'.pc \in {"unpack", "idle"}
    BY <1>3 DEF ComponentFails, Resting
  <2>2. CASE Fails(Updater)
    BY <1>0, <2>1, <2>2, EndedBy DEF Processes
  <2>3. CASE comp.pc \notin {"unpacking", "configuring"} /\ UNCHANGED dpkg
    BY <1>0, <2>1, <2>3 DEF Processes
  <2> QED BY <1>3, <2>2, <2>3 DEF ComponentFails, ComponentCommandFails, dpkgVars
<1>4. CASE ComponentDone
  BY <1>0, <1>4 DEF ComponentDone, Resting, dpkgVars, Processes
<1> QED
  BY <1>1, <1>2, <1>3, <1>4 DEF ComponentStep

LEMMA RepairProcesses ==
  ASSUME Typed, Processes, RepairStep
  PROVE  Processes'
<1> USE Distinct
<1>0. UNCHANGED <<run, approved, comp>>
  BY DEF RepairStep, RepairConfigure, RepairConfigured, RepairAudit, RepairDone, RepairFails,
    repairUnchanged, baseVars, baseState, componentVars
<1>1. CASE RepairConfigure
  BY <1>0, <1>1, LaunchedBy DEF RepairConfigure, Processes
<1>2. CASE RepairConfigured
  BY <1>0, <1>2, EndedBy DEF RepairConfigured, Processes
<1>3. CASE RepairAudit \/ RepairDone
  BY <1>0, <1>3 DEF RepairAudit, RepairDone, dpkgVars, Processes
<1>4. CASE RepairFails
  <2>1. CASE Fails(Repairer)
    BY <1>0, <1>4, <2>1, EndedBy DEF RepairFails, Processes
  <2>2. CASE repair # "configuring" /\ UNCHANGED dpkg
    BY <1>0, <1>4, <2>2 DEF RepairFails, Processes
  <2> QED BY <1>4, <2>1, <2>2 DEF RepairFails, dpkgVars
<1> QED
  BY <1>1, <1>2, <1>3, <1>4 DEF RepairStep

LEMMA ProcessesStep ==
  ASSUME Typed, Processes, Cached, [RecoveryNext]_vars
  PROVE  Processes'
<1> USE Distinct
<1>1. CASE DatabaseStep /\ UNCHANGED <<baseVars, OtherVars>>
  <2>1. UNCHANGED <<run, approved, comp, repair>>
    BY <1>1 DEF baseVars, baseState, OtherVars, componentVars, recoveryVars
  <2>2. dpkg'.by = dpkg.by /\ dpkg'.unpack \subseteq dpkg.unpack
    BY <1>1 DEF DatabaseStep, UnpackOne, ConfigureOne, Typed, DatabaseTyped
  <2>3. dpkg.by # None
    BY <1>1 DEF DatabaseStep, UnpackOne, ConfigureOne, Processes, NoCommand
  <2> QED BY <2>1, <2>2, <2>3 DEF Processes
<1>2. CASE DebianPublishes /\ UNCHANGED OtherVars
  BY <1>2 DEF DebianPublishes, dpkgVars, OtherVars, componentVars, recoveryVars, Processes
<1>3. ASSUME NEW a \in Admin, UpdateStep(a) \/ BaseCommand(a), UNCHANGED OtherVars
      PROVE  Processes'
  BY <1>3, BaseProcesses
<1>4. CASE ComponentUpdate \/ Rollback("manual") \/ Rollback("recovery")
  BY <1>4 DEF ComponentUpdate, Rollback, Resting, dpkgVars, baseState, recoveryVars, Processes
<1>5. CASE ComponentStep
  BY <1>5, ComponentProcesses
<1>6. CASE ComponentInterrupt
  <2>1. UNCHANGED <<run, approved, repair>> /\ comp' = Resting
        /\ dpkg' = IF dpkg.by = Updater THEN NoCommand ELSE dpkg
    BY <1>6 DEF ComponentInterrupt, baseVars, baseState, recoveryVars
  <2> QED BY <2>1 DEF Resting, NoCommand, Processes
<1>7. CASE RestoreConfiguration \/ SetNetwork
  BY <1>7 DEF RestoreConfiguration, SetNetwork, dpkgVars, baseVars, baseState, componentVars,
    Processes
<1>8. CASE StartRepair
  BY <1>8 DEF StartRepair, dpkgVars, baseState, componentVars, Processes
<1>9. CASE RepairStep
  BY <1>9, RepairProcesses
<1>10. CASE Reboot
  <2>1. comp'.pc \in {"unpack", "idle"} /\ repair' = "idle" /\ dpkg' = NoCommand
        /\ \A a \in Admin : run'[a].pc = "idle"
    BY <1>10 DEF Reboot, BaseReboot, Resting, Idle
  <2> QED BY <2>1 DEF Processes, NoCommand
<1>11. CASE UNCHANGED vars
  BY <1>11 DEF vars, dpkgVars, baseVars, baseState, componentVars, recoveryVars, Processes
<1> QED
  BY <1>1, <1>2, <1>3, <1>4, <1>5, <1>6, <1>7, <1>8, <1>9, <1>10, <1>11 DEF RecoveryNext, Menu

-----------------------------------------------------------------------------
(* The base updater's own lock. *)

LEMMA LockingGoes ==
  ASSUME Locking, run \in [Admin -> Runs], NEW a \in Admin, NEW pc \in Pcs, Goto(a, pc),
         UNCHANGED <<lock, mode>>,
         pc # "idle", pc \notin Checking => lock = a, run[a].pc = "idle" => lock # a,
         mode = "recovery" => pc = "preflight"
  PROVE  Locking'
BY GotoMoves DEF Locking

LEMMA LockingReturns ==
  ASSUME Locking, run \in [Admin -> Runs], NEW a \in Admin, Return(a), UNCHANGED mode
  PROVE  Locking'
BY ReturnEnds, Distinct DEF Locking, Idle, Checking

LEMMA BaseLocking ==
  ASSUME Typed, Locking, NEW a \in Admin, UpdateStep(a) \/ BaseCommand(a)
  PROVE  Locking'
<1>0. run \in [Admin -> Runs]
  BY DEF Typed, BaseTyped
<1>1. CASE StartCheck(a) \/ Preflight(a) \/ Refresh(a)
  <2>1. PICK pc \in {"preflight", "refresh", "simulate"} : Goto(a, pc)
    BY <1>1 DEF StartCheck, Preflight, Refresh
  <2>2. UNCHANGED <<lock, mode>> /\ (mode = "recovery" => pc = "preflight")
    BY <1>0, <1>1, <2>1, GotoMoves DEF StartCheck, Preflight, Refresh, fixed, At, Locking, Pcs
  <2>3. pc \in Pcs /\ pc # "idle" /\ pc \in Checking /\ (run[a].pc = "idle" => lock # a)
    BY <2>1 DEF Pcs, Checking, Locking
  <2> QED BY <1>0, <2>1, <2>2, <2>3, LockingGoes
<1>2. CASE StartUpdate(a)
  <2>1. /\ run'[a].pc = "preflight" /\ run'[a].update /\ lock = None /\ lock' = a /\ mode' = mode
        /\ \A b \in Admin \ {a} : run'[b] = run[b]
    BY <1>0, <1>2 DEF StartUpdate, Runs
  <2> QED BY <2>1, Distinct DEF Locking, Checking
<1>3. CASE Simulate(a)
  <2>1. /\ run[a].pc = "simulate" /\ run'[a].pc = "record" /\ run'[a].update = run[a].update
        /\ lock' = lock /\ mode' = mode
        /\ \A b \in Admin \ {a} : run'[b] = run[b]
    BY <1>0, <1>3 DEF Simulate, At, fixed, Runs
  <2> QED BY <2>1 DEF Locking, Checking
<1>4. CASE RecordPlan(a)
  <2>1. CASE run[a].update /\ Goto(a, "snapshot") /\ UNCHANGED lock
    <3>1. lock = a /\ mode' = mode /\ mode # "recovery"
      BY <1>4, <2>1 DEF RecordPlan, At, fixed, Locking
    <3> QED BY <1>0, <2>1, <3>1, LockingGoes DEF Pcs, Locking
  <2>2. CASE Return(a)
    BY <1>0, <1>4, <2>2, LockingReturns DEF RecordPlan, fixed
  <2> QED BY <1>4, <2>1, <2>2 DEF RecordPlan
<1>5. CASE \/ Snapshot(a) \/ Download(a) \/ VerifyPlan(a) \/ Install(a) \/ InstallImpossible(a)
           \/ Installed(a) \/ InstallFails(a) \/ Repair(a) \/ Repaired(a)
  <2>1. PICK pc \in Pcs \ {"idle"} : Goto(a, pc)
    BY <1>5 DEF Snapshot, Download, VerifyPlan, Install, InstallImpossible, Installed, InstallFails,
      Repair, Repaired, Pcs
  <2>2. UNCHANGED <<lock, mode>> /\ run[a].pc \notin Checking
    BY <1>5 DEF Snapshot, Download, VerifyPlan, Install, InstallImpossible, Installed, InstallFails,
      Repair, Repaired, fixed, At, Checking
  <2>3. lock = a /\ mode # "recovery"
    BY <2>2 DEF Locking, Checking
  <2> QED BY <1>0, <2>1, <2>2, <2>3, LockingGoes DEF Locking
<1>6. CASE PreflightRefuses(a) \/ CheckFails(a) \/ Complete(a) \/ UpdateFails(a) \/ Interrupt(a)
  BY <1>0, <1>6, LockingReturns DEF PreflightRefuses, CheckFails, Complete, UpdateFails, Interrupt,
    fixed
<1> QED
  BY <1>1, <1>2, <1>3, <1>4, <1>5, <1>6 DEF UpdateStep, BaseCommand

\* What the other channel and the recovery environment leave alone.
LEMMA OthersLeaveBase ==
  ASSUME \/ ComponentUpdate \/ Rollback("manual") \/ Rollback("recovery") \/ ComponentStep
         \/ ComponentInterrupt \/ RestoreConfiguration \/ StartRepair \/ SetNetwork \/ RepairStep
  PROVE  UNCHANGED <<mode, index, debs, lock, status, run, approved, raced>>
BY DEF ComponentUpdate, Rollback, ComponentStep, ComponentUnpack, ComponentConfigure,
  ComponentCommandDone, ComponentFails, ComponentDone, ComponentInterrupt, RestoreConfiguration,
  StartRepair, SetNetwork, RepairStep, RepairConfigure, RepairConfigured, RepairAudit, RepairDone,
  RepairFails, repairUnchanged, baseVars, baseState

\* They give dpkg commands; dpkg changes the files.
LEMMA OthersLeaveFiles ==
  ASSUME \/ ComponentUpdate \/ Rollback("manual") \/ Rollback("recovery") \/ ComponentStep
         \/ ComponentInterrupt \/ RestoreConfiguration \/ StartRepair \/ SetNetwork \/ RepairStep
  PROVE  UNCHANGED <<version, half>>
BY DEF ComponentUpdate, Rollback, ComponentStep, ComponentUnpack, ComponentConfigure,
  ComponentCommandDone, ComponentFails, ComponentCommandFails, ComponentDone,
  ComponentInterrupt, RestoreConfiguration, StartRepair, SetNetwork, RepairStep,
  RepairConfigure, RepairConfigured, RepairAudit, RepairDone, RepairFails, dpkgVars, Launch,
  Succeeds, Fails

LEMMA LockingStep ==
  ASSUME Typed, Locking, [RecoveryNext]_vars
  PROVE  Locking'
<1>1. CASE UNCHANGED <<mode, lock, run>>
  BY <1>1 DEF Locking
<1>2. CASE DatabaseStep /\ UNCHANGED <<baseVars, OtherVars>>
  BY <1>1, <1>2 DEF baseVars, baseState
<1>3. CASE DebianPublishes
  BY <1>1, <1>3 DEF DebianPublishes
<1>4. ASSUME NEW a \in Admin, UpdateStep(a) \/ BaseCommand(a)
      PROVE  Locking'
  BY <1>4, BaseLocking
<1>5. CASE Reboot
  BY <1>5, Distinct DEF Reboot, BaseReboot, Idle, Locking, Checking
<1>6. CASE UNCHANGED vars
  BY <1>1, <1>6 DEF vars, baseVars, baseState
<1> QED
  BY <1>1, <1>2, <1>3, <1>4, <1>5, <1>6, OthersLeaveBase DEF RecoveryNext, Menu

-----------------------------------------------------------------------------
(* The state file of the base updater. *)

\* Commands of either kind change no file before dpkg does.
LEMMA BaseLeavesFiles ==
  ASSUME NEW a \in Admin, UpdateStep(a) \/ BaseCommand(a)
  PROVE  UNCHANGED <<version, half>>
BY DEF UpdateStep, BaseCommand, StartCheck, StartUpdate, Interrupt, Preflight, PreflightRefuses,
  Refresh, Simulate, RecordPlan, CheckFails, Snapshot, Download, VerifyPlan, Install,
  InstallImpossible, Installed, InstallFails, Repair, Repaired, Complete, UpdateFails, dpkgVars,
  Launch, Succeeds, Fails

\* A command that goes on without a word in the state file.
LEMMA TellingKept ==
  ASSUME Telling, NEW a \in Admin, UNCHANGED <<half, status, raced>>,
         lock' = lock \/ lock' = None,
         \A b \in Admin \ {a} : run'[b] = run[b],
         run'[a].pc \in Changing => run[a].pc \in Changing,
         lock' = a /\ run'[a].pc \notin Changing \cup {"preflight"} =>
           run[a].pc \notin Changing \cup {"preflight"} \/ half \cap Base = {}
  PROVE  Telling'
BY Distinct DEF Telling

\* What the holder of the lock writes, nobody else is in the way of.
LEMMA Alone ==
  ASSUME Locking, NEW a \in Admin, lock = a, NEW b \in Admin \ {a}
  PROVE  run[b].pc \in Checking /\ run[b].pc \notin Changing
BY DEF Locking, Checking, Changing

\* RecordPlan, in words that say what it does to the hazard.
LEMMA RecordedRace ==
  ASSUME Typed, Locking, Telling, NEW a \in Admin, RecordPlan(a)
  PROVE  /\ raced => raced'
         /\ raced' \/ lock = a \/ (lock = None /\ half \cap Base = {})
         /\ lock = a => half \cap Base = {}
<1>1. raced => raced'
  BY Zenon DEF RecordPlan
<1>2. raced' \/ ~(lock # a /\ (lock # None \/ half \cap Base # {}))
  BY Zenon DEF RecordPlan
<1>3. lock = a => half \cap Base = {}
  BY DEF RecordPlan, At, Telling, Changing
<1> QED
  BY <1>1, <1>2, <1>3, Zenon

LEMMA BaseTelling ==
  ASSUME Typed, Locking, Telling, NEW a \in Admin, UpdateStep(a) \/ BaseCommand(a)
  PROVE  Telling'
<1>0. run \in [Admin -> Runs] /\ half' = half
  BY BaseLeavesFiles DEF Typed, BaseTyped
<1>1. CASE StartCheck(a) \/ Refresh(a) \/ Download(a)
  <2>1. PICK pc \in {"preflight", "simulate", "verify"} :
          Goto(a, pc) /\ (pc # "preflight" => run[a].pc \in {"refresh", "download"})
    BY <1>1 DEF StartCheck, Refresh, Download, At
  <2>2. UNCHANGED <<lock, status, raced>>
    BY <1>1 DEF StartCheck, Refresh, Download
  <2>3. run'[a].pc = pc /\ \A b \in Admin \ {a} : run'[b] = run[b]
    BY <1>0, <2>1, GotoMoves DEF Pcs
  <2> QED BY <1>0, <2>1, <2>2, <2>3, TellingKept DEF Changing
<1>2. CASE StartUpdate(a)
  <2>1. run'[a].pc = "preflight" /\ \A b \in Admin \ {a} : run'[b] = run[b]
    BY <1>0, <1>2 DEF StartUpdate, Runs
  <2> QED BY <1>0, <1>2, <2>1, Distinct DEF StartUpdate, Telling, Changing
<1>3. CASE Preflight(a)
  <2>1. run'[a].pc = "refresh" /\ \A b \in Admin \ {a} : run'[b] = run[b]
    BY <1>0, <1>3, GotoMoves DEF Preflight, Pcs
  <2> QED BY <1>0, <1>3, <2>1, TellingKept DEF Preflight, Changing
<1>4. CASE Simulate(a)
  <2>1. /\ run[a].pc = "simulate" /\ run'[a].pc = "record"
        /\ \A b \in Admin \ {a} : run'[b] = run[b]
    BY <1>0, <1>4 DEF Simulate, At, Runs
  <2> QED BY <1>0, <1>4, <2>1, TellingKept DEF Simulate, Changing
<1>5. CASE RecordPlan(a)
  <2>1. run'[a].pc \in {"snapshot", "idle"} /\ \A b \in Admin \ {a} : run'[b] = run[b]
    BY <1>0, <1>5, GotoMoves, ReturnEnds DEF RecordPlan, Pcs, Idle
  <2>2. lock' = lock \/ lock' = None
    BY <1>5 DEF RecordPlan, Return
  <2>3. raced' \/ half' \cap Base = {}
    BY <1>0, <1>5, RecordedRace
  <2>4. \A b \in Admin : run'[b].pc \in Changing => raced'
    <3> SUFFICES ASSUME NEW b \in Admin, run'[b].pc \in Changing PROVE raced'
      OBVIOUS
    <3>1. b # a /\ run[b].pc \in Changing
      BY <2>1 DEF Changing
    <3>2. lock = b
      BY <3>1 DEF Locking, Checking, Changing
    <3> QED BY <1>5, <3>1, <3>2, RecordedRace, Distinct
  <2>5. \A b \in Admin : lock' = b => half' \cap Base = {} \/ run'[b].pc \in Changing \cup {"preflight"}
    <3> SUFFICES ASSUME NEW b \in Admin, lock' = b
                 PROVE  half' \cap Base = {} \/ run'[b].pc \in Changing \cup {"preflight"}
      OBVIOUS
    <3>1. CASE b = a
      BY <1>0, <1>5, <2>2, <3>1, RecordedRace, Distinct
    <3>2. CASE b # a
      BY <1>0, <2>1, <2>2, <3>2, Distinct DEF Telling
    <3> QED BY <3>1, <3>2
  <2> QED BY <2>3, <2>4, <2>5 DEF Telling
<1>6. CASE PreflightRefuses(a) \/ CheckFails(a) \/ Interrupt(a)
  <2>1. Return(a) /\ UNCHANGED <<status, raced>>
    BY <1>6 DEF PreflightRefuses, CheckFails, Interrupt
  <2>2. run'[a].pc = "idle" /\ lock' # a /\ \A b \in Admin \ {a} : run'[b] = run[b]
    BY <1>0, <2>1, ReturnEnds, Distinct DEF Idle
  <2> QED BY <1>0, <2>1, <2>2, TellingKept DEF Changing, Return
<1>7. CASE Snapshot(a)
  <2>1. lock = a /\ half \cap Base = {}
    BY <1>7 DEF Snapshot, At, Locking, Telling, Checking, Changing
  <2>2. run'[a].pc = "download" /\ lock' = lock /\ \A b \in Admin \ {a} : run'[b] = run[b]
    BY <1>0, <1>7, GotoMoves DEF Snapshot, Pcs
  <2> QED BY <1>0, <2>1, <2>2, Alone DEF Telling, Changing
<1>8. CASE VerifyPlan(a)
  <2>1. lock = a /\ status' = "installing"
    BY <1>8 DEF VerifyPlan, WriteState, At, Locking, Checking
  <2>2. run'[a].pc = "install" /\ lock' = lock /\ \A b \in Admin \ {a} : run'[b] = run[b]
    BY <1>0, <1>8, GotoMoves DEF VerifyPlan, Pcs
  <2> QED BY <1>0, <2>1, <2>2, Alone DEF Telling, Changing
<1>9. CASE Install(a) \/ InstallImpossible(a) \/ Installed(a) \/ InstallFails(a) \/ Repair(a)
             \/ Repaired(a)
  <2>1. PICK pc \in Changing : Goto(a, pc)
    BY <1>9 DEF Install, InstallImpossible, Installed, InstallFails, Repair, Repaired, Changing
  <2>2. run[a].pc \in Changing /\ UNCHANGED <<lock, status, raced>>
    BY <1>9 DEF Install, InstallImpossible, Installed, InstallFails, Repair, Repaired, At, Changing
  <2>3. run'[a].pc = pc /\ \A b \in Admin \ {a} : run'[b] = run[b]
    BY <1>0, <2>1, GotoMoves DEF Pcs, Changing
  <2> QED BY <1>0, <2>1, <2>2, <2>3, TellingKept
<1>10. CASE Complete(a) \/ UpdateFails(a)
  <2>1. lock = a
    BY <1>10 DEF Complete, UpdateFails, At, Locking, Checking
  <2>2. run'[a].pc = "idle" /\ lock' = None /\ \A b \in Admin \ {a} : run'[b] = run[b]
    BY <1>0, <1>10, <2>1, ReturnEnds DEF Complete, UpdateFails, Idle
  <2>3. half = {} \/ status' = "failed_requires_recovery"
    BY <1>10 DEF Complete, UpdateFails, Healthy, WriteState
  <2> QED BY <1>0, <2>1, <2>2, <2>3, Alone, Distinct DEF Telling, Changing
<1> QED
  BY <1>1, <1>2, <1>3, <1>4, <1>5, <1>6, <1>7, <1>8, <1>9, <1>10 DEF UpdateStep, BaseCommand

\* What one step of dpkg may do, whoever has given it the command.
LEMMA OneStepOfDpkg ==
  ASSUME Typed, Processes, DatabaseStep
  PROVE  \/ half' \subseteq half /\ version' = version
         \/ \E pv \in dpkg.unpack :
              /\ half' = half \cup {pv[1]}
              /\ version' = [version EXCEPT ![pv[1]] = pv[2]]
              /\ \/ dpkg.by \in Admin /\ pv[1] \in Base /\ pv \in approved
                 \/ dpkg.by = Updater /\ pv[1] \in Component
BY DEF DatabaseStep, UnpackOne, ConfigureOne, Processes

LEMMA TellingStep ==
  ASSUME Typed, Processes, Locking, Telling, [RecoveryNext]_vars
  PROVE  Telling'
<1>1. CASE half' \cap Base \subseteq half /\ UNCHANGED <<lock, status, run, raced>>
  BY <1>1 DEF Telling
<1>2. CASE DatabaseStep /\ UNCHANGED <<baseVars, OtherVars>>
  <2>1. UNCHANGED <<lock, status, run, raced>>
    BY <1>2 DEF baseVars, baseState
  <2>2. CASE half' \cap Base \subseteq half
    BY <1>1, <2>1, <2>2
  <2>3. CASE ~(half' \cap Base \subseteq half)
    <3>1. PICK a \in Admin : dpkg.by = a
      BY <1>2, <2>3, OneStepOfDpkg, RecoveryAssumption
    <3>2. run[a].pc \in {"installing", "repairing"}
      BY <3>1 DEF Processes
    <3>3. lock = a /\ run[a].pc \in Changing
      BY <3>2 DEF Locking, Checking, Changing
    <3> QED BY <2>1, <3>3 DEF Telling
  <2> QED BY <2>2, <2>3
<1>3. CASE DebianPublishes
  BY <1>1, <1>3 DEF DebianPublishes, dpkgVars
<1>4. ASSUME NEW a \in Admin, UpdateStep(a) \/ BaseCommand(a)
      PROVE  Telling'
  BY <1>4, BaseTelling
<1>5. CASE \/ ComponentUpdate \/ Rollback("manual") \/ Rollback("recovery") \/ ComponentStep
           \/ ComponentInterrupt \/ RestoreConfiguration \/ StartRepair \/ SetNetwork \/ RepairStep
  BY <1>1, <1>5, OthersLeaveBase, OthersLeaveFiles
<1>6. CASE Reboot
  BY <1>6, Distinct DEF Reboot, BaseReboot, Idle, Telling, Changing
<1>7. CASE UNCHANGED vars
  BY <1>1, <1>7 DEF vars, dpkgVars, baseVars, baseState
<1> QED
  BY <1>2, <1>3, <1>4, <1>5, <1>6, <1>7 DEF RecoveryNext, Menu

-----------------------------------------------------------------------------
(* The index, the cache and the plans. *)

\* A command that goes on with the plan it has, or ends.
LEMMA CachedKept ==
  ASSUME Cached, run \in [Admin -> Runs], NEW a \in Admin,
         UNCHANGED <<index, version>>, debs' \subseteq debs, approved \subseteq approved',
         run'[a].plan \subseteq run[a].plan,
         run'[a].pc \in {"snapshot", "download", "verify", "install"} =>
           Targets(run'[a].plan) \subseteq approved',
         run'[a].pc # "install",
         \A b \in Admin \ {a} : run'[b] = run[b]
  PROVE  Cached'
<1>1. \A b \in Admin : Targets(run[b].plan) \subseteq approved
                         => Targets(run[b].plan) \subseteq approved'
  OBVIOUS
<1>2. \A b \in Admin : run'[b].plan \subseteq run[b].plan
  OBVIOUS
<1> QED
  BY <1>1, <1>2 DEF Cached, Targets

LEMMA BaseCached ==
  ASSUME Typed, Locking, Cached, NEW a \in Admin, UpdateStep(a) \/ BaseCommand(a)
  PROVE  Cached'
<1>0. /\ run \in [Admin -> Runs] /\ index \in DOMAIN Archive /\ archive \in DOMAIN Archive
      /\ index <= archive /\ version' = version
  BY BaseLeavesFiles, ArchiveTyped DEF Typed, BaseTyped
<1>1. CASE \/ StartCheck(a) \/ Preflight(a) \/ Snapshot(a) \/ InstallImpossible(a)
           \/ Install(a) \/ Installed(a) \/ InstallFails(a) \/ Repair(a) \/ Repaired(a)
  <2>1. PICK pc \in Pcs \ {"install", "snapshot", "verify"} :
          Goto(a, pc) /\ (pc = "download" => run[a].pc = "snapshot")
    BY <1>1 DEF StartCheck, Preflight, Snapshot, InstallImpossible, Install, Installed,
      InstallFails, Repair, Repaired, At, Pcs
  <2>2. UNCHANGED <<index, debs, approved>>
    BY <1>1 DEF StartCheck, Preflight, Snapshot, InstallImpossible, Install, Installed,
      InstallFails, Repair, Repaired
  <2>3. /\ run'[a].pc = pc /\ run'[a].plan = run[a].plan
        /\ \A b \in Admin \ {a} : run'[b] = run[b]
    BY <1>0, <2>1, GotoMoves
  <2>4. pc = "download" => Targets(run[a].plan) \subseteq approved
    BY <2>1 DEF Cached
  <2> QED BY <1>0, <2>1, <2>2, <2>3, <2>4, CachedKept
<1>2. CASE StartUpdate(a)
  <2>1. /\ run'[a].pc = "preflight" /\ run'[a].plan = run[a].plan
        /\ \A b \in Admin \ {a} : run'[b] = run[b]
    BY <1>0, <1>2 DEF StartUpdate, Runs
  <2> QED BY <1>0, <1>2, <2>1, CachedKept DEF StartUpdate
<1>3. CASE Refresh(a)
  <2>1. /\ run'[a].pc = "simulate" /\ run'[a].plan = run[a].plan
        /\ \A b \in Admin \ {a} : run'[b] = run[b]
    BY <1>0, <1>3, GotoMoves DEF Refresh, Pcs
  <2>2. index' = archive /\ UNCHANGED <<debs, approved>>
    BY <1>3 DEF Refresh
  <2>3. \A pv \in debs : pv[2] <= Archive[index'][pv[1]]
    <3> SUFFICES ASSUME NEW pv \in debs PROVE pv[2] <= Archive[index'][pv[1]]
      OBVIOUS
    <3>1. pv[1] \in Base /\ pv[2] \in Nat /\ pv[2] <= Archive[index][pv[1]]
      BY DEF Cached, Typed, BaseTyped
    <3> QED BY <1>0, <2>2, <3>1, ArchiveGrows
  <2>4. \A b \in Admin : \A c \in run'[b].plan : c.to <= Archive[index'][c.pkg]
    <3> SUFFICES ASSUME NEW b \in Admin, NEW c \in run'[b].plan
                 PROVE  c.to <= Archive[index'][c.pkg]
      OBVIOUS
    <3>1. c \in run[b].plan
      BY <2>1
    <3>2. c.pkg \in Base /\ c.to \in Nat /\ c.to <= Archive[index][c.pkg]
      BY <3>1, PlanTyped DEF Cached, Typed, Plans
    <3> QED BY <1>0, <2>2, <3>2, ArchiveGrows
  <2>5. \A b \in Admin : run'[b].pc \in {"snapshot", "download", "verify", "install"} =>
          run'[b] = run[b]
    BY <2>1
  <2> QED BY <1>0, <2>2, <2>3, <2>4, <2>5 DEF Cached
<1>4. CASE Simulate(a)
  <2>1. /\ run'[a].pc = "record" /\ run'[a].plan = Upgrade
        /\ \A b \in Admin \ {a} : run'[b] = run[b]
    BY <1>0, <1>4 DEF Simulate, Runs
  <2>2. \A c \in Upgrade : c.to \in Nat /\ c.to <= Archive[index][c.pkg]
    BY <1>0, UpgradeTyped DEF Upgrade, Typed, Plans
  <2> QED BY <1>0, <1>4, <2>1, <2>2 DEF Simulate, Cached
<1>5. CASE RecordPlan(a)
  <2>1. UNCHANGED <<index, debs>> /\ approved \subseteq approved'
    BY <1>5 DEF RecordPlan
  <2>2. CASE Goto(a, "snapshot") /\ approved' = approved \cup Targets(run[a].plan)
    <3>1. /\ run'[a].pc = "snapshot" /\ run'[a].plan = run[a].plan
          /\ \A b \in Admin \ {a} : run'[b] = run[b]
      BY <1>0, <2>2, GotoMoves DEF Pcs
    <3>2. Targets(run'[a].plan) \subseteq approved'
      BY <2>2, <3>1
    <3> QED BY <1>0, <2>1, <3>1, <3>2, CachedKept
  <2>3. CASE Return(a)
    <3>1. run'[a] = Idle /\ \A b \in Admin \ {a} : run'[b] = run[b]
      BY <1>0, <2>3, ReturnEnds
    <3> QED BY <1>0, <2>1, <3>1, CachedKept DEF Idle
  <2> QED BY <1>5, <2>2, <2>3 DEF RecordPlan
<1>6. CASE Download(a)
  <2>1. /\ run[a].pc = "download" /\ run'[a].pc = "verify" /\ run'[a].plan = run[a].plan
        /\ \A b \in Admin \ {a} : run'[b] = run[b]
    BY <1>0, <1>6, GotoMoves DEF Download, At, Pcs
  <2>2. \A pv \in Targets(Upgrade) : pv[2] <= Archive[index][pv[1]]
    BY <1>0, UpgradeTyped DEF Upgrade, Targets, Typed, Plans
  <2>3. debs' = debs \cup Targets(Upgrade) /\ UNCHANGED <<index, approved>>
    BY <1>6 DEF Download
  <2>4. \A b \in Admin : run'[b].pc # "install"
    <3>1. lock = a
      BY <2>1 DEF Locking, Checking
    <3> QED BY <2>1, <3>1, Alone DEF Changing
  <2> QED BY <1>0, <2>1, <2>2, <2>3, <2>4 DEF Cached
<1>7. CASE VerifyPlan(a)
  <2>1. /\ run[a].pc = "verify" /\ run'[a].pc = "install" /\ run'[a].plan = run[a].plan
        /\ \A b \in Admin \ {a} : run'[b] = run[b]
    BY <1>0, <1>7, GotoMoves DEF VerifyPlan, At, Pcs
  <2>2. \A pv \in debs : \/ pv[2] <= version[pv[1]]
                         \/ \E c \in run[a].plan : c.pkg = pv[1] /\ pv[2] <= c.to
    <3> SUFFICES ASSUME NEW pv \in debs, ~(pv[2] <= version[pv[1]])
                 PROVE  \E c \in run[a].plan : c.pkg = pv[1] /\ pv[2] <= c.to
      OBVIOUS
    <3>1. pv[1] \in Base /\ pv[2] \in Nat /\ version[pv[1]] \in Nat
            /\ Archive[index][pv[1]] \in Nat /\ pv[2] <= Archive[index][pv[1]]
      BY <1>0, ArchiveTyped, BaseAssumption DEF Cached, Typed, BaseTyped, DatabaseTyped
    <3>2. Archive[index][pv[1]] > version[pv[1]]
      BY <3>1
    <3>3. [pkg |-> pv[1], from |-> version[pv[1]], to |-> Archive[index][pv[1]]] \in Upgrade
      BY <3>1, <3>2 DEF Upgrade
    <3>4. Upgrade = run[a].plan
      BY <1>7 DEF VerifyPlan
    <3> QED BY <3>1, <3>3, <3>4
  <2>3. Targets(run[a].plan) \subseteq approved /\ UNCHANGED <<index, debs, approved>>
    BY <1>7, <2>1 DEF VerifyPlan, Cached
  <2> QED BY <1>0, <2>1, <2>2, <2>3 DEF Cached
<1>8. CASE PreflightRefuses(a) \/ CheckFails(a) \/ Complete(a) \/ UpdateFails(a) \/ Interrupt(a)
  <2>1. Return(a) /\ UNCHANGED <<index, approved>> /\ debs' \subseteq debs
    BY <1>8 DEF PreflightRefuses, CheckFails, Complete, UpdateFails, Interrupt
  <2>2. run'[a] = Idle /\ \A b \in Admin \ {a} : run'[b] = run[b]
    BY <1>0, <2>1, ReturnEnds
  <2> QED BY <1>0, <2>1, <2>2, CachedKept DEF Idle
<1> QED
  BY <1>1, <1>2, <1>3, <1>4, <1>5, <1>6, <1>7, <1>8 DEF UpdateStep, BaseCommand

LEMMA CachedStep ==
  ASSUME Typed, Processes, Locking, Cached, [RecoveryNext]_vars
  PROVE  Cached'
<1>1. CASE UNCHANGED <<version, index, debs, run, approved>>
  BY <1>1 DEF Cached, Targets
<1>2. CASE DatabaseStep /\ UNCHANGED <<baseVars, OtherVars>>
  <2>1. UNCHANGED <<index, debs, run, approved>>
    BY <1>2 DEF baseVars, baseState
  <2>2. ASSUME NEW a \in Admin, run[a].pc = "install", NEW p \in Base
        PROVE  version'[p] = version[p]
    <3>1. CASE version' = version
      BY <3>1
    <3>2. CASE version' # version
      <4>1. PICK pv \in dpkg.unpack :
              /\ version' = [version EXCEPT ![pv[1]] = pv[2]]
              /\ \/ dpkg.by \in Admin
                 \/ pv[1] \in Component
        BY <1>2, <3>2, OneStepOfDpkg
      <4>2. dpkg.by \notin Admin
        <5> SUFFICES ASSUME NEW b \in Admin, dpkg.by = b PROVE FALSE
          OBVIOUS
        <5>1. run[b].pc \in {"installing", "repairing"}
          BY DEF Processes
        <5> QED BY <2>2, <5>1 DEF Locking, Checking
      <4> QED BY <4>1, <4>2, RecoveryAssumption, BaseAssumption DEF Typed, DatabaseTyped
    <3> QED BY <3>1, <3>2
  <2>3. \A pv \in debs : pv[1] \in Base
    BY DEF Typed, BaseTyped
  <2> QED BY <2>1, <2>2, <2>3 DEF Cached, Targets
<1>3. CASE DebianPublishes
  BY <1>1, <1>3 DEF DebianPublishes, dpkgVars
<1>4. ASSUME NEW a \in Admin, UpdateStep(a) \/ BaseCommand(a)
      PROVE  Cached'
  BY <1>4, BaseCached
<1>5. CASE \/ ComponentUpdate \/ Rollback("manual") \/ Rollback("recovery") \/ ComponentStep
           \/ ComponentInterrupt \/ RestoreConfiguration \/ StartRepair \/ SetNetwork \/ RepairStep
  BY <1>1, <1>5, OthersLeaveBase, OthersLeaveFiles
<1>6. CASE Reboot
  <2>1. \A a \in Admin : run'[a] = Idle
    BY <1>6 DEF Reboot, BaseReboot
  <2>2. UNCHANGED <<index, debs>>
    BY <1>6 DEF Reboot, BaseReboot
  <2> QED BY <2>1, <2>2 DEF Idle, Cached
<1>7. CASE UNCHANGED vars
  BY <1>1, <1>7 DEF vars, dpkgVars, baseVars, baseState
<1> QED
  BY <1>2, <1>3, <1>4, <1>5, <1>6, <1>7 DEF RecoveryNext, Menu

LEMMA ApprovedStep ==
  ASSUME Typed, Processes, OnlyApprovedInstalled, [RecoveryNext]_vars
  PROVE  OnlyApprovedInstalled'
<1>1. approved \subseteq approved'
  BY OthersLeaveBase DEF RecoveryNext, Menu, UpdateStep, BaseCommand, StartCheck, StartUpdate,
    Interrupt, Preflight, PreflightRefuses, Refresh, Simulate, RecordPlan, CheckFails, Snapshot,
    Download, VerifyPlan, Install, InstallImpossible, Installed, InstallFails, Repair, Repaired,
    Complete, UpdateFails, Reboot, BaseReboot, DebianPublishes, vars, baseVars, baseState
<1>2. CASE version' = version
  BY <1>1, <1>2 DEF OnlyApprovedInstalled
<1>3. CASE DatabaseStep
  <2> SUFFICES ASSUME version' # version PROVE OnlyApprovedInstalled'
    BY <1>2
  <2>1. PICK pv \in dpkg.unpack :
          /\ version' = [version EXCEPT ![pv[1]] = pv[2]]
          /\ pv \in approved \/ pv[1] \in Component
    BY <1>3, OneStepOfDpkg
  <2>2. pv = <<pv[1], pv[2]>>
    BY DEF Typed, DatabaseTyped
  <2> QED
    BY <1>1, <2>1, <2>2, RecoveryAssumption, BaseAssumption
    DEF OnlyApprovedInstalled, Typed, DatabaseTyped
<1> QED
  BY <1>2, <1>3, BaseLeavesFiles, OthersLeaveFiles DEF RecoveryNext, Menu, DebianPublishes, dpkgVars,
    Reboot, BaseReboot, vars

-----------------------------------------------------------------------------
(* The record of the component updater. *)

\* A step that touches neither the components nor what is said of them.
LEMMA RecordingKept ==
  ASSUME Recording, UNCHANGED <<comp, record, point, evidenceLost>>,
         comp = Resting => (Mixed' => Mixed)
  PROVE  Recording'
BY DEF Recording, MixtureIsRecorded, Interrupted, Tells

LEMMA MixedKept == UNCHANGED <<version, half>> => Mixed' = Mixed
BY DEF Mixed

LEMMA ComponentRecording ==
  ASSUME Typed, Recording, ComponentStep
  PROVE  Recording'
<1>1. CASE ComponentUnpack \/ ComponentConfigure
  <2>1. /\ comp'.how = comp.how /\ comp.pc # "idle" /\ comp'.pc # "idle" /\ comp' # Resting
        /\ UNCHANGED <<record, point, evidenceLost>>
    BY <1>1 DEF ComponentUnpack, ComponentConfigure, Resting, history, Typed, ComponentTyped
  <2> QED BY <2>1 DEF Recording, MixtureIsRecorded, Interrupted
<1>2. CASE ComponentCommandDone
  <2>1. /\ comp'.how = comp.how /\ comp.pc # "idle" /\ comp'.pc # "idle" /\ comp' # Resting
        /\ UNCHANGED <<record, point, evidenceLost>>
    BY <1>2 DEF ComponentCommandDone, Resting, history, Typed, ComponentTyped
  <2> QED BY <2>1 DEF Recording, MixtureIsRecorded, Interrupted
<1>3. CASE ComponentFails
  <2>1. comp.how # "none"
    BY <1>3 DEF ComponentFails, ComponentCommandFails, Recording
  <2>2. point' = point /\ (evidenceLost => evidenceLost')
    BY <1>3, Zenon DEF ComponentFails
  <2>3. CASE comp.how = "update"
    <3>1. comp' = [pc |-> "unpack", how |-> "auto"] /\ record' = "rolling_back"
      BY <1>3, <2>3 DEF ComponentFails
    <3> QED BY <2>2, <3>1 DEF Recording, MixtureIsRecorded, Resting
  <2>4. CASE comp.how # "update"
    <3>1. comp' = Resting /\ (Tells' \/ evidenceLost')
      <4>1. comp' = Resting
        BY <1>3, <2>4 DEF ComponentFails
      <4>2. CASE comp.how = "auto"
        BY <1>3, <4>1, <4>2 DEF ComponentFails, Tells
      <4>3. CASE comp.how = "boot"
        BY <1>3, <4>1, <4>3 DEF ComponentFails, Tells, Interrupted, Recording
      <4>4. CASE comp.how \in {"manual", "recovery"}
        <5>1. Tells' = Tells
          BY <1>3, <4>4 DEF ComponentFails, Tells, Interrupted
        <5>2. Tells \/ evidenceLost'
          BY <1>3, <4>4, Zenon DEF ComponentFails
        <5> QED BY <4>1, <5>1, <5>2, Zenon
      <4> QED BY <2>1, <2>4, <4>1, <4>2, <4>3, <4>4 DEF Typed, ComponentTyped
    <3> QED BY <2>2, <3>1 DEF Recording, MixtureIsRecorded, Resting
  <2> QED BY <2>3, <2>4
<1>4. CASE ComponentDone
  <2>1. comp' = Resting /\ UNCHANGED <<version, half, point, evidenceLost>> /\ half = {}
    BY <1>4 DEF ComponentDone, dpkgVars, history
  <2>2. evidenceLost \/ \A p, q \in Component : version[p] = version[q]
    <3>1. \A p \in Component : version[p] = Wanted[p]
      BY <1>4 DEF ComponentDone
    <3>2. evidenceLost \/ \A p, q \in Component : Wanted[p] = Wanted[q]
      BY DEF Wanted, Recording
    <3> QED BY <3>1, <3>2
  <2> QED BY <2>1, <2>2 DEF Recording, MixtureIsRecorded, Mixed, Resting
<1> QED
  BY <1>1, <1>2, <1>3, <1>4 DEF ComponentStep

LEMMA RecordingStep ==
  ASSUME Typed, Processes, Recording, [RecoveryNext]_vars
  PROVE  Recording'
<1>1. CASE DatabaseStep /\ UNCHANGED <<baseVars, OtherVars>>
  <2>1. UNCHANGED <<comp, record, point, evidenceLost>>
    BY <1>1 DEF OtherVars, componentVars, history
  <2>2. ASSUME comp = Resting, Mixed' PROVE Mixed
    <3>1. dpkg.by # Updater
      BY <2>2 DEF Resting, Processes
    <3>2. half' \cap Component \subseteq half
      BY <1>1, <3>1, OneStepOfDpkg, RecoveryAssumption
    <3>3. \A p \in Component : version'[p] = version[p]
      BY <1>1, <3>1, OneStepOfDpkg, RecoveryAssumption DEF Typed, DatabaseTyped
    <3> QED BY <2>2, <3>2, <3>3 DEF Mixed
  <2> QED BY <2>1, <2>2, RecordingKept
<1>2. CASE DebianPublishes /\ UNCHANGED OtherVars
  BY <1>2, MixedKept, RecordingKept DEF DebianPublishes, dpkgVars, OtherVars, componentVars, history
<1>3. ASSUME NEW a \in Admin, UpdateStep(a) \/ BaseCommand(a), UNCHANGED OtherVars
      PROVE  Recording'
  BY <1>3, BaseLeavesFiles, MixedKept, RecordingKept DEF OtherVars, componentVars, history
<1>4. CASE ComponentUpdate
  <2>1. comp' = [pc |-> "unpack", how |-> "update"] /\ record' = "installing"
    BY <1>4 DEF ComponentUpdate
  <2>2. evidenceLost' \/ \A p, q \in Component : point'[p] = point'[q]
    <3>1. evidenceLost' \/ ~Mixed
      BY <1>4, Zenon DEF ComponentUpdate
    <3>2. point' = [p \in Component |-> version[p]]
      BY <1>4 DEF ComponentUpdate
    <3> QED BY <3>1, <3>2 DEF Mixed
  <2> QED BY <2>1, <2>2 DEF Recording, MixtureIsRecorded, Resting
<1>5. CASE Rollback("manual") \/ Rollback("recovery")
  <2>1. /\ comp'.pc = "unpack" /\ comp'.how \in {"manual", "recovery"}
        /\ UNCHANGED <<record, point, evidenceLost>>
    BY <1>5 DEF Rollback
  <2> QED BY <2>1 DEF Recording, MixtureIsRecorded, Resting
<1>6. CASE ComponentStep
  BY <1>6, ComponentRecording
<1>7. CASE ComponentInterrupt
  <2>1. comp' = Resting /\ UNCHANGED <<record, point>>
    BY <1>7 DEF ComponentInterrupt
  <2>2. evidenceLost' \/ Tells
    BY <1>7, Zenon DEF ComponentInterrupt
  <2>3. evidenceLost => evidenceLost'
    BY <1>7, Zenon DEF ComponentInterrupt
  <2>4. Tells' = Tells
    BY <2>1 DEF Tells, Interrupted
  <2> QED BY <2>1, <2>2, <2>3, <2>4 DEF Recording, MixtureIsRecorded, Resting
<1>8. CASE RestoreConfiguration
  <2>1. comp = Resting /\ UNCHANGED <<comp, point, version, half>>
    BY <1>8 DEF RestoreConfiguration, dpkgVars
  <2>2. evidenceLost' \/ ~Mixed
    BY <1>8, Zenon DEF RestoreConfiguration
  <2>3. evidenceLost => evidenceLost'
    BY <1>8, Zenon DEF RestoreConfiguration
  <2> QED BY <2>1, <2>2, <2>3, MixedKept DEF Recording, MixtureIsRecorded, Resting
<1>9. CASE StartRepair \/ SetNetwork
  BY <1>9, MixedKept, RecordingKept DEF StartRepair, SetNetwork, dpkgVars, componentVars, history
<1>10. CASE RepairStep
  <2>1. UNCHANGED <<comp, record, point, evidenceLost>>
    BY <1>10 DEF RepairStep, RepairConfigure, RepairConfigured, RepairAudit, RepairDone, RepairFails,
      repairUnchanged, componentVars
  <2> QED BY <1>10, <2>1, OthersLeaveFiles, MixedKept, RecordingKept
<1>11. CASE Reboot
  <2>1. UNCHANGED <<record, point, version, half>>
    BY <1>11 DEF Reboot, BaseReboot
  <2>2. evidenceLost => evidenceLost'
    BY <1>11, Zenon DEF Reboot
  <2>3. comp' = Resting \/ (comp' = [pc |-> "unpack", how |-> "boot"] /\ Interrupted)
    BY <1>11 DEF Reboot
  <2>4. comp = Resting \/ Tells \/ evidenceLost'
    BY <1>11, Zenon DEF Reboot
  <2>5. Tells' = Tells /\ Interrupted' = Interrupted
    BY <2>1 DEF Tells, Interrupted
  <2> QED
    BY <2>1, <2>2, <2>3, <2>4, <2>5, MixedKept DEF Recording, MixtureIsRecorded, Resting
<1>12. CASE UNCHANGED vars
  BY <1>12, MixedKept, RecordingKept DEF vars, dpkgVars, componentVars, history
<1> QED
  BY <1>1, <1>2, <1>3, <1>4, <1>5, <1>6, <1>7, <1>8, <1>9, <1>10, <1>11, <1>12 DEF RecoveryNext, Menu

-----------------------------------------------------------------------------
(* Repairs. *)

LEMMA RepairingStep ==
  ASSUME Typed, Processes, Locking, Recording, Repairing, [RecoveryNext]_vars
  PROVE  Repairing'
<1>1. CASE DatabaseStep /\ UNCHANGED <<baseVars, OtherVars>>
  <2>1. UNCHANGED <<mode, repair, comp, audited>>
    BY <1>1 DEF baseVars, baseState, OtherVars, componentVars, recoveryVars, history
  <2>2. audited => half' \subseteq half
    <3> SUFFICES ASSUME audited PROVE half' \subseteq half
      OBVIOUS
    <3>1. comp = Resting /\ mode = "recovery"
      BY DEF Repairing
    <3>2. dpkg.by \notin Admin /\ dpkg.by # Updater
      BY <3>1 DEF Processes, Locking, Resting
    <3> QED BY <1>1, <3>2, OneStepOfDpkg
  <2> QED BY <2>1, <2>2 DEF Repairing
<1>2. CASE DebianPublishes /\ UNCHANGED OtherVars
  BY <1>2 DEF DebianPublishes, dpkgVars, OtherVars, componentVars, recoveryVars, history, Repairing
<1>3. ASSUME NEW a \in Admin, UpdateStep(a) \/ BaseCommand(a), UNCHANGED OtherVars
      PROVE  Repairing'
  <2>1. mode' = mode
    BY <1>3 DEF UpdateStep, BaseCommand, StartCheck, StartUpdate, Interrupt, Preflight,
      PreflightRefuses, Refresh, Simulate, RecordPlan, CheckFails, Snapshot, Download, VerifyPlan,
      Install, InstallImpossible, Installed, InstallFails, Repair, Repaired, Complete, UpdateFails,
      fixed
  <2> QED
    BY <1>3, <2>1, BaseLeavesFiles DEF OtherVars, componentVars, recoveryVars, history, Repairing
<1>4. CASE ComponentUpdate \/ Rollback("manual") \/ Rollback("recovery")
  BY <1>4, Zenon DEF ComponentUpdate, Rollback, baseState, recoveryVars, Repairing
<1>5. CASE ComponentStep
  <2>1. UNCHANGED <<mode, half>>
    BY <1>5, OthersLeaveBase, OthersLeaveFiles
  <2>2. UNCHANGED <<repair, audited>>
    BY <1>5, Zenon DEF ComponentStep, ComponentUnpack, ComponentConfigure, ComponentCommandDone,
      ComponentFails, ComponentDone, recoveryVars, history
  <2>3. comp.pc # "idle"
    BY <1>5 DEF ComponentStep, ComponentUnpack, ComponentConfigure, ComponentCommandDone,
      ComponentFails, ComponentCommandFails, ComponentDone
  <2> QED BY <2>1, <2>2, <2>3 DEF Repairing, Resting
<1>6. CASE ComponentInterrupt
  BY <1>6, OthersLeaveBase, OthersLeaveFiles DEF ComponentInterrupt, recoveryVars, Repairing
<1>7. CASE RestoreConfiguration \/ SetNetwork
  <2>1. UNCHANGED <<mode, half>>
    BY <1>7, OthersLeaveBase, OthersLeaveFiles
  <2>2. UNCHANGED <<repair, comp, audited>>
    BY <1>7, Zenon DEF RestoreConfiguration, SetNetwork, componentVars, history
  <2> QED BY <2>1, <2>2 DEF Repairing
<1>8. CASE StartRepair
  BY <1>8 DEF StartRepair, dpkgVars, baseState, componentVars, Repairing
<1>9. CASE RepairStep
  <2>1. UNCHANGED <<mode, half, comp>> /\ repair # "idle"
    BY <1>9, OthersLeaveBase, OthersLeaveFiles DEF RepairStep, RepairConfigure, RepairConfigured,
      RepairAudit, RepairDone, RepairFails, repairUnchanged, componentVars
  <2>2. mode = "recovery"
    BY <2>1 DEF Repairing
  <2>3. audited' = audited \/ (half = {} /\ (audited' => comp = Resting))
    BY <1>9, Zenon DEF RepairStep, RepairConfigure, RepairConfigured, RepairAudit, RepairDone,
      RepairFails
  <2> QED BY <2>1, <2>2, <2>3 DEF Repairing
<1>10. CASE Reboot
  BY <1>10, Zenon DEF Reboot, Repairing
<1>11. CASE UNCHANGED vars
  BY <1>11 DEF vars, dpkgVars, baseVars, baseState, componentVars, recoveryVars, history, Repairing
<1> QED
  BY <1>1, <1>2, <1>3, <1>4, <1>5, <1>6, <1>7, <1>8, <1>9, <1>10, <1>11 DEF RecoveryNext, Menu

-----------------------------------------------------------------------------
(* The invariant, and the properties of the terminal. *)

LEMMA InvInit == RecoveryInit => Inv
<1> SUFFICES ASSUME RecoveryInit PROVE Inv
  OBVIOUS
<1> USE Distinct DEF RecoveryInit, Init, DatabaseInit, NoCommand, Idle, Resting
<1>1. TypeOK
  BY TypedInit, TypedIs
<1>2. Processes
  BY DEF Processes
<1>3. Locking
  BY DEF Locking, Checking
<1>4. Telling
  BY DEF Telling, Changing
<1>5. Cached
  BY DEF Cached
<1>6. OnlyApprovedInstalled
  BY BaseAssumption DEF OnlyApprovedInstalled
<1>7. Recording
  BY RecoveryAssumption DEF Recording, MixtureIsRecorded, Mixed
<1>8. Repairing
  BY DEF Repairing
<1> QED
  BY <1>1, <1>2, <1>3, <1>4, <1>5, <1>6, <1>7, <1>8 DEF Inv

LEMMA InvStep == Inv /\ [RecoveryNext]_vars => Inv'
<1> SUFFICES ASSUME Inv, [RecoveryNext]_vars PROVE Inv'
  OBVIOUS
<1> USE DEF Inv
<1>1. Typed /\ Booleans
  BY TypedIs
<1>2. Typed' /\ Booleans'
  BY <1>1, TypedStep, BooleansStep
<1>3. TypeOK'
  BY <1>2, Zenon DEF TypeOK, Typed, DatabaseTyped, BaseTyped, ComponentTyped, Booleans, Runs, Pcs,
    Plans
<1> QED
  BY <1>1, <1>3, ProcessesStep, LockingStep, TellingStep, CachedStep, ApprovedStep, RecordingStep,
    RepairingStep

LEMMA InvAlways == Spec => []Inv
BY InvInit, InvStep, PTL DEF Spec

(***************************************************************************)
(* A base package that is half installed while no update works on it is    *)
(* in the state file of the updater, whoever else has used dpkg since.     *)
(***************************************************************************)
THEOREM BrokenBaseAlwaysRecorded == Spec => []BrokenBaseIsRecorded
<1>1. Inv => BrokenBaseIsRecorded
  BY DEF Inv, Telling, BrokenBaseIsRecorded
<1> QED
  BY <1>1, InvAlways, PTL

(***************************************************************************)
(* However the index moves under an update, no base package gets a version *)
(* that no validated plan has named.                                       *)
(***************************************************************************)
THEOREM OnlyApprovedEverInstalled == Spec => []OnlyApprovedInstalled
<1>1. Inv => OnlyApprovedInstalled
  BY DEF Inv
<1> QED
  BY <1>1, InvAlways, PTL

(***************************************************************************)
(* Components that nobody is working on and that are not of one release,   *)
(* or half installed, are in the record, unless the component updater has  *)
(* itself thrown the record away.                                          *)
(***************************************************************************)
THEOREM MixtureAlwaysRecorded == Spec => []MixtureIsRecorded
<1>1. Inv => MixtureIsRecorded
  BY DEF Inv, Recording
<1> QED
  BY <1>1, InvAlways, PTL

(***************************************************************************)
(* What a repair has found clean stays clean until the next boot or the    *)
(* next operation on the components.                                       *)
(***************************************************************************)
THEOREM RepairAlwaysHolds == Spec => []RepairHolds
<1>1. Inv => RepairHolds
  BY DEF Inv, Repairing, RepairHolds
<1> QED
  BY <1>1, InvAlways, PTL

(***************************************************************************)
(* At most one process is behind dpkg's lock, and it is where its code     *)
(* waits for the command; no base package is unpacked for the component    *)
(* updater, no component for the base updater.                             *)
(***************************************************************************)
THEOREM DpkgAlwaysOwned == Spec => []Processes
<1>1. Inv => Processes
  BY DEF Inv
<1> QED
  BY <1>1, InvAlways, PTL
=============================================================================
