------------------------- MODULE RecoveryEnvironment -------------------------
(***************************************************************************)
(* The two update channels and the recovery environment on one terminal.   *)
(* They know nothing of each other's locks: what they share is dpkg.  The  *)
(* component updater is reduced here to the commands it gives dpkg and to  *)
(* what its record says meanwhile; UpdateTransaction has the rest of it.   *)
(***************************************************************************)
EXTENDS BaseOsUpdate

CONSTANTS
  Component, \* the packages of the signed bundles
  Updater,   \* the process that works on them, of a command or of the boot
  Repairer,  \* the process of xaac-recovery repair
  MaxRelease \* bound: bundles

ASSUME RecoveryAssumption ==
  /\ Component \subseteq Package /\ Component \cap Base = {}
  /\ Updater # Repairer /\ {Updater, Repairer} \cap (Admin \cup {None}) = {}
  /\ MaxRelease \in Nat

VARIABLES
  record,    \* status in transaction-state.json
  point,     \* the versions in the latest recovery point
  target,    \* the release the component updater has last been given
  comp,      \* where the component updater is, and for which operation
  repair,    \* where repair_system is
  report,    \* status in recovery's state.json
  evidenceLost, \* history: the record of a half-done operation is gone, or
                \* there never was one
  audited    \* history: a repair has found the database clean in this boot
             \* and no component operation has begun since

componentVars == <<record, point, target, comp>>
recoveryVars == <<repair, report>>
history == <<evidenceLost, audited>>
vars == <<dpkgVars, baseVars, componentVars, recoveryVars, history>>

Resting == [pc |-> "idle", how |-> "none"]

RecoveryInit ==
  /\ Init
  /\ record = "idle"
  /\ point = [p \in Component |-> 0] /\ target = 0
  /\ comp = Resting
  /\ repair = "idle" /\ report = "ready"
  /\ evidenceLost = FALSE /\ audited = FALSE

\* Atomic: through a temporary file.
WriteReport(r) == report' = r

Interrupted == record \in {"installing", "rolling_back"}
Tells == Interrupted \/ record = "rollback_failed"
Mixed == half \cap Component # {} \/ \E p, q \in Component : version[p] # version[q]

(***************************************************************************)
(* The component updater: apply_update, manual_rollback,                   *)
(* recover_interrupted and restore_latest_configuration.                   *)
(***************************************************************************)
\* verify_manifest has asked for a clean database, in whichever mode the
\* terminal has booted.
ComponentUpdate ==
  /\ Begin
  /\ comp = Resting
  /\ half = {}
  /\ target < MaxRelease
  /\ target' = target + 1
  /\ point' = [p \in Component |-> version[p]]
  /\ record' = "installing"
  /\ comp' = [pc |-> "unpack", how |-> "update"]
  /\ evidenceLost' = (evidenceLost \/ Mixed)
  /\ audited' = FALSE
  /\ UNCHANGED <<dpkgVars, baseState, recoveryVars>>

\* By xaac-update-admin, or by xaac-recovery, which then writes its report.
Rollback(how) ==
  /\ Begin
  /\ comp = Resting /\ target > 0
  /\ comp' = [pc |-> "unpack", how |-> how]
  /\ audited' = FALSE
  /\ UNCHANGED <<dpkgVars, baseState, record, point, target, recoveryVars, evidenceLost>>

\* Mutant: the two programs write one state file.
RestoreWrongFile ==
  /\ Begin
  /\ comp = Resting /\ target > 0
  /\ mode = "recovery"
  /\ report' = "configuration_restored"
  /\ evidenceLost' = (evidenceLost \/ Mixed)
  /\ UNCHANGED <<dpkgVars, baseState, record, point, target, comp, repair, audited>>

RestoreConfiguration ==
  /\ Begin
  /\ comp = Resting /\ target > 0
  /\ mode = "recovery"
  /\ record' = "configuration_restored"
  /\ \E r \in {"ready", "error"} : WriteReport(r)
  /\ evidenceLost' = (evidenceLost \/ Mixed)
  /\ UNCHANGED <<dpkgVars, baseState, point, target, comp, repair, audited>>

Wanted == [p \in Component |-> IF comp.how = "update" THEN target ELSE point[p]]

ComponentUnpack ==
  /\ comp.pc = "unpack"
  /\ Launch(Updater, {<<p, Wanted[p]>> : p \in Component}, {})
  /\ comp' = [comp EXCEPT !.pc = "unpacking"]
  /\ UNCHANGED <<baseVars, record, point, target, recoveryVars, history>>

\* dpkg --configure refuses a package that is configured already.
ComponentConfigure ==
  /\ comp.pc = "configure"
  /\ Component \subseteq half
  /\ Launch(Updater, {}, Component)
  /\ comp' = [comp EXCEPT !.pc = "configuring"]
  /\ UNCHANGED <<baseVars, record, point, target, recoveryVars, history>>

ComponentCommandDone ==
  /\ comp.pc \in {"unpacking", "configuring"}
  /\ Succeeds(Updater)
  /\ comp' = [comp EXCEPT !.pc = IF @ = "unpacking" THEN "configure" ELSE "health"]
  /\ UNCHANGED <<baseVars, record, point, target, recoveryVars, history>>

\* The command fails, or cannot even start: the other channel has dpkg's
\* lock or has configured the packages; or the health check, which looks at
\* the whole database, does not pass.
ComponentCommandFails ==
  \/ comp.pc = "unpack" /\ Locked /\ UNCHANGED dpkgVars
  \/ comp.pc = "configure" /\ (Locked \/ ~(Component \subseteq half)) /\ UNCHANGED dpkgVars
  \/ comp.pc \in {"unpacking", "configuring"} /\ Fails(Updater)
  \/ comp.pc = "health" /\ half # {} /\ UNCHANGED dpkgVars
  \/ comp.pc = "health" /\ faults < MaxFaults /\ faults' = faults + 1
       /\ UNCHANGED <<version, half, dpkg>>

\* Mutant: the rollback of an update counts as done, whatever came of it.
ComponentFailsQuietly ==
  /\ ComponentCommandFails
  /\ comp' = IF comp.how = "update" THEN [pc |-> "unpack", how |-> "auto"] ELSE Resting
  /\ record' = CASE comp.how = "update" -> "rolling_back"
                 [] comp.how = "auto" -> "rolled_back"
                 [] OTHER -> record
  /\ WriteReport(IF comp.how = "recovery" THEN "error" ELSE report)
  /\ evidenceLost' = (evidenceLost \/ (comp.how \in {"manual", "recovery"} /\ ~Tells))
  /\ UNCHANGED <<baseVars, point, target, repair, audited>>

\* Mutant: the boot tries again until the terminal is healthy.
ComponentFailsRetrying ==
  /\ ComponentCommandFails
  /\ comp' = CASE comp.how = "update" -> [pc |-> "unpack", how |-> "auto"]
               [] comp.how = "boot" -> [pc |-> "unpack", how |-> "boot"]
               [] OTHER -> Resting
  /\ record' = CASE comp.how = "update" -> "rolling_back"
                 [] comp.how = "auto" -> "rollback_failed"
                 [] OTHER -> record
  /\ WriteReport(IF comp.how = "recovery" THEN "error" ELSE report)
  /\ evidenceLost' = (evidenceLost \/ (comp.how \in {"manual", "recovery"} /\ ~Tells))
  /\ UNCHANGED <<baseVars, point, target, repair, audited>>

\* An update that fails is rolled back; a rollback that fails is over.
ComponentFails ==
  /\ ComponentCommandFails
  /\ comp' = IF comp.how = "update" THEN [pc |-> "unpack", how |-> "auto"] ELSE Resting
  /\ record' = CASE comp.how = "update" -> "rolling_back"
                 [] comp.how = "auto" -> "rollback_failed"
                 [] OTHER -> record
  /\ WriteReport(IF comp.how = "recovery" THEN "error" ELSE report)
  /\ evidenceLost' = (evidenceLost \/ (comp.how \in {"manual", "recovery"} /\ ~Tells))
  /\ UNCHANGED <<baseVars, point, target, repair, audited>>

ComponentDone ==
  /\ comp.pc = "health"
  /\ half = {}
  /\ \A p \in Component : version[p] = Wanted[p]
  /\ comp' = Resting
  /\ record' = IF comp.how = "update" THEN "confirmed" ELSE "rolled_back"
  /\ WriteReport(IF comp.how = "recovery" THEN "ready" ELSE report)
  /\ UNCHANGED <<dpkgVars, baseVars, point, target, repair, history>>

ComponentInterrupt ==
  /\ comp # Resting /\ comp.how # "boot"
  /\ dpkg' = IF dpkg.by = Updater THEN NoCommand ELSE dpkg
  /\ comp' = Resting
  /\ evidenceLost' = (evidenceLost \/ ~Tells)
  /\ UNCHANGED <<version, half, faults, baseVars, record, point, target, recoveryVars, audited>>

(***************************************************************************)
(* repair_system.                                                          *)
(***************************************************************************)
repairUnchanged == <<baseVars, componentVars, evidenceLost>>

StartRepair ==
  /\ Begin
  /\ repair = "idle" /\ mode = "recovery"
  /\ repair' = "configure"
  /\ UNCHANGED <<dpkgVars, baseState, componentVars, evidenceLost, report, audited>>

RepairConfigure ==
  /\ repair = "configure"
  /\ Launch(Repairer, {}, half)
  /\ repair' = "configuring"
  /\ UNCHANGED <<repairUnchanged, report, audited>>

RepairConfigured ==
  /\ repair = "configuring"
  /\ Succeeds(Repairer)
  /\ repair' = "audit"
  /\ UNCHANGED <<repairUnchanged, report, audited>>

\* Mutant: what dpkg --audit says is not looked at.
RepairUnaudited ==
  /\ repair = "audit"
  /\ repair' = "rebuild"
  /\ audited' = (comp = Resting)
  /\ UNCHANGED <<dpkgVars, repairUnchanged, report>>

RepairAudit ==
  /\ repair = "audit"
  /\ half = {}
  /\ repair' = "rebuild"
  /\ audited' = (comp = Resting)
  /\ UNCHANGED <<dpkgVars, repairUnchanged, report>>

\* update-initramfs and update-grub have worked, both boot entries are there.
RepairDone ==
  /\ repair = "rebuild"
  /\ repair' = "idle"
  /\ WriteReport("ready")
  /\ UNCHANGED <<dpkgVars, repairUnchanged, audited>>

RepairFails ==
  /\ \/ repair = "configure" /\ Locked /\ UNCHANGED dpkgVars
     \/ repair = "configuring" /\ Fails(Repairer)
     \/ repair = "audit" /\ half # {} /\ UNCHANGED dpkgVars
     \/ repair = "rebuild" /\ UNCHANGED dpkgVars
  /\ repair' = "idle"
  /\ WriteReport("error")
  /\ UNCHANGED <<repairUnchanged, audited>>

(***************************************************************************)
(* set_network starts or stops the network until the next boot; systemctl  *)
(* may fail, or the unit may not follow.  Nothing else here depends on it. *)
(***************************************************************************)
SetNetwork ==
  /\ mode = "recovery"
  /\ \E r \in {"ready", "error"} : WriteReport(r)
  /\ UNCHANGED <<dpkgVars, baseVars, componentVars, repair, history>>

\* The menu on the console of a recovery boot.
Menu == Rollback("recovery") \/ RestoreConfiguration \/ StartRepair \/ SetNetwork

(***************************************************************************)
(* Power lost, or a restart.  A normal boot looks at the record before the *)
(* kiosk and rolls an interrupted update back; a recovery boot does not.   *)
(***************************************************************************)
Reboot ==
  /\ BaseReboot
  /\ comp' = IF mode' = "normal" /\ Interrupted
             THEN [pc |-> "unpack", how |-> "boot"] ELSE Resting
  /\ evidenceLost' = (evidenceLost \/ (comp # Resting /\ ~Tells))
  /\ repair' = "idle"
  /\ audited' = FALSE
  /\ UNCHANGED <<record, point, target, report>>

-----------------------------------------------------------------------------
ComponentStep ==
  ComponentUnpack \/ ComponentConfigure \/ ComponentCommandDone \/ ComponentFails \/ ComponentDone

RepairStep ==
  RepairConfigure \/ RepairConfigured \/ RepairAudit \/ RepairDone \/ RepairFails

OtherVars == <<componentVars, recoveryVars, history>>

RecoveryNext ==
  \/ DatabaseStep /\ UNCHANGED <<baseVars, OtherVars>>
  \/ DebianPublishes /\ UNCHANGED OtherVars
  \/ \E a \in Admin : (UpdateStep(a) \/ BaseCommand(a)) /\ UNCHANGED OtherVars
  \/ ComponentUpdate \/ Rollback("manual") \/ ComponentStep \/ ComponentInterrupt
  \/ Menu \/ RepairStep
  \/ Reboot

Spec == RecoveryInit /\ [][RecoveryNext]_vars

\* Every command has a timeout and gets on; dpkg gets on with its packages.
FairSpec ==
  /\ Spec
  /\ WF_vars(DatabaseStep /\ UNCHANGED <<baseVars, OtherVars>>)
  /\ \A a \in Admin : WF_vars(UpdateStep(a) /\ UNCHANGED OtherVars)
  /\ WF_vars(ComponentStep)
  /\ WF_vars(RepairStep)

-----------------------------------------------------------------------------
\* The types of the variables.
TypeOK ==
  /\ version \in [Package -> Nat]
  /\ half \subseteq Package
  /\ dpkg \in [by : Admin \cup {None, Updater, Repairer},
               unpack : SUBSET (Package \X Nat), configure : SUBSET Package]
  /\ faults \in 0 .. MaxFaults
  /\ mode \in {"normal", "recovery"}
  /\ archive \in DOMAIN Archive /\ index \in 1 .. archive
  /\ debs \subseteq Base \X Nat
  /\ lock \in Admin \cup {None}
  /\ status \in {"idle", "current", "available", "downloading", "installing",
                 "completed", "failed_requires_recovery"}
  /\ run \in [Admin -> [pc : {"idle", "preflight", "refresh", "simulate", "record",
                              "snapshot", "download", "verify", "install", "installing",
                              "repair", "repairing", "health"},
                        update : BOOLEAN,
                        plan : SUBSET [pkg : Base, from : Nat, to : Nat]]]
  /\ approved \subseteq Base \X Nat
  /\ raced \in BOOLEAN
  /\ record \in {"idle", "installing", "rolling_back", "confirmed", "rolled_back",
                 "rollback_failed", "configuration_restored"}
  /\ point \in [Component -> Nat]
  /\ target \in 0 .. MaxRelease
  /\ comp \in [pc : {"idle", "unpack", "unpacking", "configure", "configuring", "health"},
               how : {"none", "update", "auto", "manual", "recovery", "boot"}]
  /\ repair \in {"idle", "configure", "configuring", "audit", "rebuild"}
  /\ report \in {"ready", "error"}
  /\ evidenceLost \in BOOLEAN /\ audited \in BOOLEAN

(***************************************************************************)
(* What base updates and repairs do to dpkg while the components are half  *)
(* updated never hides it: a mixture nobody works on is in the record that *)
(* the next normal boot looks at, or rollback_failed asks for a hand. The  *)
(* exceptions are the component updater's own (evidenceLost).              *)
(***************************************************************************)
MixtureIsRecorded ==
  Mixed /\ comp = Resting => Tells \/ evidenceLost

(***************************************************************************)
(* What a repair has found clean stays so until the terminal boots again   *)
(* or somebody begins to work on the components: a base update that was    *)
(* not over, or a new one, cannot get in between.                          *)
(***************************************************************************)
RepairHolds == audited => half = {}

(***************************************************************************)
(* An interrupted component update does not stay interrupted once the      *)
(* terminal boots normally, whatever the other channel is doing.           *)
(***************************************************************************)
BootSettles == comp.how = "boot" ~> comp.how # "boot"
=============================================================================
