---------------------------- MODULE BaseOsUpdate ----------------------------
(***************************************************************************)
(* The updater of the base system: os-check and os-update.  An update      *)
(* holds a lock of its own and contains a check; a check alone takes no    *)
(* lock.  Both keep one state file.                                        *)
(***************************************************************************)
EXTENDS PackageDatabase, Sequences

CONSTANTS
  Admin,     \* administrators, each in a shell of its own
  Base,      \* the packages of the Debian base
  Archive,   \* what Debian publishes: a sequence of [Base -> version]
  MaxBegun   \* bound: commands begun, of either channel, and boots

ASSUME BaseAssumption ==
  /\ Base \subseteq Package
  /\ None \notin Admin
  /\ MaxFaults \in Nat /\ MaxBegun \in Nat
  /\ Archive \in Seq([Base -> Nat]) /\ Archive # << >>
  /\ \A i, j \in DOMAIN Archive : i <= j => \A p \in Base : Archive[i][p] <= Archive[j][p]

VARIABLES
  mode,      \* how the terminal has booted
  archive,   \* what Debian has published so far
  index,     \* what apt-get update has last brought
  debs,      \* the packages downloaded and not cleaned
  lock,      \* who holds xaac-base-os-update.lock
  status,    \* status in base-os-state.json
  run,       \* where each administrator's command is
  approved,  \* history: what a validated plan of an update has contained
  begun,     \* bound: commands begun and boots
  raced      \* history: a check has written the state from what it had seen
             \* before an update began to install

baseState == <<mode, archive, index, debs, lock, status, run, approved, raced>>
baseVars == <<baseState, begun>>

Idle == [pc |-> "idle", update |-> FALSE, plan |-> {}]

Init ==
  /\ DatabaseInit
  /\ mode = "normal"
  /\ archive = 1 /\ index = 1
  /\ debs = {}
  /\ lock = None
  /\ status = "idle"
  /\ run = [a \in Admin |-> Idle]
  /\ approved = {}
  /\ raced = FALSE
  /\ begun = 0

\* What `apt-get upgrade` would do with the index it has.
Upgrade == {[pkg |-> p, from |-> version[p], to |-> Archive[index][p]] :
              p \in {q \in Base : Archive[index][q] > version[q]}}
Targets(plan) == {<<c.pkg, c.to>> : c \in plan}

\* Atomic: through a temporary file.
WriteState(s) == status' = s

At(a, pc) == run[a].pc = pc
Goto(a, pc) == run' = [run EXCEPT ![a].pc = pc]
\* Mutant: a lock file instead of flock, which a crash leaves behind.
ReturnLocked(a) == run' = [run EXCEPT ![a] = Idle] /\ UNCHANGED lock

\* The command is over, and with it the lock it may hold.
Return(a) ==
  /\ run' = [run EXCEPT ![a] = Idle]
  /\ lock' = IF lock = a THEN None ELSE lock

fixed == <<mode, archive, begun>>

Begin == begun < MaxBegun /\ begun' = begun + 1

DebianPublishes ==
  /\ archive < Len(Archive)
  /\ archive' = archive + 1
  /\ UNCHANGED <<dpkgVars, mode, index, debs, lock, status, run, approved, raced, begun>>

(***************************************************************************)
(* check_updates, alone or as the first part of an update.                 *)
(***************************************************************************)
StartCheck(a) ==
  /\ At(a, "idle") /\ Begin
  /\ Goto(a, "preflight")
  /\ UNCHANGED <<dpkgVars, mode, archive, index, debs, lock, status, approved, raced>>

\* A second update finds the lock taken and does nothing.
StartUpdate(a) ==
  /\ At(a, "idle") /\ Begin
  /\ lock = None
  /\ lock' = a
  /\ run' = [run EXCEPT ![a] = [@ EXCEPT !.pc = "preflight", !.update = TRUE]]
  /\ UNCHANGED <<dpkgVars, mode, archive, index, debs, status, approved, raced>>

\* dpkg --audit and apt-get check look at the database without its lock.
Preflight(a) ==
  /\ At(a, "preflight")
  /\ mode = "normal"
  /\ half = {}
  /\ Goto(a, "refresh")
  /\ UNCHANGED <<dpkgVars, fixed, index, debs, lock, status, approved, raced>>

Refresh(a) ==
  /\ At(a, "refresh")
  /\ index' = archive
  /\ Goto(a, "simulate")
  /\ UNCHANGED <<dpkgVars, fixed, debs, lock, status, approved, raced>>

Simulate(a) ==
  /\ At(a, "simulate")
  /\ run' = [run EXCEPT ![a] = [@ EXCEPT !.pc = "record", !.plan = Upgrade]]
  /\ UNCHANGED <<dpkgVars, fixed, index, debs, lock, status, approved, raced>>

\* The plan is valid.  A check is over; an update goes on if there is
\* something to do.
RecordPlan(a) ==
  LET plan == run[a].plan
      goesOn == run[a].update /\ plan # {}
  IN /\ At(a, "record")
     /\ WriteState(IF plan = {} THEN "current" ELSE "available")
     /\ IF goesOn THEN Goto(a, "snapshot") /\ UNCHANGED lock ELSE Return(a)
     /\ approved' = IF goesOn THEN approved \cup Targets(plan) ELSE approved
     /\ raced' = (raced \/ (lock # a /\ (lock # None \/ half \cap Base # {})))
     /\ UNCHANGED <<dpkgVars, fixed, index, debs>>

\* The sources are not the policy's, signed with Debian's keyring and fetched
\* over https; or another check of the platform does not pass.
PreflightRefuses(a) ==
  /\ At(a, "preflight")
  /\ Return(a)
  /\ UNCHANGED <<dpkgVars, fixed, index, debs, status, approved, raced>>

\* A command that fails, a plan that is not valid, a checkpoint that cannot be
\* written: an error, and nothing is recorded.
CheckFails(a) ==
  /\ run[a].pc \in {"refresh", "simulate", "record", "snapshot"}
  /\ Return(a)
  /\ UNCHANGED <<dpkgVars, fixed, index, debs, status, approved, raced>>

(***************************************************************************)
(* The rest of apply_update.                                               *)
(***************************************************************************)
Snapshot(a) ==
  /\ At(a, "snapshot")
  /\ WriteState("downloading")
  /\ Goto(a, "download")
  /\ UNCHANGED <<dpkgVars, fixed, index, debs, lock, approved, raced>>

\* apt downloads what the index asks for now.
Download(a) ==
  /\ At(a, "download")
  /\ debs' = debs \cup Targets(Upgrade)
  /\ Goto(a, "verify")
  /\ UNCHANGED <<dpkgVars, fixed, index, lock, status, approved, raced>>

\* Mutant: the state file says installing when the installation is over.
VerifyPlanUnrecorded(a) ==
  /\ At(a, "verify")
  /\ Upgrade = run[a].plan
  /\ Goto(a, "install")
  /\ UNCHANGED <<dpkgVars, fixed, index, debs, lock, status, approved, raced>>

VerifyPlan(a) ==
  /\ At(a, "verify")
  /\ Upgrade = run[a].plan
  /\ WriteState("installing")
  /\ Goto(a, "install")
  /\ UNCHANGED <<dpkgVars, fixed, index, debs, lock, approved, raced>>

\* Mutant: without --no-download.
InstallDownloading(a) ==
  /\ At(a, "install")
  /\ Launch(a, Targets(Upgrade), {c.pkg : c \in Upgrade})
  /\ Goto(a, "installing")
  /\ UNCHANGED <<fixed, index, debs, lock, status, approved, raced>>

\* --no-download: what is not in the cache is not installed, and the command
\* fails before it has changed anything.
Install(a) ==
  /\ At(a, "install")
  /\ Targets(Upgrade) \subseteq debs
  /\ Launch(a, Targets(Upgrade), {c.pkg : c \in Upgrade})
  /\ Goto(a, "installing")
  /\ UNCHANGED <<fixed, index, debs, lock, status, approved, raced>>

InstallImpossible(a) ==
  /\ At(a, "install")
  /\ Locked \/ ~(Targets(Upgrade) \subseteq debs)
  /\ Goto(a, "repair")
  /\ UNCHANGED <<dpkgVars, fixed, index, debs, lock, status, approved, raced>>

Installed(a) ==
  /\ At(a, "installing")
  /\ Succeeds(a) /\ Goto(a, "health")
  /\ UNCHANGED <<fixed, index, debs, lock, status, approved, raced>>

InstallFails(a) ==
  /\ At(a, "installing")
  /\ Fails(a) /\ Goto(a, "repair")
  /\ UNCHANGED <<fixed, index, debs, lock, status, approved, raced>>

\* dpkg --configure -a: every package that is half installed, whoever has
\* left it so.
Repair(a) ==
  /\ At(a, "repair")
  /\ Launch(a, {}, half)
  /\ Goto(a, "repairing")
  /\ UNCHANGED <<fixed, index, debs, lock, status, approved, raced>>

Repaired(a) ==
  /\ At(a, "repairing")
  /\ Succeeds(a) /\ Goto(a, "health")
  /\ UNCHANGED <<fixed, index, debs, lock, status, approved, raced>>

Healthy(a) == half = {} /\ \A c \in run[a].plan : version[c.pkg] = c.to

Complete(a) ==
  /\ At(a, "health")
  /\ Healthy(a)
  /\ WriteState("completed")
  /\ debs' = {}
  /\ Return(a)
  /\ UNCHANGED <<dpkgVars, fixed, index, approved, raced>>

\* Every other outcome from the download on: the handler records it.
UpdateFails(a) ==
  /\ \/ run[a].pc \in {"download", "verify", "install", "repair", "health"} /\ UNCHANGED dpkgVars
     \/ run[a].pc \in {"installing", "repairing"} /\ Fails(a)
  /\ WriteState("failed_requires_recovery")
  /\ Return(a)
  /\ UNCHANGED <<fixed, index, debs, approved, raced>>

\* Ctrl-C, a hang-up or an OSError: no handler.  What apt was doing stops.
Interrupt(a) ==
  /\ ~At(a, "idle")
  /\ dpkg' = IF dpkg.by = a THEN NoCommand ELSE dpkg
  /\ Return(a)
  /\ UNCHANGED <<version, half, faults, fixed, index, debs, status, approved, raced>>

\* Power lost, or a restart; GRUB offers the recovery entry.
BaseReboot ==
  /\ Begin
  /\ mode' \in {"normal", "recovery"}
  /\ dpkg' = NoCommand
  /\ lock' = None
  /\ run' = [a \in Admin |-> Idle]
  /\ UNCHANGED <<version, half, faults, archive, index, debs, status, approved, raced>>

UpdateStep(a) ==
  \/ Preflight(a) \/ PreflightRefuses(a) \/ Refresh(a) \/ Simulate(a) \/ RecordPlan(a)
  \/ CheckFails(a)
  \/ Snapshot(a) \/ Download(a) \/ VerifyPlan(a) \/ Install(a) \/ InstallImpossible(a)
  \/ Installed(a) \/ InstallFails(a) \/ Repair(a) \/ Repaired(a) \/ Complete(a)
  \/ UpdateFails(a)

BaseCommand(a) == StartCheck(a) \/ StartUpdate(a) \/ Interrupt(a)

-----------------------------------------------------------------------------
(***************************************************************************)
(* A base package that is half installed while no update works on it is    *)
(* what the state file tells the administrator: installing, for one that   *)
(* was cut, or failed_requires_recovery.  Not if a check that began before *)
(* the installation has written its result since.                          *)
(***************************************************************************)
BrokenBaseIsRecorded ==
  half \cap Base # {} /\ lock = None =>
    status \in {"installing", "failed_requires_recovery"} \/ raced

(***************************************************************************)
(* Whoever refreshes the index in the middle of an update, every base      *)
(* package is at the image's version or at one that a validated plan of an *)
(* update has named.                                                       *)
(***************************************************************************)
OnlyApprovedInstalled ==
  \A p \in Base : version[p] = 0 \/ <<p, version[p]>> \in approved

(***************************************************************************)
(* However an update ends, by itself, by Ctrl-C or with the power, its     *)
(* lock comes back.                                                        *)
(***************************************************************************)
BaseLockReleased == lock # None ~> lock = None
=============================================================================
