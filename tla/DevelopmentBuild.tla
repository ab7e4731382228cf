--------------------------- MODULE DevelopmentBuild ---------------------------
(***************************************************************************)
(* The xaac-os commands that work in .build of one checkout: prepare,      *)
(* bootstrap, the configure-* commands of Block 2, build-image and clean.  *)
(* Every command but clean runs under WorkspaceManager's lock file; a run  *)
(* is a directory of .build/runs, and `current` names the latest one.      *)
(* production_builder.py uses none of this (see ImageBuild).               *)
(***************************************************************************)
EXTENDS Naturals, Sequences

CONSTANTS
  Builder,     \* processes of xaac-os
  None,        \* the owner of no lock
  Command,     \* the commands somebody gives
  CleanAlone,  \* TRUE: no command begins between clean's look at the lock and its rmtree
  Faults,      \* which of "raise", "power" and "busy" happen
  MaxCommands, \* bound: commands begun
  MaxRuns,     \* bound: run directories
  MaxFaults    \* bound: faults

Run == 1..MaxRuns

(***************************************************************************)
(* The stages.  needs: the stages whose files the configurator looks for   *)
(* before it writes; half: its files may be there although it has failed.  *)
(***************************************************************************)
\* A debootstrap that fails has its target removed, one interrupted has not.
DebootstrapStage == [needs |-> {}, half |-> TRUE]
\* Three files, one rename each.
AptStage == [needs |-> {"bootstrap"}, half |-> TRUE]
\* apt-get update and install in the rootfs.
PackagesStage == [needs |-> {"bootstrap", "apt"}, half |-> TRUE]
\* The host name, the locales and the time zone.
SystemStage == [needs |-> {"bootstrap", "packages"}, half |-> TRUE]
\* update-initramfs of every kernel, then a look for every initrd.
KernelStage == [needs |-> {"bootstrap", "packages"}, half |-> TRUE]
\* journald, tmpfiles and the links of the units.
SystemdStage == [needs |-> {"bootstrap", "packages"}, half |-> TRUE]
LocalizationStage == [needs |-> {"bootstrap", "packages"}, half |-> TRUE]
\* fstab is one rename.
FstabStage == [needs |-> {}, half |-> FALSE]
\* grub-install and update-grub, then a look for what they make.
UefiStage == [needs |-> {"bootstrap", "packages"}, half |-> TRUE]
UsersStage == [needs |-> {"bootstrap", "packages"}, half |-> TRUE]
NetworkStage == [needs |-> {"bootstrap", "packages"}, half |-> TRUE]
SshStage == [needs |-> {"bootstrap", "packages"}, half |-> TRUE]
FirewallStage == [needs |-> {"bootstrap", "packages"}, half |-> TRUE]
\* run_all: the hooks of every phase, until one fails or is too slow.
HooksStage == [needs |-> {}, half |-> TRUE]

StageOf ==
  [bootstrap |-> DebootstrapStage, apt |-> AptStage, packages |-> PackagesStage,
   system |-> SystemStage, kernel |-> KernelStage, systemd |-> SystemdStage,
   localization |-> LocalizationStage, fstab |-> FstabStage, uefi |-> UefiStage,
   users |-> UsersStage, network |-> NetworkStage, ssh |-> SshStage,
   firewall |-> FirewallStage, hooks |-> HooksStage]
Stage == DOMAIN StageOf

\* The files by which a stage is known, which it leaves: debootstrap writes a
\* placeholder of fstab.
FilesOf(s) == IF s = "bootstrap" THEN {"bootstrap", "fstab"} ELSE {s}

\* _build_image: the stages of Block 2 in their order.
Pipeline == <<"bootstrap", "apt", "packages", "system", "kernel", "systemd",
              "localization", "fstab", "uefi">>
Builds == {"build-image", "build-rootfs"}

ASSUME BuildAssumption ==
  /\ None \notin Builder
  /\ Command \subseteq {"prepare"} \cup Builds \cup (Stage \ {"hooks"})
  /\ CleanAlone \in BOOLEAN
  /\ Faults \subseteq {"raise", "power", "busy"}
  /\ MaxCommands \in Nat /\ MaxRuns \in Nat /\ MaxFaults \in Nat

VARIABLES
  lock,     \* the process whose name is in .build/.lock
  runs,     \* how many runs have been prepared
  kept,     \* the runs whose directories are there
  current,  \* .build/current; 0: missing
  files,    \* files[r]: the stages whose files, as later checks look for them, are in rootfs
  done,     \* done[r]: the stages that have finished in rootfs
  image,    \* image[r]: xaac-thin-client-os.img
  holds,    \* holds[r]: done[r] when rsync copied it into the image
  packed,   \* packed[r]: what the .img.gz is a copy of, with its .img.sha256
  stayed,   \* the runs whose image could not be unmounted
  recorded, \* the runs whose manifest.json gives the hashes of an image
  byHand,   \* history: the runs in which another command than build-image has worked
  proc,     \* the processes
  begun,    \* commands begun so far
  faults    \* faults so far

runVars == <<runs, kept, current, files, done, image, holds, packed, recorded, stayed, byHand>>
rootfsVars == <<runs, kept, current, files, done, byHand>>
artifactVars == <<image, holds, packed, recorded, stayed>>
vars == <<lock, runVars, proc, begun, faults>>

Idle == [pc |-> "idle", command |-> "none", run |-> 0, todo |-> <<>>]

Init ==
  /\ lock = None /\ runs = 0 /\ kept = {} /\ current = 0
  /\ files = [r \in Run |-> {}] /\ done = [r \in Run |-> {}]
  /\ image = [r \in Run |-> "none"] /\ holds = [r \in Run |-> {}]
  /\ packed = [r \in Run |-> "none"] /\ recorded = {} /\ stayed = {}
  /\ byHand = {}
  /\ proc = [p \in Builder |-> Idle] /\ begun = 0 /\ faults = 0

Fault(f) == f \in Faults /\ faults < MaxFaults /\ faults' = faults + 1

(***************************************************************************)
(* WorkspaceManager.                                                       *)
(***************************************************************************)
\* current(): the run it names, when that has a directory and a manifest.
Current == IF current \in kept THEN current ELSE 0

\* Mutant: the kernel is not looked for.
RootfsReadyWithoutKernel(r) == r # 0 /\ {"bootstrap", "fstab"} \subseteq files[r]

\* _build_image's rootfs_ready: Debian, fstab, a kernel and an initramfs.
RootfsReady(r) == r # 0 /\ {"bootstrap", "packages", "fstab"} \subseteq files[r]

\* acquire_lock: O_CREAT|O_EXCL.  A second command is refused and has done nothing.
AcquireLock(p, c) ==
  /\ c \in Command /\ begun < MaxCommands /\ begun' = begun + 1
  /\ proc[p].pc = "idle"
  /\ lock = None
  /\ CleanAlone => \A q \in Builder : proc[q].pc # "clean"
  /\ lock' = p

\* __exit__, on every way out of the command: unlink(missing_ok).
Leaves(p) ==
  /\ lock' = None
  /\ proc' = [proc EXCEPT ![p] = Idle]
  /\ UNCHANGED begun

WorksIn(p, c, r, todo) == proc' = [proc EXCEPT ![p] = [pc |-> "stage", command |-> c, run |-> r, todo |-> todo]]

\* WorkspaceManager.prepare: a new run directory with its manifest, then current.
NewRun(c) ==
  /\ runs < MaxRuns
  /\ runs' = runs + 1
  /\ kept' = kept \cup {runs + 1}
  /\ current' = runs + 1
  /\ byHand' = IF c \in Builds THEN byHand ELSE byHand \cup {runs + 1}
  /\ UNCHANGED <<files, done>>

(***************************************************************************)
(* The commands.                                                           *)
(***************************************************************************)
Prepare(p) ==
  /\ AcquireLock(p, "prepare")
  /\ NewRun("prepare")
  /\ WorksIn(p, "prepare", runs + 1, <<"hooks">>)
  /\ UNCHANGED <<artifactVars, faults>>

Bootstrap(p) ==
  /\ AcquireLock(p, "bootstrap")
  /\ NewRun("bootstrap")
  /\ WorksIn(p, "bootstrap", runs + 1, <<"bootstrap">>)
  /\ UNCHANGED <<artifactVars, faults>>

\* Without a current run a configure command only raises WorkspaceError.
Configure(p, s) ==
  /\ AcquireLock(p, s)
  /\ Current # 0
  /\ byHand' = byHand \cup {Current}
  /\ WorksIn(p, s, Current, <<s>>)
  /\ UNCHANGED <<runs, kept, current, files, done, artifactVars, faults>>

ConfigureApt(p) == Configure(p, "apt")
InstallPackages(p) == Configure(p, "packages")
ConfigureKernel(p) == Configure(p, "kernel")
ConfigureUefi(p) == Configure(p, "uefi")
ConfigurePartitions(p) == Configure(p, "fstab")
ConfigureSystemd(p) == Configure(p, "systemd")
ConfigureLocalization(p) == Configure(p, "localization")
ConfigureSystem(p) == Configure(p, "system")
ConfigureUsers(p) == Configure(p, "users")
ConfigureNetwork(p) == Configure(p, "network")
ConfigureSsh(p) == Configure(p, "ssh")
ConfigureFirewall(p) == Configure(p, "firewall")

\* build-image and build-rootfs take the current rootfs when it looks ready,
\* and else run every stage in a new one.
BuildReuses(p, c) ==
  /\ AcquireLock(p, c)
  /\ RootfsReady(Current)
  /\ WorksIn(p, c, Current, <<>>)
  /\ UNCHANGED <<rootfsVars, artifactVars, faults>>

BuildAnew(p, c) ==
  /\ AcquireLock(p, c)
  /\ ~RootfsReady(Current)
  /\ NewRun(c)
  /\ WorksIn(p, c, runs + 1, IF c = "build-rootfs" THEN SubSeq(Pipeline, 1, Len(Pipeline) - 1) ELSE Pipeline)
  /\ UNCHANGED <<artifactVars, faults>>

\* clean --force takes no lock: it looks at it and removes the tree.
CleanChecks(p) ==
  /\ begun < MaxCommands /\ begun' = begun + 1
  /\ proc[p].pc = "idle"
  /\ lock = None /\ runs > 0
  /\ proc' = [proc EXCEPT ![p] = [Idle EXCEPT !.pc = "clean"]]
  /\ UNCHANGED <<lock, runVars, faults>>

CleanRemoves(p) ==
  /\ proc[p].pc = "clean"
  /\ lock' = None
  /\ kept' = {} /\ current' = 0
  /\ files' = [r \in Run |-> {}] /\ done' = [r \in Run |-> {}]
  /\ image' = [r \in Run |-> "none"] /\ holds' = [r \in Run |-> {}]
  /\ packed' = [r \in Run |-> "none"] /\ recorded' = {}
  /\ proc' = [proc EXCEPT ![p] = Idle]
  /\ UNCHANGED <<runs, byHand, stayed, faults, begun>>

(***************************************************************************)
(* The stages.                                                             *)
(***************************************************************************)
Ahead(p) == Head(proc[p].todo)

\* debootstrap only ever begins in the empty target of a new run.
Accepts(r, s) ==
  /\ r \in kept
  /\ StageOf[s].needs \subseteq files[r]

StageDone(p) ==
  LET r == proc[p].run s == Ahead(p) IN
  /\ proc[p].pc = "stage" /\ proc[p].todo # <<>>
  /\ Accepts(r, s)
  /\ files' = [files EXCEPT ![r] = @ \cup FilesOf(s)]
  /\ done' = [done EXCEPT ![r] = @ \cup {s}]
  /\ proc' = [proc EXCEPT ![p].todo = Tail(@)]
  /\ UNCHANGED <<lock, runs, kept, current, artifactVars, byHand, faults, begun>>

StageRefuses(p) ==
  /\ proc[p].pc = "stage" /\ proc[p].todo # <<>>
  /\ ~Accepts(proc[p].run, Ahead(p))
  /\ Leaves(p)
  /\ UNCHANGED <<runVars, faults>>

\* What a stage that does not finish leaves: its files may be there or not.
Halves(r, s) ==
  \/ UNCHANGED <<files, done>>
  \/ /\ StageOf[s].half
     /\ files' = [files EXCEPT ![r] = @ \cup FilesOf(s)]
     /\ done' = [done EXCEPT ![r] = @ \ {s}]

\* A command of the stage fails, or Ctrl-C.
StageRaises(p) ==
  LET r == proc[p].run IN
  /\ proc[p].pc = "stage" /\ proc[p].todo # <<>>
  /\ Accepts(r, Ahead(p))
  /\ Fault("raise")
  /\ Halves(r, Ahead(p))
  /\ Leaves(p)
  /\ UNCHANGED <<runs, kept, current, artifactVars, byHand>>

\* After its stages a command writes the manifest; build-image goes on.
Finish(p) ==
  /\ proc[p].pc = "stage" /\ proc[p].todo = <<>>
  /\ proc[p].command # "build-image"
  /\ Leaves(p)
  /\ UNCHANGED <<runVars, faults>>

\* --dry-run: bootstrap prepares a run it leaves empty; build-image writes
\* image_sha256: null into the manifest of whichever run is current.
DryRun ==
  /\ begun < MaxCommands /\ begun' = begun + 1
  /\ lock = None
  /\ \/ /\ runs < MaxRuns
        /\ runs' = runs + 1 /\ kept' = kept \cup {runs + 1} /\ current' = runs + 1
        /\ UNCHANGED recorded
     \/ /\ Current # 0
        /\ recorded' = recorded \ {Current}
        /\ UNCHANGED <<runs, kept, current>>
  /\ UNCHANGED <<lock, files, done, image, holds, packed, stayed, byHand, proc, faults>>

(***************************************************************************)
(* BootableImageBuilder.execute.                                           *)
(***************************************************************************)
\* Mutant: execute does not look for an artefact of an earlier call.
CreateImageAgain(p) ==
  LET r == proc[p].run IN
  /\ proc[p].pc = "stage" /\ proc[p].todo = <<>>
  /\ proc[p].command = "build-image"
  /\ r \in kept /\ RootfsReady(r)
  /\ image' = [image EXCEPT ![r] = "partial"]
  /\ proc' = [proc EXCEPT ![p].pc = "fill"]
  /\ UNCHANGED <<lock, rootfsVars, holds, packed, recorded, stayed, faults, begun>>

\* The plan looks at the rootfs again; an artefact of an earlier call is refused.
CreateImage(p) ==
  LET r == proc[p].run IN
  /\ proc[p].pc = "stage" /\ proc[p].todo = <<>>
  /\ proc[p].command = "build-image"
  /\ r \in kept /\ RootfsReady(r)
  /\ image[r] = "none" /\ packed[r] = "none"
  /\ image' = [image EXCEPT ![r] = "partial"]
  /\ proc' = [proc EXCEPT ![p].pc = "fill"]
  /\ UNCHANGED <<lock, rootfsVars, holds, packed, recorded, stayed, faults, begun>>

RefuseImage(p) ==
  LET r == proc[p].run IN
  /\ proc[p].pc = "stage" /\ proc[p].todo = <<>>
  /\ proc[p].command = "build-image"
  /\ r \notin kept \/ ~RootfsReady(r) \/ image[r] # "none" \/ packed[r] # "none"
  /\ Leaves(p)
  /\ UNCHANGED <<runVars, faults>>

\* From losetup to sync.
FillImage(p) ==
  LET r == proc[p].run IN
  /\ proc[p].pc = "fill"
  /\ r \in kept
  /\ image' = [image EXCEPT ![r] = "whole"]
  /\ holds' = [holds EXCEPT ![r] = done[r]]
  /\ proc' = [proc EXCEPT ![p].pc = "unmount"]
  /\ UNCHANGED <<lock, rootfsVars, packed, recorded, stayed, faults, begun>>

\* The finally unmounts and detaches; the image stays as it is.
FillRaises(p) ==
  /\ proc[p].pc = "fill"
  /\ \/ Fault("raise")
     \/ proc[p].run \notin kept /\ UNCHANGED faults
  /\ Leaves(p)
  /\ UNCHANGED runVars

\* The finally of a call that has succeeded.
Unmount(p) ==
  /\ proc[p].pc = "unmount"
  /\ proc' = [proc EXCEPT ![p].pc = "hash"]
  /\ UNCHANGED <<lock, runVars, faults, begun>>

\* umount is not checked: the file system stays on the loop device, and rmtree
\* goes through its mount point.
UnmountBusy(p) ==
  /\ proc[p].pc = "unmount"
  /\ Fault("busy")
  /\ stayed' = stayed \cup {proc[p].run}
  /\ proc' = [proc EXCEPT ![p].pc = "hash"]
  /\ UNCHANGED <<lock, rootfsVars, image, holds, packed, recorded, begun>>

\* What was removed, the journal and a later umount reach the image when they
\* do: before its hash is taken, between that and the copy, or after both.
MountWrites(r) ==
  /\ r \in stayed /\ image[r] = "whole"
  /\ image' = [image EXCEPT ![r] = "changed"]
  /\ UNCHANGED <<lock, rootfsVars, holds, packed, recorded, stayed, proc, begun, faults>>

\* The hash of the image as it is now.
HashImage(p) ==
  /\ proc[p].pc = "hash"
  /\ proc[p].run \in kept
  /\ proc' = [proc EXCEPT ![p].pc = "pack"]
  /\ UNCHANGED <<lock, runVars, faults, begun>>

\* The gzip, which reads the image again, its hash and the checksum file.
Pack(p) ==
  LET r == proc[p].run IN
  /\ proc[p].pc = "pack"
  /\ r \in kept
  /\ packed' = [packed EXCEPT ![r] = image[r]]
  /\ proc' = [proc EXCEPT ![p].pc = "record"]
  /\ UNCHANGED <<lock, rootfsVars, image, holds, recorded, stayed, faults, begun>>

PackRaises(p) ==
  LET r == proc[p].run IN
  /\ proc[p].pc \in {"hash", "pack"}
  /\ \/ /\ r \in kept /\ Fault("raise")
        /\ packed' = IF proc[p].pc = "hash" THEN packed ELSE [packed EXCEPT ![r] = "partial"]
     \/ r \notin kept /\ UNCHANGED <<packed, faults>>
  /\ Leaves(p)
  /\ UNCHANGED <<rootfsVars, image, holds, recorded, stayed>>

\* The manifest with both hashes, and the end of build-image.
Record(p) ==
  LET r == proc[p].run IN
  /\ proc[p].pc = "record"
  /\ recorded' = IF r \in kept THEN recorded \cup {r} ELSE recorded \ {r}
  /\ Leaves(p)
  /\ UNCHANGED <<rootfsVars, image, holds, packed, stayed, faults>>

(***************************************************************************)
(* The build host.                                                         *)
(***************************************************************************)
\* The power goes: every process is gone, the lock file is not.
PowerCut ==
  /\ Fault("power")
  /\ \E p \in Builder : proc[p].pc \notin {"idle", "dead"}
  /\ proc' = [p \in Builder |-> IF lock = p THEN [Idle EXCEPT !.pc = "dead"] ELSE Idle]
  /\ \/ UNCHANGED <<files, done, packed>>
     \/ \E p \in Builder :
          /\ proc[p].pc = "stage" /\ proc[p].todo # <<>>
          /\ Accepts(proc[p].run, Ahead(p))
          /\ Halves(proc[p].run, Ahead(p))
          /\ UNCHANGED packed
     \/ \E p \in Builder :
          /\ proc[p].pc = "pack" /\ proc[p].run \in kept
          /\ packed' = [packed EXCEPT ![proc[p].run] = "partial"]
          /\ UNCHANGED <<files, done>>
  /\ UNCHANGED <<lock, runs, kept, current, image, holds, recorded, stayed, byHand, begun>>

\* Nothing in the code takes the lock of a dead process: whoever reads its pid
\* in the refusal removes the file by hand.
OperatorUnlocks ==
  /\ lock # None /\ proc[lock].pc = "dead"
  /\ proc' = [proc EXCEPT ![lock] = Idle]
  /\ lock' = None
  /\ UNCHANGED <<runVars, faults, begun>>

Commands(p) ==
  \/ Prepare(p) \/ Bootstrap(p) \/ ConfigureApt(p) \/ InstallPackages(p)
  \/ ConfigureSystem(p) \/ ConfigureKernel(p) \/ ConfigureSystemd(p)
  \/ ConfigureLocalization(p) \/ ConfigurePartitions(p) \/ ConfigureUefi(p)
  \/ ConfigureUsers(p) \/ ConfigureNetwork(p) \/ ConfigureSsh(p) \/ ConfigureFirewall(p)
  \/ \E c \in Builds : BuildReuses(p, c) \/ BuildAnew(p, c)
  \/ CleanChecks(p)

Steps(p) ==
  \/ CleanRemoves(p) \/ StageDone(p) \/ StageRefuses(p) \/ Finish(p)
  \/ CreateImage(p) \/ RefuseImage(p) \/ FillImage(p) \/ Unmount(p)
  \/ HashImage(p) \/ Pack(p) \/ Record(p)

Fails(p) == StageRaises(p) \/ FillRaises(p) \/ UnmountBusy(p) \/ PackRaises(p)

Next ==
  \/ \E p \in Builder : Commands(p) \/ Steps(p) \/ Fails(p)
  \/ \E r \in Run : MountWrites(r)
  \/ DryRun \/ PowerCut \/ OperatorUnlocks

Spec == Init /\ [][Next]_vars

(***************************************************************************)
(* Properties.                                                             *)
(***************************************************************************)
Places == {"idle", "dead", "clean", "stage", "fill", "unmount", "hash", "pack", "record"}
Process == [pc : Places, command : Command \cup {"none"}, run : 0..MaxRuns, todo : Seq(Stage)]

\* The shape of the state.
TypeOK ==
  /\ lock \in Builder \cup {None}
  /\ runs \in 0..MaxRuns /\ kept \subseteq 1..runs /\ current \in 0..runs
  /\ files \in [Run -> SUBSET Stage] /\ done \in [Run -> SUBSET Stage]
  /\ image \in [Run -> {"none", "partial", "whole", "changed"}]
  /\ holds \in [Run -> SUBSET Stage]
  /\ packed \in [Run -> {"none", "partial", "whole", "changed"}]
  /\ recorded \subseteq Run /\ stayed \subseteq 0..MaxRuns /\ byHand \subseteq Run
  /\ proc \in [Builder -> Process]
  /\ begun \in 0..MaxCommands /\ faults \in 0..MaxFaults

(***************************************************************************)
(* The hashes in a manifest are those of the artefacts beside it: the      *)
(* image is what its sync left, and the compressed copy is one of it.  No  *)
(* later command, fault or dry run breaks that; only of an image whose     *)
(* umount failed nothing can be said.                                      *)
(***************************************************************************)
ManifestTellsTruth ==
  \A r \in recorded \ stayed : image[r] = "whole" /\ packed[r] = "whole"

\* The first n stages of a build.
First(n) == {Pipeline[i] : i \in 1..n}

(***************************************************************************)
(* What rootfs_ready is worth.  Whatever failed or was cut before, an      *)
(* image of a run in which only build-image and build-rootfs have worked   *)
(* holds the stages of Block 2 up to one, never with a gap; that one is    *)
(* not before apt.                                                         *)
(***************************************************************************)
CutAfterApt ==
  \A r \in Run \ byHand : image[r] = "whole" =>
    \E n \in 2..Len(Pipeline) : holds[r] = First(n)

\* The lock keeps commands apart (phase-01-04): of two processes one is idle or cleaning.
OneCommandAtATime ==
  \A p, q \in Builder : p # q => {proc[p].pc, proc[q].pc} \cap {"idle", "clean"} # {}

=============================================================================
