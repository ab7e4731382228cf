---------------------------- MODULE ImageBuild ----------------------------
(***************************************************************************)
(* The production builder, one invocation after another over the same      *)
(* build directory.  An invocation runs a selection of the six phases in   *)
(* a mount namespace of its own; any step of it may fail, and it may be    *)
(* killed, when the command it had started goes on alone: in the chroot,   *)
(* where the next invocation finds and stops it, or beside it, where a     *)
(* debootstrap is found only while it works inside the tree.               *)
(***************************************************************************)
EXTENDS RootfsConfiguration

CONSTANTS
  MaxRuns,   \* bound: invocations
  MaxFaults  \* bound: steps that fail and builders that are killed

ASSUME BuildAssumption == MaxRuns \in Nat /\ MaxFaults \in Nat

VARIABLES
  rootfs,    \* the facts that hold of the root file system
  mounted,   \* whether /dev, /proc, /sys and /run are mounted below it
  orphan,    \* the step a killed builder left running in the chroot, or 0
  strap,     \* whether a killed builder's debootstrap is still running
  boot,      \* boot/vmlinuz and boot/initrd.img
  squashfs,  \* rootfs.squashfs
  iso,       \* the image in artifacts
  manifest,  \* the release manifest beside it
  run,       \* the number of the invocation
  todo,      \* the phases it still has to run
  at,        \* where it is in the first of them
  full,      \* history: it has had all six of them to run
  beside,    \* history: its configure phase began beside an orphan
  stray,     \* history: it began beside such a debootstrap
  faults     \* bound: the faults so far

artifacts == <<boot, squashfs, iso, manifest>>
invocation == <<run, todo, at, full, beside, stray>>
vars == <<rootfs, mounted, orphan, strap, artifacts, invocation, faults>>

Phase == {"rootfs", "configure", "boot", "squashfs", "iso", "verify"}
Phases == <<"rootfs", "configure", "boot", "squashfs", "iso", "verify">>
Selections == {Phases} \cup {<<Phases[i]>> : i \in 1 .. 6}

\* A file knows the run that made it, whether it is whole, and what it was
\* made from.
NoFile == [run |-> 0, whole |-> FALSE, of |-> {}]
File(whole, of) == [run |-> run, whole |-> whole, of |-> of]
IsFile(f) == f.run # 0
NoIso == [file |-> NoFile, boot |-> NoFile, squashfs |-> NoFile]
NoManifest == [run |-> 0, iso |-> NoIso, squashfs |-> NoFile]

Files == [run : 0 .. MaxRuns, whole : BOOLEAN, of : SUBSET Facts]
Isos == [file : Files, boot : Files, squashfs : Files]

\* phase_boot's update-initramfs, after the steps of phase_configure.
Initramfs == Last + 1

\* The type of every variable.
TypeOK ==
  /\ rootfs \subseteq Facts /\ orphan \in 0 .. Initramfs /\ {mounted, strap} \subseteq BOOLEAN
  /\ boot \in Files /\ squashfs \in Files /\ iso \in Isos
  /\ manifest \in [run : 0 .. MaxRuns, iso : Isos, squashfs : Files]
  /\ run \in 0 .. MaxRuns /\ {full, beside, stray} \subseteq BOOLEAN /\ faults \in 0 .. MaxFaults
  /\ todo \in Seq(Phase) /\ at \in 0 .. Last

Init ==
  /\ rootfs = {} /\ mounted = FALSE /\ orphan = 0 /\ strap = FALSE
  /\ boot = NoFile /\ squashfs = NoFile /\ iso = NoIso /\ manifest = NoManifest
  /\ run = 0 /\ todo = <<>> /\ at = 0 /\ faults = 0
  /\ full = FALSE /\ beside = FALSE /\ stray = FALSE

Idle == todo = <<>>
In(phase) == ~Idle /\ todo[1] = phase
Configuring(i) == In("configure") /\ at = i
NextPhase == todo' = Tail(todo) /\ at' = 0 /\ UNCHANGED <<run, full, beside, stray>>
Go(where) == at' = where /\ UNCHANGED <<run, todo, full, beside, stray>>

\* cleanup_chroot_mounts stops what still runs below the root file system,
\* wherever that has got to, and unmounts.  It knows a process by its root,
\* its directory or its program: debootstrap, which runs outside, only by a
\* child that has just entered the tree.
Stopped == IF orphan \in 1 .. Last THEN CutShort(Pipeline[orphan], rootfs) ELSE {rootfs}
MayFindStrap == strap' \in {FALSE, strap}
CleansUp == orphan' = 0 /\ MayFindStrap

(***************************************************************************)
(* run: all phases, or those the command line names.                       *)
(***************************************************************************)
Invoke ==
  /\ Idle /\ run < MaxRuns
  /\ run' = run + 1 /\ at' = 0
  /\ todo' \in Selections /\ full' = (todo' = Phases) /\ beside' = FALSE
  /\ stray' = strap
  /\ UNCHANGED <<rootfs, mounted, orphan, strap, artifacts, faults>>

\* --clean: the ISO and its manifest lie outside the build directory.
Clean ==
  /\ In("rootfs") /\ at = 0 /\ full
  /\ CleansUp
  /\ rootfs' = {} /\ boot' = NoFile /\ squashfs' = NoFile
  /\ UNCHANGED <<mounted, iso, manifest, invocation, faults>>

ClearRootfs ==
  /\ In("rootfs") /\ at = 0
  /\ CleansUp
  /\ rootfs' = {} /\ Go(1)
  /\ UNCHANGED <<mounted, artifacts, faults>>

Debootstrap ==
  /\ In("rootfs") /\ at = 1
  /\ rootfs' = Bootstrap /\ NextPhase
  /\ UNCHANGED <<mounted, orphan, strap, artifacts, faults>>

(***************************************************************************)
(* phase_configure, a step at a time.                                      *)
(***************************************************************************)
BeginConfigure ==
  /\ Configuring(0) /\ "debian" \in rootfs
  /\ at' = 1 /\ beside' = (orphan # 0)
  /\ UNCHANGED <<run, todo, full, stray>>
  /\ UNCHANGED <<rootfs, mounted, orphan, strap, artifacts, faults>>

ConfigureStep ==
  /\ In("configure") /\ at > 0 /\ mounted = UsesChroot(at)
  /\ Possible(Pipeline[at], rootfs)
  /\ rootfs' = Effect(Pipeline[at], rootfs)
  /\ IF at = Last THEN NextPhase ELSE Go(at + 1)
  /\ UNCHANGED <<mounted, orphan, strap, artifacts, faults>>

NeedsMounts == \/ In("configure") /\ UsesChroot(at)
               \/ In("boot") /\ at = 0

MountTrees ==
  /\ NeedsMounts /\ ~mounted
  /\ rootfs' \in Stopped /\ CleansUp /\ mounted' = TRUE
  /\ UNCHANGED <<artifacts, invocation, faults>>

UnmountTrees ==
  /\ mounted /\ ~NeedsMounts
  /\ mounted' = FALSE
  /\ UNCHANGED <<rootfs, orphan, strap, artifacts, invocation, faults>>

(***************************************************************************)
(* phase_boot: the initramfs must hold the splash; the kernel and it are   *)
(* copied once the mounts are gone.                                        *)
(***************************************************************************)
BuildInitramfs ==
  /\ In("boot") /\ at = 0 /\ mounted /\ {"packages", "splash"} \subseteq rootfs
  /\ Go(1)
  /\ UNCHANGED <<rootfs, mounted, orphan, strap, artifacts, faults>>

CopyKernel ==
  /\ In("boot") /\ at = 1 /\ ~mounted
  /\ boot' = File(TRUE, {}) /\ NextPhase
  /\ UNCHANGED <<rootfs, mounted, orphan, strap, squashfs, iso, manifest, faults>>

(***************************************************************************)
(* phase_squashfs: the gates of the client and of Block 7, the old file    *)
(* removed, then mksquashfs and a look at the client and at the marker.    *)
(***************************************************************************)
\* Mutant: only the mounts are looked at.
RemoveSquashfsBesideOrphan ==
  /\ In("squashfs") /\ at = 0 /\ Gate \cup {"layout"} \subseteq rootfs
  /\ squashfs' = NoFile /\ Go(1)
  /\ UNCHANGED <<rootfs, orphan, strap, mounted, boot, iso, manifest, faults>>

RemoveSquashfs ==
  /\ In("squashfs") /\ at = 0
  /\ rootfs' \in Stopped /\ CleansUp
  /\ Gate \cup {"layout"} \subseteq rootfs'
  /\ squashfs' = NoFile /\ Go(1)
  /\ UNCHANGED <<mounted, boot, iso, manifest, faults>>

MakeSquashfs ==
  /\ In("squashfs") /\ at = 1
  /\ squashfs' = File(TRUE, rootfs) /\ Go(2)
  /\ UNCHANGED <<rootfs, mounted, orphan, strap, boot, iso, manifest, faults>>

InspectSquashfs ==
  /\ In("squashfs") /\ at = 2 /\ {"components", "marker"} \subseteq squashfs.of
  /\ NextPhase
  /\ UNCHANGED <<rootfs, mounted, orphan, strap, artifacts, faults>>

(***************************************************************************)
(* phase_iso takes the artifacts it finds.  phase_verify describes the     *)
(* image, and whatever squashfs lies in the build directory by then.       *)
(***************************************************************************)
RemoveIso ==
  /\ In("iso") /\ at = 0 /\ IsFile(boot) /\ IsFile(squashfs)
  /\ iso' = NoIso /\ Go(1)
  /\ UNCHANGED <<rootfs, mounted, orphan, strap, boot, squashfs, manifest, faults>>

MakeIso ==
  /\ In("iso") /\ at = 1
  /\ iso' = [file |-> File(TRUE, {}), boot |-> boot, squashfs |-> squashfs]
  /\ NextPhase
  /\ UNCHANGED <<rootfs, mounted, orphan, strap, boot, squashfs, manifest, faults>>

WriteManifest ==
  /\ In("verify") /\ IsFile(iso.file)
  /\ manifest' = [run |-> run, iso |-> iso, squashfs |-> squashfs]
  /\ NextPhase
  /\ UNCHANGED <<rootfs, mounted, orphan, strap, boot, squashfs, iso, faults>>

(***************************************************************************)
(* A phase that raises ends the invocation, and its mounts with it.  What  *)
(* the step had begun stays: part of the root file system, part of a file. *)
(***************************************************************************)
\* What the step may have left in the root file system.
Begun ==
  CASE In("rootfs") /\ at = 1 -> {{}, Bootstrap \cup {"short_base"}}
    [] In("configure") /\ at > 0 /\ mounted = UsesChroot(at) -> CutShort(Pipeline[at], rootfs)
    [] OTHER -> Stopped

PartialFile ==
  \/ UNCHANGED artifacts
  \/ In("squashfs") /\ at = 1 /\ squashfs' = File(FALSE, rootfs) /\ UNCHANGED <<boot, iso, manifest>>
  \/ In("boot") /\ at = 1 /\ boot' = File(FALSE, {}) /\ UNCHANGED <<squashfs, iso, manifest>>
  \/ /\ In("iso") /\ at = 1
     /\ iso' = [file |-> File(FALSE, {}), boot |-> boot, squashfs |-> squashfs]
     /\ UNCHANGED <<boot, squashfs, manifest>>

End == todo' = <<>> /\ at' = 0 /\ full' = FALSE /\ mounted' = FALSE /\ UNCHANGED <<run, beside, stray>>

\* Mutant: the run goes on with the next phase.
RaiseAndGoOn ==
  /\ ~Idle /\ faults < MaxFaults
  /\ faults' = faults + 1
  /\ rootfs' \in Begun /\ PartialFile /\ CleansUp /\ mounted' = FALSE
  /\ NextPhase

Raise ==
  /\ ~Idle /\ faults < MaxFaults
  /\ faults' = faults + 1
  /\ rootfs' \in Begun /\ PartialFile /\ CleansUp /\ End

\* A phase, or a step, whose preconditions do not hold raises.
Refuse ==
  /\ \/ Configuring(0) /\ "debian" \notin rootfs
     \/ In("configure") /\ at > 0 /\ mounted = UsesChroot(at) /\ ~Possible(Pipeline[at], rootfs)
     \/ In("boot") /\ at = 0 /\ mounted /\ ~({"packages", "splash"} \subseteq rootfs)
     \/ In("squashfs") /\ at = 0 /\ ~(Gate \cup {"layout"} \subseteq rootfs)
     \/ In("squashfs") /\ at = 2 /\ ~({"components", "marker"} \subseteq squashfs.of)
     \/ In("iso") /\ at = 0 /\ ~(IsFile(boot) /\ IsFile(squashfs))
     \/ In("verify") /\ ~IsFile(iso.file)
  /\ rootfs' \in Stopped /\ CleansUp /\ End
  /\ UNCHANGED <<artifacts, faults>>

(***************************************************************************)
(* The builder and its script are killed, and nothing is cleaned up.  The  *)
(* command they had started goes on, with its output in the log.           *)
(***************************************************************************)
WorksInChroot == mounted /\ NeedsMounts

KillInChroot ==
  /\ WorksInChroot
  /\ orphan' = IF In("boot") THEN Initramfs ELSE at
  /\ UNCHANGED <<rootfs, strap, artifacts>>

KillInDebootstrap ==
  /\ In("rootfs") /\ at = 1
  /\ strap' = TRUE
  /\ UNCHANGED <<rootfs, orphan, artifacts>>

\* What mksquashfs or grub-mkrescue still writes then, a build that makes the
\* file itself has unlinked before.
KillElsewhere ==
  /\ ~WorksInChroot /\ ~(In("rootfs") /\ at = 1)
  /\ IF In("configure") /\ at > 0 /\ mounted = UsesChroot(at)
       THEN rootfs' \in CutShort(Pipeline[at], rootfs) ELSE UNCHANGED rootfs
  /\ PartialFile
  /\ UNCHANGED <<orphan, strap>>

Kill ==
  /\ ~Idle /\ faults < MaxFaults
  /\ faults' = faults + 1
  /\ KillInChroot \/ KillInDebootstrap \/ KillElsewhere
  /\ End

OrphanEnds ==
  /\ orphan # 0
  /\ rootfs' = IF orphan = Initramfs THEN rootfs ELSE Effect(Pipeline[orphan], rootfs)
  /\ orphan' = 0
  /\ UNCHANGED <<mounted, strap, artifacts, invocation, faults>>

\* A debootstrap that goes on writes its base, and the host's name and
\* resolver, over what has become of the tree; or it fails over that.
StrapGoesOn ==
  /\ strap
  /\ rootfs' \in {rootfs, (rootfs \ {"identity"}) \cup Bootstrap \cup {"short_base"}}
  /\ strap' \in BOOLEAN
  /\ UNCHANGED <<mounted, orphan, artifacts, invocation, faults>>

BuildStep ==
  \/ Clean \/ ClearRootfs \/ Debootstrap
  \/ BeginConfigure \/ ConfigureStep \/ MountTrees \/ UnmountTrees
  \/ BuildInitramfs \/ CopyKernel
  \/ RemoveSquashfs \/ MakeSquashfs \/ InspectSquashfs
  \/ RemoveIso \/ MakeIso \/ WriteManifest
  \/ Refuse

Next == Invoke \/ BuildStep \/ Raise \/ Kill \/ OrphanEnds \/ StrapGoesOn

Spec == Init /\ [][Next]_vars

(***************************************************************************)
(* Properties.                                                             *)
(***************************************************************************)
\* A build of all six phases that comes to its end has put into the image a
\* kernel and a squashfs of its own making, the squashfs whole and of the
\* finished product, and the manifest describes them: nothing that an earlier
\* invocation left half done, and nothing that the chroot command of a killed
\* one still did, slips in.  Only of a build that began beside a debootstrap
\* of a killed one this is not known: nothing stops that while it downloads.
FullBuildShipsItself ==
  Idle /\ full /\ ~stray =>
    /\ iso.file = File(TRUE, {}) /\ iso.boot = File(TRUE, {})
    /\ iso.squashfs = File(TRUE, Product)
    /\ manifest = [run |-> run, iso |-> iso, squashfs |-> iso.squashfs]

\* phase_configure ends in one root file system, from whatever point earlier
\* passes were cut at; only what debootstrap itself missed it cannot tell, nor
\* what one that still runs writes into it.
ConfigureConverges ==
  [][Configuring(Last) /\ todo' = Tail(todo) /\ faults' = faults /\ ~stray
       => rootfs' \ {"short_base"} = Product]_vars

\* What a step of phase_configure tests or uses is there when its turn comes,
\* in a first pass and in one over the remains of others.  Only what a killed
\* builder left running can spoil a pass: its command in the chroot, for the
\* packages are staged before anything stops it, or its debootstrap.
NothingMissing ==
  In("configure") /\ at > 0 /\ ~beside /\ ~stray => Possible(Pipeline[at], rootfs)

\* While debootstrap refills the root file system, and while mksquashfs reads
\* it, no command of a killed builder works in the chroot and no tree of the
\* host is mounted below it; and no debootstrap is at work beside this
\* invocation that was not already when it began.
NothingRunsBelow ==
  (In("rootfs") \/ In("squashfs")) /\ at > 0 => orphan = 0 /\ ~mounted /\ (strap => stray)

=============================================================================
