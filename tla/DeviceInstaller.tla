---------------------------- MODULE DeviceInstaller ----------------------------
(***************************************************************************)
(* xaac-installer-welcome, the shell program that the live medium runs on  *)
(* tty1 to install the terminal on one of its disks.  It lists the disks,  *)
(* asks which one, shows it, asks everything else, and then erases and     *)
(* fills it with set -eu and no way back.  What it writes reaches the disk *)
(* in any order until a sync; the power may go at any moment, and the      *)
(* operator starts again.                                                  *)
(***************************************************************************)
EXTENDS Naturals, FiniteSets

CONSTANTS
  Disk,        \* physical disks
  Name,        \* the names /dev gives them
  Size,        \* Size[d]: bytes of disk d, as lsblk gives them
  MinimumSize, \* 7000000000
  Live,        \* the disk of the live medium
  MaxInstalls, \* bound: installations that reach the disk
  MaxReplugs   \* bound: times the disks change their names

ASSUME InstallerAssumption ==
  /\ Live \in Disk
  /\ Size \in [Disk -> Nat] /\ MinimumSize \in Nat
  /\ IsFiniteSet(Disk) /\ IsFiniteSet(Name) /\ Cardinality(Disk) <= Cardinality(Name)
  /\ MaxInstalls \in Nat /\ MaxReplugs \in Nat

VARIABLES
  nodes,    \* nodes[d]: the name of disk d now
  disks,    \* disks[d]: its partitions, each with its file system
  pc,       \* where the program is
  listed,   \* the names and sizes of the list the operator has seen
  target,   \* the name chosen
  cache,    \* cache[i]: facts written to partition i and not yet forced to the disk
  installs, \* installations so far; also what tells their UUIDs apart
  replugs

operatorVars == <<listed, target>>
vars == <<nodes, disks, pc, operatorVars, cache, installs, replugs>>

Partition == 1..4
ESP == 1
ROOT == 2
RECOVERY == 4

\* What an installation leaves on each partition.
Facts(i) ==
  CASE i = ESP -> {"chain"}
    [] i = ROOT -> {"tree", "kernel", "fstab", "grub", "admin", "identity", "credential"}
    [] i = RECOVERY -> {"summary"}
    [] OTHER -> {}

\* uuid: the installation that formatted it, 0 for none of them; names: the
\* installation whose root the GRUB configuration in it looks for.
Unformatted == [uuid |-> 0, facts |-> {}, names |-> 0]
Blank == [table |-> 0, fs |-> [i \in Partition |-> Unformatted]]

Injections == {f \in [Disk -> Name] : \A d, e \in Disk : f[d] = f[e] => d = e}
None == [name |-> "none", size |-> 0]

Init ==
  /\ nodes \in Injections
  /\ disks = [d \in Disk |-> Blank]
  /\ pc = "start" /\ listed = {} /\ target = None
  /\ cache = [i \in Partition |-> {}]
  /\ installs = 0 /\ replugs = 0

\* The disk that has the chosen name now, if any.
Chosen == {d \in Disk : nodes[d] = target.name}

GoTo(from, to) == pc = from /\ pc' = to

(***************************************************************************)
(* The dialogue.                                                           *)
(***************************************************************************)
\* After language and keyboard: lsblk, once; the live medium is in the list too.
ListDisks ==
  /\ GoTo("start", "listed")
  /\ listed' = {[name |-> nodes[d], size |-> Size[d]] : d \in Disk}
  /\ UNCHANGED <<nodes, disks, target, cache, installs, replugs>>

\* The operator chooses; the program looks again at the size of what has the
\* name, at its minimum and at its mounts, and shows the summary.
SelectDisk ==
  \E l \in listed :
    /\ \E d \in Disk : nodes[d] = l.name /\ Size[d] = l.size /\ d # Live
    /\ l.size >= MinimumSize
    /\ GoTo("listed", "summary")
    /\ target' = [name |-> l.name, size |-> l.size]
    /\ UNCHANGED <<nodes, disks, listed, cache, installs, replugs>>

SelectionRefused ==
  /\ \E l \in listed :
       \/ \A d \in Disk : nodes[d] = l.name => Size[d] # l.size \/ d = Live
       \/ l.size < MinimumSize
  /\ GoTo("listed", "failed")
  /\ UNCHANGED <<nodes, disks, operatorVars, cache, installs, replugs>>

\* INSTALL XAAC; then the password, the host name and the RDP server.
Confirm ==
  /\ GoTo("summary", "answered")
  /\ UNCHANGED <<nodes, disks, operatorVars, cache, installs, replugs>>

\* Anything else: the terminal restarts.
Cancel ==
  /\ GoTo("summary", "failed")
  /\ UNCHANGED <<nodes, disks, operatorVars, cache, installs, replugs>>

\* Not the disk of the live medium, and not on battery.
Preflight ==
  /\ Live \notin Chosen
  /\ GoTo("answered", "wipe")
  /\ UNCHANGED <<nodes, disks, operatorVars, cache, installs, replugs>>

(***************************************************************************)
(* The disk.                                                               *)
(***************************************************************************)
\* wipefs and --zap-all: the table goes, the blocks of the partitions stay.
Wipe ==
  /\ installs < MaxInstalls
  /\ Chosen # {}
  /\ GoTo("wipe", "partition")
  /\ installs' = installs + 1
  /\ disks' = [d \in Disk |-> IF d \in Chosen THEN [disks[d] EXCEPT !.table = 0] ELSE disks[d]]
  /\ UNCHANGED <<nodes, operatorVars, cache, replugs>>

Target == CHOOSE d \in Disk : d \in Chosen

\* Mutant: one partition too many.
AddPartitionFive ==
  /\ pc = "partition" /\ disks[Target].table < 5
  /\ disks' = [disks EXCEPT ![Target].table = @ + 1]
  /\ pc' = IF disks[Target].table = 4 THEN "format" ELSE "partition"
  /\ UNCHANGED <<nodes, operatorVars, cache, installs, replugs>>

\* sgdisk -n, at the places of the installation before: what was there is there again.
AddPartition ==
  /\ pc = "partition" /\ disks[Target].table < 4
  /\ disks' = [disks EXCEPT ![Target].table = @ + 1]
  /\ pc' = IF disks[Target].table = 3 THEN "format" ELSE "partition"
  /\ UNCHANGED <<nodes, operatorVars, cache, installs, replugs>>

\* Mutant: the root partition is formatted before the ESP.
FormatOrderRootFirst == <<ROOT, ESP, 3, RECOVERY>>

\* The order of the four mkfs.
FormatOrder == <<ESP, ROOT, 3, RECOVERY>>

Formatted == {i \in Partition : disks[Target].fs[i].uuid = installs}

\* mkfs: a new UUID, on the disk when it returns.
Format ==
  /\ pc = "format"
  /\ LET k == Cardinality(Formatted) + 1 IN
     /\ disks' = [disks EXCEPT ![Target].fs[FormatOrder[k]] = [Unformatted EXCEPT !.uuid = installs]]
     /\ pc' = IF k = 4 THEN "mounted" ELSE "format"
  /\ UNCHANGED <<nodes, operatorVars, cache, installs, replugs>>

\* A step that writes f to partition i.
Writes(from, to, i, f) ==
  /\ GoTo(from, to)
  /\ cache' = [cache EXCEPT ![i] = @ \cup {f}]
  /\ UNCHANGED <<nodes, disks, operatorVars, installs, replugs>>

\* What is in the cache reaches the disk.
Flushed(fs, i, facts) ==
  [fs EXCEPT !.facts = @ \cup facts, !.names = IF "chain" \in facts THEN installs ELSE @]

Sync ==
  /\ disks' = [disks EXCEPT ![Target].fs = [i \in Partition |-> Flushed(@[i], i, cache[i])]]
  /\ cache' = [i \in Partition |-> {}]

DeployRootfs == Writes("mounted", "deployed", ROOT, "tree")
InstallKernel == Writes("deployed", "kernel", ROOT, "kernel")
WriteFstab == Writes("kernel", "fstab", ROOT, "fstab")
\* grub-install, the configuration and its one entry.
InstallGrub == Writes("fstab", "grub", ROOT, "grub")
\* The signed shim and GRUB, and the file in the ESP that names the root.
InstallShim == Writes("grub", "esp", ESP, "chain")

\* sync, unmount, fsck, mount.
CheckEsp ==
  /\ GoTo("esp", "bootable")
  /\ Sync
  /\ UNCHANGED <<nodes, operatorVars, installs, replugs>>

ActivateAdmin == Writes("bootable", "admin", ROOT, "admin")
\* Names, locale, network, new machine id and SSH keys, the installer removed.
WriteIdentity == Writes("admin", "identity", ROOT, "identity")
\* Step 10, which looks at everything once more, through the cache.
VerifyInstallation == Writes("identity", "verified", ROOT, "credential")
WriteSummary == Writes("verified", "summarised", RECOVERY, "summary")

\* Mutant: "complete" is said without the last sync.
CompleteUnsynced ==
  /\ GoTo("summarised", "complete")
  /\ UNCHANGED <<nodes, disks, cache, operatorVars, installs, replugs>>

Complete ==
  /\ GoTo("summarised", "complete")
  /\ Sync
  /\ UNCHANGED <<nodes, operatorVars, installs, replugs>>

(***************************************************************************)
(* The ways out, and the machine.                                          *)
(***************************************************************************)
OnDisk == pc \in {"partition", "format", "mounted", "deployed", "kernel", "fstab", "grub", "esp",
  "bootable", "admin", "identity", "verified", "summarised"}

\* xaac_installer_exit after a failed command or a signal: sync, unmount, and a
\* restart when the operator has read it.
Fail ==
  /\ pc \in {"start", "listed", "summary", "answered", "wipe"} \/ OnDisk
  /\ pc' = "failed"
  /\ IF OnDisk THEN Sync ELSE UNCHANGED <<disks, cache>>
  /\ UNCHANGED <<nodes, operatorVars, installs, replugs>>

Restarts ==
  /\ pc' = "start"
  /\ listed' = {} /\ target' = None
  /\ cache' = [i \in Partition |-> {}]

\* Return, and the terminal restarts or is switched off; the medium starts again.
StartAgain ==
  /\ pc \in {"failed", "complete"}
  /\ Restarts
  /\ UNCHANGED <<nodes, disks, installs, replugs>>

\* Nothing that was not on the disk is kept.
PowerCut ==
  /\ pc # "start"
  /\ Restarts
  /\ UNCHANGED <<nodes, disks, installs, replugs>>

\* The kernel writes back a file when it likes.
WriteBack ==
  /\ OnDisk
  /\ \E i \in Partition : \E f \in cache[i] :
       /\ disks' = [disks EXCEPT ![Target].fs[i] = Flushed(@, i, {f})]
       /\ cache' = [cache EXCEPT ![i] = @ \ {f}]
  /\ UNCHANGED <<nodes, pc, operatorVars, installs, replugs>>

\* Disks that are not in use are taken out and plugged in, under other names.
Replug ==
  /\ replugs < MaxReplugs /\ ~OnDisk
  /\ \E f \in Injections :
       /\ f # nodes /\ f[Live] = nodes[Live]
       /\ nodes' = f
  /\ replugs' = replugs + 1
  /\ UNCHANGED <<disks, pc, operatorVars, cache, installs>>

Next ==
  \/ ListDisks \/ SelectDisk \/ SelectionRefused \/ Confirm \/ Cancel \/ Preflight
  \/ Wipe \/ AddPartition \/ Format \/ DeployRootfs \/ InstallKernel \/ WriteFstab
  \/ InstallGrub \/ InstallShim \/ CheckEsp \/ ActivateAdmin \/ WriteIdentity
  \/ VerifyInstallation \/ WriteSummary \/ Complete
  \/ Fail \/ StartAgain \/ PowerCut \/ WriteBack \/ Replug

Spec == Init /\ [][Next]_vars

(***************************************************************************)
(* Properties.                                                             *)
(***************************************************************************)
\* The shape of the state.
TypeOK ==
  /\ nodes \in Injections
  /\ \A d \in Disk :
       /\ disks[d].table \in 0..4
       /\ \A i \in Partition :
            /\ disks[d].fs[i].uuid \in 0..installs /\ disks[d].fs[i].names \in 0..installs
            /\ disks[d].fs[i].facts \subseteq Facts(i)
  /\ pc \in {"start", "listed", "summary", "answered", "wipe", "complete", "failed"} \/ OnDisk
  /\ listed \subseteq [name : Name, size : Nat]
  /\ target \in listed \cup {None}
  /\ \A i \in Partition : cache[i] \subseteq Facts(i)
  /\ installs \in 0..MaxInstalls /\ replugs \in 0..MaxReplugs

\* Wherever an installation or a reinstallation is cut, the boot chain of the
\* ESP never looks for a root that is no longer there: an ESP beside a new
\* root is an empty one, and the firmware goes on to the live medium.
ChainNeverDangles ==
  \A d \in Disk : LET esp == disks[d].fs[ESP] IN
    disks[d].table >= ROOT /\ "chain" \in esp.facts => disks[d].fs[ROOT].uuid = esp.names

\* When the operator is told that the installation is complete, all of it is
\* on the disk, and the plug can be pulled.
CompleteIsDurable ==
  pc = "complete" => \E d \in Disk :
    /\ disks[d].table = 4
    /\ \A i \in Partition : disks[d].fs[i].uuid = installs /\ disks[d].fs[i].facts = Facts(i)

=============================================================================
