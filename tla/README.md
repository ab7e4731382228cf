# Verification of XAAC Thin Client OS

TLA+ models, TLC runs and TLAPS proofs for the software that builds, installs
and keeps in working order an XAAC thin client: a Debian 13 appliance on a Wyse
3040 that is updated, recovered and supervised without a keyboard in front of
it. Section 1 is the inventory, 2 the plan, 3 to 11 go through the system part
by part, 12 lists where code and documents disagree, 13 what is not modelled.

`tlc -config <run>.cfg <module>` checks a run (the pairs are in `PROJECT.json`),
`tlapm <module>.tla` the proofs of a `*Proofs` module. Line numbers after a
colon are of the file the paragraph is about.

## 1. Inventory

| Component | Code | State it keeps | Operations | Interacts with |
|---|---|---|---|---|
| Component updater | `assets/runtime/xaac_update_runtime.py` | dpkg's database, package cache, recovery points, staging, `current-release.json`, `blocked-versions.json`, `transaction-state.json`, a flock | `apply_update`, `manual_rollback`, `restore_latest_configuration`, `recover_interrupted` | dpkg, systemd, the recovery environment, the boot |
| Update administration | `assets/runtime/xaac-update-admin` | `update-state.json`, audit log | `verify_manifest`, `preflight`, dispatch | both updaters |
| Base-OS updater | `assets/runtime/xaac_base_os_update_runtime.py` | `base-os-state.json`, plan, checkpoint, its own flock, apt's index and cache | `check_updates`, `apply_update`, `status` | apt and dpkg (the component updater's database) |
| Recovery environment | `assets/runtime/xaac_recovery_runtime.py`, `xaac-recovery` | `state.json`, audit | `rollback`, `restore_configuration`, `repair_system`, `set_network` | component updater, dpkg, initramfs, GRUB |
| Session supervisor | shell programs generated by `session_supervisor.py` | attempts, window, backoff, status and state file, events, pids, readiness file | restart loop, heartbeat, splash and backgrounds, session-entry | Remote, the Dock, recovery screens, the Agent |
| Maintenance | `assets/runtime/xaac_maintenance_runtime.py` | bundles, build directories, `state.json` | `diagnostics`, `cleanup`, reports | every other component's state files |
| First boot | `first_boot.py`, `device_identity.py` | identity files, state, completed marker | `run`, `create` | systemd condition, Agent |
| Production build | `production_builder.py` and the configurators it calls | root file system, mounts, kernel, squashfs, ISO, manifest | six phases, `--clean`, cleanup of the chroot | debootstrap, chroot, mksquashfs, xorriso |
| Development build | `cli.py`, `workspace.py`, `bootstrap.py`, `hooks.py`, `apt.py`, `bootable_image.py` | `.build`: lock file, run directories, `current`, manifests, images | `prepare`, `bootstrap`, `configure-*`, `build-image`, `build-rootfs`, `clean` | debootstrap, chroot, losetup |
| Installer | shell program generated by `production_builder.py` | the target disk | one run from the list of disks to "complete" | lsblk, sgdisk, mkfs, GRUB |
| Policy application | `policy_application.py` | active, rollback, staging and state files | `stage`, `apply`, `confirm`, `rollback` | remote management |
| VPN administration | `assets/runtime/xaac-vpn-admin` | OpenVPN 3 profiles | `provision`, `policy`, `remove` | openvpn3 |
| Locale tools | `xaac-admin-change-language`, `-keyboard` | locale, GRUB, session files | one command each | initramfs |
| Configuration planners | about a hundred modules | none | validate a profile, write files | the two builds |
| Boot media, release tools | `iso_builder.py`, `pxe_builder.py`, `final_release.py`, … | none | one pass each | archives, signatures |

What is hard in this code: power losses between two writes of a transaction;
signals, which `except Exception` does not see; several administrators, a boot
service and a recovery menu over the same files; two update channels with a
lock each over one dpkg database; checks made before a lock is taken; failures
while a failure is handled; builds and installations over what an earlier one
has left; processes of the session that die in any order; limits and the order
in which they are enforced. The list, with lines, is `hazards` in
`PROJECT.json`.

What makes each component correct:

- **Component updater**: the component set is one signed, healthy release
  whenever nothing runs and nothing is left for the next boot; an interrupted
  update can be rolled back and is; a combination that failed is never installed
  again; the lock comes back.
- **Base-OS updater, recovery**: only approved versions are installed; what is
  half installed is on record; neither channel hides or keeps alive what the
  other has left; what a repair found clean stays clean.
- **Session supervisor**: restarts are bounded in any window; giving up is
  justified; a late heartbeat never replaces a failure; no client starts beside
  the remains of the last one; a zero, which stops the kiosk for good, is true.
- **Maintenance**: the bundle on record is whole and what it says did happen.
- **First boot**: a first boot ends with an identity.
- **Builds**: an image holds what its manifest says, whatever earlier
  invocations left behind; nothing writes to a tree that is being packed.
- **Installer**: what can boot leads to a root that is there; "complete" means
  that the plug can be pulled.

How the parts compose. `UpdateTransaction` is the component updater file by
file. `RecoveryEnvironment` extends `BaseOsUpdate`, which extends
`PackageDatabase`: both channels, the recovery programs and the boots over one
dpkg, the component updater reduced to its commands and its record.
`RestartPolicy` and `StatePublication` are the supervisor's time and its two
processes, both refining `SessionStates`; `KioskSession` is the same loop seen
from the display, with the choice between restart and giving up left free.
`ImageBuild` runs the steps of `RootfsConfiguration`. The builds, the installer
and first boot meet only through an image that has been written.

## 2. Plan

Done:

1. `UpdateTransaction`, with `UpdateTransactionProofs`.
2. `SessionStates`, `RestartPolicy`, `StatePublication`, with
   `SessionSupervisorProofs`.
3. `PackageDatabase`, `BaseOsUpdate`, `RecoveryEnvironment`: the composition,
   with `RecoveryEnvironmentProofs`.
4. `KioskSession` with `KioskSessionProofs`.
5. `RootfsConfiguration`, `ImageBuild` with `ImageBuildProofs`;
   `DevelopmentBuild` with `DevelopmentBuildProofs`.
6. `Maintenance` with `MaintenanceProofs`; `DeviceInstaller`
   with `ProvisioningProofs`; `FirstBoot`.

Every safety property and every refinement that a passing run checks is also a
theorem. Left: an abstract release, to which `UpdateTransaction` and the reduced
updater of `RecoveryEnvironment` are both mapped, so that the second is known to
be the first seen from dpkg.

Modules that are proved about declare no RECURSIVE operator; each constant has
its assumption in the module that declares it.

## 3. The component updater

### 3.1 How `UpdateTransaction` corresponds to the code

| Variable | Code |
|---|---|
| `installed` | dpkg's database: version and "install ok installed" of each component |
| `cache` | `package_cache/<package>/<version>.deb`: absent, torn (a copy cut short) or whole |
| `points` | `recovery-points/<txid>`: no directory, a directory, or a directory with `recovery-point.json` (the versions to go back to and a copy of the release manifest) |
| `staging`, `current`, `blocked`, `disk` | the files of the same purpose; `disk` is `transaction-state.json` |
| `holder`, `pc`, `target`, `tx`, `todo` | who holds the flock, where in the code it is, and its local variables |
| `verified` | what an administrator has verified and not yet applied: `verify_manifest` runs without the lock |
| `boot`, `readTx` | `recover_interrupted` in this boot: not started, has read the record, has the lock, over |
| `lastTx`, `faults` | bounds only |

Every durable write is a step of its own, so `Reboot` (power loss: processes
and the lock vanish, files stay) and `Interrupt` (Ctrl-C or SIGHUP of an
administrator's command: neither is an `Exception`, so no handler runs) fall
between any two. `dpkg --unpack` and `dpkg --configure` treat one package a
step. `AbortUpdate` is a failure before "installing"; `FailUpdate` is the
`except` branch once a recovery point exists; `RollbackStep` is
`_rollback_from_recovery`, shared by the automatic rollback (`target # None`),
`manual_rollback` and the boot service. An update that installs but is not
healthy is a member of `Defective`.

`MkdirExistOk = FALSE` is the code as written: `_cache_candidates` calls
`mkdir(parents=True)` on a directory that exists once any version of the
package has been cached, and raises. `TRUE` is the one-word repair. The
repaired form is checked as well because the rest of the transaction — caching,
publishing, confirming, pruning, the second update — is reachable only with it.

### 3.2 Runs

All on two components, three versions and four component sets: the image's,
one that installs but fails its health check, and two good ones, one of which
leaves a component unchanged and one of which is newer in both (so that sets
can be skipped, repeated and met out of order).

| Run | Instance | Shows |
|---|---|---|
| `update_shipped` | code as written, 2 administrators, 2 updates, 2 faults among power loss and lost write, `FairSpec` | `SettledIsReleased`: the terminal never ends on a mixture; `InterruptedIsRecoverable`, `PointsAreKnownGood`; `LockReleased`, `BootRecovers` |
| `update_operators` | cache directory repaired, 2 administrators with every command, every fault, boot service unordered, one recovery point kept | `EvidenceRestorable`, `RolledBackIsBlocked`, `BlockedNeverInstalled` hold whatever people do |
| `healthy_update_rolled_back` | 1 administrator, no fault | a violation of `HealthyUpdateIsKept` (section 12) |

Two updates are the least with which a rollback meets what an earlier update has
left; with one recovery point kept (`MaxPoints = 1`) the second confirmation
prunes, and a manual rollback then uses the one that stayed. Two faults are a
power loss during the recovery from a power loss. Two administrators are enough
for every race, since the lock excludes a third from doing anything the second
could not.

Fairness: weak fairness of the lock holder's steps and of the boot service's.
Each external command the holder runs has a `timeout` argument, so the holder
gets on; systemd starts the boot service in each boot. Administrators owe
nothing, and no fault is fair. `CHECK_DEADLOCK FALSE`: a terminal nobody
updates, within the bounds, has nothing left to do.

### 3.3 Proofs

`UpdateTransactionProofs` proves, for every set of components, versions,
manifests and administrators, every bound, both values of `MkdirExistOk` and
every choice of commands and faults: `TypeCorrect`, `EvidenceAlwaysRestorable`,
`RolledBackAlwaysBlocked`, `BlockedNeverUnpacked`. None of the four properties
is inductive; `TypeInv` adds what the lock holder's place in the code says of
its variables (`RunShape`: after the recovery point is filled it stays
complete, an update has a target), that complete points have their `.deb`s
(`PointsShape`, kept because nothing ever removes a file of the cache and a
torn copy only appears where there was none: `TearKeeps`, `PointsKept`), what
`transaction-state.json` says at each step (`DiskShape`) and that between the
look into the registry and the unpacking nobody adds to it (`BlockedShape`).

The same module proves `SetAlwaysAtomic`, `InterruptedAlwaysRecoverable` and
`PointsAlwaysKnownGood` from the assumption `DocumentedUse`: updates only, power
losses and lost writes at any step, and commands that wait for the boot service
(its unit is ordered before the graphical login; an administrator who comes by
ssh has to wait of his own accord, section 12). The counterexamples of section 12 (a cut manual rollback, Ctrl-C, a boot
service that does not come first) show that each part of it is needed. `AtomicInv` adds to `TypeInv` the
recorded status at each step (`RecordShape`), the exclusion of the boot service
and the commands (`BootShape`), that the release in force and every release a
point leads to is good and whole in the cache (`CacheShape`: the reason a
rollback cannot fail), and what is installed at each step (`InstallShape`: a
half-done loop has treated exactly the components not in `todo`).

Constants: `ConstantsOK` — versions are naturals, manifests assign a version to
every component, the image's set is a good manifest, the boot service is no
administrator.

Model-checked only: `LockReleased` and `BootRecovers` (liveness).

### 3.4 Left out

The content of the configuration archive; whether a write that returned
survives a power loss (no `fsync` in the code; the model takes it to);
`rollback-state.json` and the audit log, which nothing reads back; signature
and hash verification of a bundle (a manifest in `Manifests` is a signed one);
two directories with one modification time (`_latest_recovery_point` then has
no defined order; the model takes creation order); copying
`current-release.json`, taken as one step.

## 4. The session supervisor: time and publication

`session_supervisor.py` generates a shell program that runs for as long as a
kiosk session: it starts the client, waits for it, and after a failure waits
and starts it again or gives up. It writes a status file, publishes
`state.json` and events for the Agent, and forks a heartbeat that publishes
again every 30 seconds. It is modelled twice, because its time and its
concurrency do not meet: nothing the heartbeat does changes a counter, and no
counter decides what the heartbeat does. Both modules implement
`SessionStates`, the order in which the states of a session may be seen.

### 4.1 How the modules correspond to the code

`RestartPolicy` — one action per stretch of the loop (lines 374–438) between
two waits. Nothing ticks: an action that waits takes its duration from a set.

| State | In the code |
|---|---|
| `attempts`, `backoff` | the variables of those names |
| `sinceWindow`, `sinceStart` | `ended - window_start`, `ended - started`: what `date` says |
| `status` | the status file, `write_status`; `write_shared_state` follows each call with the same state |
| `events` | the `.json` files of the event directory, at most `MaxEvents`, in the order of publication; with what their names say of the second and of the width of the number |
| `stamp` | whether the second of the last publication is over, and if not, whether `EVENT_SEQUENCE` has gained a digit in it |
| `restarts`, `failures` | history: real ages of those in the last `Window` seconds |
| `clockSteps` | bound on how often the clock is set |

| Action | In the code |
|---|---|
| `GraphicsReady`, `GraphicsMissing` | `wait_for_graphics`; the window already runs meanwhile |
| `StartSession`, `LaunchClient` | up to the splash, and from it to the client; a missing splash is only reported |
| `SurfaceMapped`, `SurfaceTimeout` | `wait_for_interactive_surface`, which looks for windows and never at the client, then `running` |
| `ExitVoluntary`, `ExitFailed` | `wait`, the voluntary codes, the two resets (`Forgiven`), the count |
| `GiveUp` | beyond `MAX_RESTARTS`: `degraded`, and the error screen takes the process over |
| `RecoveryScreenShown`, `RecoveryScreenFails` | the backoff, on the screen or, if that fails, asleep after it; then it doubles |
| `ClockStep` | time synchronisation |

`StatePublication` — the system calls of `write_shared_state` as both processes
make them. A file is an inode with a content; a process that has it open writes
to the inode, whatever its name has become. `$$` is the same in the subshell,
so there is one temporary name. `KillHeartbeat` may come at any point of the
heartbeat; if the subshell was waiting for its `mv`, that goes on alone
(`orphan`). A client that has died answers `kill -0` until it has been waited
for (`dead`, `reaped`). A heartbeat begins by sleeping 30 seconds, and the
model takes an orphan's rename not to last that long; nothing else is assumed
of its speed.

### 4.2 Runs

| Run | Instance | Shows |
|---|---|---|
| `policy_shipped` | the profile of `config/session-supervisor.yaml`, runs of 0, 20 and 45 s, one clock step of an hour | `DegradedIsJustified`; `RestartsPerWindow`: five restarts in any 60 s at most, also across two windows (where it is the backoff that bounds them); `EventsTellTheStory`; `StatusFollowsSession` |
| `publication` | any write may fail, `FairSpec` | `LastPublicationStays`; `ReadersFollowSession` until a publication fails; `DeathIsPublished` unless one has |

Durations are chosen at the edges: none, just enough to pass a window after a
few failures, beyond `ResetAfter`. Six failures without any run time take
exactly 2+4+8+16+30 = 60 seconds, the last moment at which the shipped limit
can be reached; any second spent starting pushes the sixth out of the window,
and afterwards the backoff stays at 30. Four inodes are one more than are in use
at a time. The event queue is cut at three, so that pruning happens all the
time, and with no time between the start of a client and its failure five
events may fall in one second, at any of which the number may gain its digit.

Fairness: in `publication` the supervisor, a program that runs on, is weakly
fair; neither the heartbeat nor an orphan is needed for a death to be seen.
`policy_shipped` needs none. `CHECK_DEADLOCK FALSE`: the program ends, stopped
or replaced by the error screen.

### 4.3 Proofs

`SessionSupervisorProofs` is about both modules. `RestartPolicy`, for every
profile the loader accepts and all sets of durations: `RestartTypeCorrect`
(inductive with `LimitInv`: the counter is over its limit only between the
failure and giving up) and `DegradedAlwaysJustified`, from the assumption that
the clock is never set back. Its invariant says what the counter stands for:
within a window, `attempts` is at most the number of failures that lie in it
(`CounterInv`), and these have different ages because every backoff lasts at
least a second (`WindowInv`). Aging is an injection, hence the lemmas about
cardinality.

`RestartsAlwaysBounded` (`RestartsPerWindow`) needs a hypothesis on the profile,
`BackoffCovers`: a limit of three at least, a backoff that reaches its maximum
within `MaxRestarts - 1` doublings, and a window of at most two maxima. The
counter cannot carry the property, for it starts over with each window; the
backoff does, for it only ever grows. `SpreadInv` says how: while the backoff
still grows there have been as few restarts as doublings, and at the maximum one
of the restarts in the window is about to leave it. With a limit of 2 the
property does not hold. `ShippedProfileCovers` shows that the shipped profile is
one of those meant. Clock steps do not matter: the property counts seconds that
pass.

`EventsAlwaysTellTheStory` (while the clock is not set back) and
`StatusAlwaysFollowsSession`, that `RestartPolicy` implements `SessionStates`
(`StatusInv`: what is published at each place), hold for every profile. In
`StoryInv` the place in the loop decides which event was published last; that
one is the last of the queue, unless pruning took it because its number had
gained a digit, and then all of the queue is of one second. Pruning takes from
the first second only (`PrunedType`), which the property leaves apart.

`StatePublication`, for every set of inodes and whichever writes fail:
`PublicationTyped`, `PublicationNeverOverwritten` and
`ReadersAlwaysFollowSession`, the implementation of `SessionStates` (a reader
that has met a publication that failed is not promised anything any more:
`skipped`). `PublicationInv` says who may have the temporary file
(`BeatInv`, `NamesInv`) and what a late `mv` would rename (`OrphanInv`): after a
publication there is nothing under the temporary name, or what is there is the
state just published. That is why the shared name, which tears the file for a
moment, is also what keeps a stale `running` from replacing a failure; a
temporary file of its own for the heartbeat breaks `ReadersFollowSession` (the
mutant `OrphanRenamesOwnFile`).

Model-checked only: `DeathIsPublished` (liveness).

### 4.4 Left out

The processes on the display and `session-entry` (section 6); a recovery screen that is ended by a signal, which shortens its backoff; a failed
write of the status file or of an event; the order of event names after a clock
step back; the file's contents beyond the state; `state.json` of an earlier
boot.

## 5. Base-OS updates and recovery over one dpkg database

### 5.1 How the modules correspond to the code

`PackageDatabase` is dpkg as its callers see it: `version`, `half` (unpacked,
not configured) and the command that holds its lock, which treats one package
after another (`UnpackOne`, `ConfigureOne`), ends (`Succeeds`), or stops where
it is (`Fails`: a maintainer script, a full disk, the caller's `timeout`).

`BaseOsUpdate` is `xaac_base_os_update_runtime.py`. `run[a].pc` is where an
administrator's command is: `Preflight`, `Refresh`, `Simulate`, `RecordPlan` are
`check_updates`, alone (without any lock) or as the first part of an update;
`Snapshot`, `Download`, `VerifyPlan` (the plan computed again and compared with
the approved one, `:769`), `Install` (`--no-download`), `Repair`, `Complete`,
`UpdateFails` are the rest of `apply_update`. `lock` is its flock, `status` the
state file, `index` and `debs` apt's lists and cache, `approved` the history of
what a validated plan of an update has named. A flock goes with its process:
`Interrupt`, `BaseReboot`.

`RecoveryEnvironment` adds the recovery programs and a component updater
reduced to the commands it gives dpkg and to what `transaction-state.json` says
meanwhile (`record`); the files around it are `UpdateTransaction`'s subject. It
holds a lock of its own, so at most one command works for it (`comp`), whether
an update, the rollback of one, a manual one, that of the recovery menu, or the
boot service's. `StartRepair` to `RepairFails` are `repair_system`, which takes
neither lock; `SetNetwork`, `RestoreConfiguration` and `Rollback("recovery")`
are the rest of the menu (`Menu`). `Reboot` is a power loss or a restart into
either mode; only a normal boot looks at the record.

### 5.2 The run

`system_maintenance`: two packages of each channel, two administrators of the
base system, one bundle, three commands or boots, one failing command, and
Debian publishing in between; 321 490 states.

- `MixtureIsRecorded`: components that are a mixture of releases, while nobody
  works on them, are in the record the next normal boot looks at, or that says
  `rollback_failed`. A repair or a base update runs `dpkg --configure -a` over
  the half of an update and must not hide it.
- `RepairHolds`: what a repair's audit found clean stays so in this boot.
- `BrokenBaseIsRecorded`, `OnlyApprovedInstalled`: the state file against
  dpkg, and the versions against the approved plans, whoever refreshes the
  index in the middle.
- `BaseLockReleased`, `BootSettles`: liveness.

Histories name the exceptions, which are defects of section 12, not bounds:
`evidenceLost` (a manual rollback, or a record overwritten by a configuration
restore or a new update) and `raced` (a check that wrote the state file over a
running update's). Three operations are an update that is cut, a boot of the
recovery entry and a repair, or an update of each channel and a boot between;
one failure lets any command fail; two packages let a command stop between
them. Fairness: each program's own steps, for every external command has a
`timeout`, and dpkg's. No administrator, fault or boot is fair.
`CHECK_DEADLOCK FALSE`: within the bounds everything may have been done.

`RecoveryEnvironmentProofs`, for any packages, administrators, archives and
numbers of commands: `RecoveryTypesCorrect`, `BrokenBaseAlwaysRecorded`,
`OnlyApprovedEverInstalled`, `MixtureAlwaysRecorded`, `RepairAlwaysHolds`. The
channels know nothing of each other, so the invariant says what each relies on
the others not to do. `Processes`, a theorem of its own (`DpkgAlwaysOwned`):
who is behind dpkg's lock, where its code then is, and that it unpacks only
packages of its channel, the base channel only what was approved. `Locking`: the
base updater's lock, and that in recovery its commands get no further than the
preflight. `Telling`: where the holder of that lock has found or declared what
is half installed. `Cached`: plans and cached files are no newer than the
index, and when apt installs, a file in the cache that is not in the plan is
older than what is installed; this is what makes `--no-download` stay with the
approved versions. `Recording`: the record at each step of the component
updater, and that a recovery point taken of a whole set gives back a whole set.
`Repairing`: a clean audit is of a recovery boot in which nothing unpacks.

Model-checked only: `BaseLockReleased` and `BootSettles` (liveness).

### 5.3 Left out

How sources, signatures and plans are parsed (`PreflightRefuses` is their
refusal); the checkpoint, which nothing reads back; what the initramfs and GRUB
contain; a dpkg that is killed *within* a package.

## 6. The kiosk on the display

`KioskSession` is the start of a session (`splash`, `ready`, `handoff`,
`stable`, `screen`: the surfaces on the display; `loop`: the supervisor) and
`session-entry` (`entry`, `mode`, `pids`, `code`, and `app`: Remote, the Dock and
the Remote the Dock relaunches). Every wait with a timeout may end at any
moment, so each race of a timeout is a behaviour; how often the supervisor
restarts is free. `Trap` is HUP, INT or TERM at any command of `session-entry`;
a fork and `remote_pid=$!` are two commands (`LaunchRemote`, `RecordRemote`), and
`missed` remembers the child a signal has found between them.

`kiosk_session`: four modes of the Dock's file, two sessions, one signal, one
death of the background; 256 740 states. Two sessions, since what could survive
the first meets the second; one signal ends an entry.

- `ChildrenReaped`: an entry that has exited leaves no Remote and no Dock,
  except the one a signal found forked and not yet recorded. A trap that spares
  a child it knows breaks it (the mutant `TrapDockOnly`).
- `ZeroIsTrue`: the zero that stops the kiosk for good is not a failure.
- `SessionEnds`: once Remote and Dock have ended, the supervisor acts. `Over`
  excludes a relaunched Remote that still runs: its window is what the polling
  loop waits for.

`FairSpec` assumes of both shell programs that they run on, of nothing they
start that it ever does anything. `CHECK_DEADLOCK FALSE`: the loop stops, or
becomes the degraded screen.

`KioskSessionProofs`, for any modes, sessions, signals and crashes: `KioskTyped`,
`NoChildLeftBehind`, `NoFailureIsVoluntary` and
`ReadyStaysFresh` (the file that ends the wait for the startup surface is that
of this start's splash). Its invariant: which children there may be at each
command of the entry (`ChildrenInv`), which of them it has recorded
(`RecordedInv`), and that the disabled mode never reaches the Dock's commands
(`ModeInv`). None of the properties is inductive without it: a
zero is true because the codes were taken from children that had ended.

Left out: X11 (the image ships Wayland); focus; the content of the screens; the
launcher and greetd beyond what the image build installs.

## 7. The production build

### 7.1 How the modules correspond to the code

`RootfsConfiguration` is `phase_configure`, the longest program of the
repository: an ordered list of steps (`Pipeline`) over the *facts* that hold of
the root file system. A step names what it tests or uses (`needs`, `denies`),
what it leaves whenever it runs (`gives`), what only a first installation brings
(`fresh`: apt does not bring back a conffile or re-enable a unit) and what it
removes (`takes`). A configurator of the package, such as `kernel_hardening.py`,
is the facts its `execute` or `install` leaves. `CutShort` is what a step may
leave when it stops anywhere.

`ImageBuild` is the six phases, one invocation after another over the same build
directory: `todo` and `at` (phase and step), `mounted` (the host's trees below
the root), `orphan` (the chroot command of a killed builder), and the artifacts
`boot`, `squashfs`, `iso`, `manifest`, each of which knows which run made it and
from what. `CleansUp` is `cleanup_chroot_mounts`, which stops what still runs
below the root. `Raise` is any failure. `Kill` is a SIGKILL anywhere: in a
command of the chroot, of `phase_configure` or of `phase_boot`, which goes on
(`orphan`, `OrphanEnds`) until the next cleanup finds it by its root; in
debootstrap, which goes on outside (`strap`, `StrapGoesOn`) and is found only
by a child that has just entered the tree; or elsewhere, with part of a step or
of a file left. `stray` is the history that an invocation began beside such a
debootstrap.

### 7.2 The run

`image_build`: three invocations, each of all phases or of any one, two faults;
518 555 states. A fault in a first invocation, one in a second, and a third that
must recover from both.

- `FullBuildShipsItself`: a build of all six phases ends with an ISO whose
  kernel and squashfs it made itself, the squashfs whole and holding exactly the
  finished product, and a manifest that describes them.
- `ConfigureConverges`: from wherever earlier passes were cut, a finished
  `phase_configure` leaves one root file system; what debootstrap itself missed
  is all it cannot tell.
- `NothingMissing`: no step's precondition fails in a pass over the remains of
  others, unless what a killed builder had started still ran when it began.
- `NothingRunsBelow`: nothing of a killed builder, and no mount, is below the
  root while debootstrap or mksquashfs works on it, but a debootstrap that was
  at work when the invocation began.

All four say nothing, or less, of an invocation that began beside a debootstrap
of a killed one (`stray`): the code neither finds nor stops that (section 12).

`CHECK_DEADLOCK FALSE`: the invocations are used up.

`ImageBuildProofs`, for any number of invocations and faults: `BuildTyped`;
`NothingEverRunsBelow`, by `BelowInv`: the trees are mounted in two phases only
and every phase begins at 0, where the two that matter stop what they find; and
by `Apart`: a stray debootstrap was there when the invocation began;
`NothingEverMissing` and `ConfigureAlwaysConverges`, by `Pass`; and
`FullBuildAlwaysShipsItself`, by `OnItsWay`.

`Pass` says what holds before step `i` of a pass over whatever earlier passes
left (`Passed`): what the steps before it give is there, what they take is gone,
and the command of a killed builder is over before a step uses the chroot. That
a step keeps it rests on lemmas about the list itself: which steps take
anything and what (`Takers`), that what a step needs is given by an earlier one
and taken by none in between, and that what is swept away is not given again.
They are the part that an edit of `phase_configure` would break. At the last
step, given and taken together leave exactly `Product`.

`OnItsWay` says of an invocation that is running all phases what the phases so
far have made: of this run, whole, and with no command of a killed builder left
that could touch it.

Left out: two builders over one build directory at a time (there is no lock;
the documents do not offer it); the build-state file, which nothing reads back;
`private_mount_namespace`, whose effect is that a killed builder's mounts
vanish, as `Kill` says; what the mksquashfs or xorriso of a killed builder still
writes, into a file that the build which makes it anew unlinks first; the import
of component packages, taken as present.

## 8. The development build

`DevelopmentBuild` is the part of `cli.py` that works in `.build`, with
`workspace.py`, `bootstrap.py`, `hooks.py` and `bootable_image.py`. `lock` is
the file of `acquire_lock` (`O_EXCL`, removed on every way out, left by a power
cut); `runs`, `kept`, `current` the run directories; `files[r]` the stages whose
files later checks find (debootstrap leaves an `fstab` of its own: `FilesOf`),
`done[r]` those that have finished: the difference is what a stage cut short
leaves. `Configure(p, s)` is one command of Block 2; `BuildReuses` and
`BuildAnew` the two ways of `_build_image`; `CreateImage` to `Record` are
`BootableImageBuilder.execute`, which hashes the image and then reads it again
to pack it. `umount` is not checked: after `UnmountBusy` the file system is
mounted still and writes to the image whenever it does (`stayed`,
`MountWrites`). `CleanChecks` and `CleanRemoves` are `clean --force`, which looks
at the lock and does not take it; `DryRun` rewrites the manifest.

`development_build`: two builders, every command, four of them, two run
directories, one fault of any kind; 191 690 states. Two builders are what a lock
has to keep apart; four commands are a build cut short, one that reuses its
tree, and a `clean` or a dry run in between.

- `ManifestTellsTruth`: hashes on record are those of a finished image with its
  packed copy beside it, whichever commands follow; nothing can be said of an
  image that could not be unmounted.
- `CutAfterApt`: what `rootfs_ready` is worth. Of a run in which only builds
  have worked, an image holds the first stages of the pipeline without a gap,
  apt at least: a tree has no kernel before its packages. It may lack every
  stage from the packages on (section 12).

`DevelopmentBuildProofs`, for any builders, commands, runs and faults:
`BuildTyped`, `CommandsStayApart` and `ManifestAlwaysTrue`, the last two from
`CleanAlone` (no command begins between `clean`'s look and its removal), without
which the lock file that is removed may be another command's. `LockInv` says
who may work and whose lock it is, `TruthInv` what is in the run directory at
each place of a build; an image that is on record stays what its sync left
unless it is in `stayed`. `ImagesAlwaysBegun`, also from `CleanAlone`, by
`BootInv`: what a build still has to do is the rest of the pipeline, what is
done is exactly what comes before it (`InOrder`), and no stage up to apt leaves
a kernel, which every image needs; a cut adds files and nothing that is done.

Left out: a mount that stays when `clean` removes the tree under it (`clean`
finds it unmounted). `CHECK_DEADLOCK FALSE`: the commands are used up.

## 9. The installer

`DeviceInstaller` is `xaac-installer-welcome`, the program on the live medium.
`nodes` are the names `/dev` gives the disks (`Replug` changes them while no
installation uses them), `disks` partition tables and file systems, `cache` what
has been written and not forced to the disk. Its actions are the program's steps
in their order: `ListDisks`, `SelectDisk`, `Confirm`, `Preflight`, `Wipe`,
`AddPartition`, `Format` (four `mkfs` in `FormatOrder`), `DeployRootfs`,
`InstallKernel`, `WriteFstab`, `InstallGrub`, `InstallShim`, `CheckEsp`,
`ActivateAdmin`, `WriteIdentity`, `VerifyInstallation`, `WriteSummary`,
`Complete`. `Fail` is `set -e` with its trap (sync, unmount); `PowerCut` loses
the cache; `WriteBack` writes any of it at any time.

`installer`: two disks of one size and the live medium, two installations, one
change of names (names are symmetric); 183 000 states. The second installation
is the one that meets the partitions of the first.

- `ChainNeverDangles`: wherever an installation over an earlier one is cut, the
  boot chain in the ESP never names a root that has been formatted away. It
  holds because the ESP is formatted first, and last to be filled.
- `CompleteIsDurable`: "complete" is shown when everything is on the disk.

`ProvisioningProofs`, for any disks, names, number of installations and changes
of names: `InstallerTypesCorrect`, `BootChainAlwaysWhole`, `CompleteAlwaysDurable`.
`Fresh` says that nothing waits in the cache between wipefs and the last mkfs,
and that a partition has either been formatted by this installation and is
empty, or has an older UUID; `Chained` is the boot chain of every disk, whether
its table of partitions shows it or not; `Kept` follows each file from the step
that writes it to the last `sync`, in the cache or on the disk; `OneTarget`, that
while the program is on the disk the chosen name means one disk.

Deadlock is checked. Left out: the dialogue beyond its
decisions; that mkfs itself may be cut (it is one step, durable when it
returns); firmware entries.

## 10. Maintenance

`Maintenance` is `diagnostics` and `cleanup`. A bundle's name is the second its
run began in; `bundle`, `dirs` (build directories), `state` (`state.json`) are
files, `job` the local variables of each administrator's command, `level` what
the checks would find, `update` how often an updater has rewritten its state.
`OpenBundle` (`tarfile.open("w:gz")` truncates), `FinishBundle` with the size
check, `LoadState` and `RecordBundle` are separate steps because no lock is
held; `Raises` leads to `Finally`, `Kill` does not. The clock may jump forwards.

`maintenance`: two administrators (symmetric), two commands, instants 0 to 2, a
retention of one, one change; 261 095 states.

- `RecordedIsWhole`: `last_diagnostics_bundle` names a whole archive, or one
  that was removed after the retention, unless two runs began in one second
  (`shared`).
- `BundleIsEarned`: "ok" only if each check was in order at some moment of the
  run, an error or a warning only if there was one, and the copies of the state
  files are no older than the status report beside them.

`MaintenanceProofs`, for any administrators, clock, retention and numbers of
commands and changes: `MaintenanceTypesCorrect`, `RecordedAlwaysWhole`,
`BundleAlwaysEarned`. No lock orders the commands, so the invariant orders what
they hold. `Apart`: two runs at work under one name are in `shared`; `Dated`: a
bundle is closed no earlier than its name says, hence old enough to be removed
only after its name is; `Copied`: whatever name a command is about to write back
from its copy of `state.json` may stand there; `Unheard`: before a run closes its
bundle nobody has its name; `Watching`: what a run has made of the checks it has
seen so far.

`CHECK_DEADLOCK FALSE`: clock and bounds are used up.
Left out: a clock set back; the reports' text; who may read a bundle.

## 11. First boot

`FirstBoot` is `FirstBootRunner.run`, one action per step; `StepFails` is any
exception of a step, `RecordFailure` the handler, `PowerOff` a cut anywhere. The
executable that is installed runs it on `Root`, which is "/", and
`DeviceIdentityManager.create` refuses that root (`Unsafe`, `RefuseRoot`) before
it looks for an identity. What `create` does on another root is the one step
`CreateIdentity`, which no behaviour of the service takes.

`first_boot` is a violation: two boots, at most one fault. The service is
documented to generate the device's identity or to validate it
(`docs/phases/block-06/phase-06-04.md:5`); `FirstBootGivesIdentity` says so of a
terminal on which nothing failed. The first boot ends in the handler, and so
does every later one, since there is never a marker. The tests run it on a
temporary root with an identity manager of their own.

Left out: the files of the identity, in the order `create` writes them; they are
written only by a call with another root.

## 12. What the code does not do

Where the code disagrees with its documents, or where a property has an
exception, this is the exception. Two are runs; the others were met as
counterexamples while the models were written, with the constants named, or are
excepted by name in a property.

Component updater (`xaac_update_runtime.py`):

- A healthy update is rolled back and blocked, because `mkdir(parents=True)` at
  :397 fails on the directory of a package cached before. Run
  `healthy_update_rolled_back`; `phase-10-02.md:46` says the opposite.
- Power lost while a failed update is rolled back: the boot service finishes
  (:747) without `_block_failed`, which `phase-10-02.md:83` promises.
- A manual rollback records nothing before it changes packages (:669): a power
  loss leaves a mixture that no boot looks for (`transactional-update.yaml:29`:
  `atomic_component_set: true`). In `SettledIsReleased` with
  `Commands = {"update", "rollback"}`; `evidenceLost` in section 5.
- `xaac-update-admin:347` compares versions before the lock: with line 397
  repaired, a second administrator's update in between makes the first one a
  downgrade (`phase-10-01.md:13` forbids them).
- Ctrl-C in an update and then one that aborts: line 553 overwrites the record,
  and the unvalidated components stay (`Faults = {"interrupt"}`, two updates,
  `SettledIsReleased`).
- `recover_interrupted` reads the record (:728) before it takes the lock (:745)
  and may roll back a transaction that is no longer the recorded one: its unit
  is ordered before greetd and the VPN manager, not before ssh
  (`RecoveryFirst = FALSE`).
- Recovery points are pruned only after a confirmation (:600): three aborted
  updates leave three where the documents say two.

Base system and recovery:

- `check_updates` (`xaac_base_os_update_runtime.py:549`) rewrites the state file
  without the lock, over what a running update has recorded (`raced`); after a
  power loss it says `installing` and no service looks at it.
- A component rollback finds dpkg's lock taken by the other channel and ends in
  `rollback_failed`, which no boot takes up again.

Session supervisor (`session_supervisor.py`):

- A client that always crashes is restarted for ever with the shipped profile:
  the five backoffs take 60 seconds, each run that maps no window adds 20, so
  the sixth failure comes after the window, :422 resets the counter, and the
  backoff stays at 30 seconds (`phase-04-06.md:5`: no infinite loops; with a
  window of 300 seconds there is none).
- A `mv` left over from a killed heartbeat renames the file the supervisor has
  just opened (:265): `state.json` is empty until the next write
  (`phase-07-03-local-contract.md:22`: atomically). Readers that skip a file
  they cannot parse are what `ReadersFollowSession` promises something to.
- The names of the events (:286) end in a number that is not padded, and
  `prune_events` (:268-277) removes by name: of the second in which 9 turns into
  10, or 99 into 100, a full directory loses the later events first. A
  `session-recovering` may be gone while the `session-failed` before it stays
  (`OldestSecond` in `EventsTellTheStory`). After the clock is set back the names
  are out of order altogether.
- The bare canvas of the compositor may show between two backgrounds: the
  comment at :359-360 has the startup overlay cover it, but the splash may have
  reached its own timeout before, and the tenth of a second after which the
  handoff is ended, and then the splash, is no guarantee that the stable
  background is mapped. No property of `KioskSession` is about the canvas.
- HUP, INT or TERM to `session-entry` makes it say 0, and the supervisor stops
  for good; a signal between a fork and `remote_pid=$!` leaves that Remote
  running. A Remote without windows that never ends keeps the session; a Remote
  the Dock has relaunched and that is not mapped yet does not. The degraded
  screen is restarted by nobody when it dies.

Builds and installer:

- `build-image` takes a root tree for complete when `debian_version`, `fstab`, a
  kernel and an initramfs are there (`cli.py:1239-1245`), and debootstrap has
  written an `fstab`: a tree cut in the packages stage or after it is imaged as
  it is, with the placeholder in the place of the real `fstab`
  (`phase-02-08.md:62` says an incomplete tree is built anew; `CutAfterApt` says
  what is left of that). So is a tree in which a `configure-*` command was cut
  (`byHand`).
- `clean --force` looks at the lock and does not take it, so it may remove a
  command's tree and lock file (`CleanAlone`; `phase-01-04.md:19`). After a power
  loss the lock file stays until somebody deletes it (`OperatorUnlocks`).
- `bootable_image.py:192` does not check `umount`; :200 then removes the files
  of the mounted image, whose file system goes on writing while :202 hashes it,
  :203 packs it, and afterwards: recorded hash, packed copy and image may be of
  three contents (`stayed`).
- A builder killed in debootstrap (`production_builder.py:996`) leaves it running:
  no cleanup finds it while it downloads (:831), and the next build refills the
  tree beside it (`stray`; what `_stop_chroot_processes` is there for).
- `phase_squashfs` invoked alone over a configure phase that was cut packs what
  is there, caches and staged packages included, if the gates pass
  (`HARDENING_OPTIMIZATION.md:68`); `FullBuildShipsItself` is about builds of
  all six phases.
- The installer looks again at the name and size of the chosen disk, not at
  which disk it is (`CHANGELOG.md`, incremental installer, step 3): a disk of
  the same size that takes the name before the erasure is erased. Between steps
  7 and 9 the disk boots a system without its administrator.

Maintenance and first boot:

- A second `diagnostics` in one second may interleave with the first in one
  archive (`shared`, form `"mixed"`); a refused name or a killed run leaves its
  build directory, which no cleanup removes (`cut`;
  `xaac_maintenance_runtime.py:677-682`). `state.json` is read and written
  without a lock: a cleanup and a bundle may lose one another's entry. `cleanup`
  empties apt's cache, also between a base update's download and its
  `--no-download`, which then fails.
- No terminal ever gets its identity from the service: `create` refuses the
  root "/" (`device_identity.py:118-120`), on which `first_boot.py:136` runs it
  (run `first_boot`). A marker whose `chmod` failed would stay beside a state
  that says failed (`first_boot.py:186-191`).

Command line: 29 later commands call `WorkspaceManager(root).load_existing()`
(`cli.py:1462` and following), which `workspace.py` does not define.

## 13. Not modelled

- **Policy application**: reached only by tests and by a command that fails
  before it. `apply` copies the active policy over the one to roll back to
  without asking whether it was confirmed.
- **VPN administration**: its state is OpenVPN 3's own managers, which the
  repository neither contains nor simulates.
- **Locale tools**: in-place edits by one command, nothing read back, nothing
  beside them.
- **Configuration planners**: one shape, no state; those the two builds call are
  steps of `RootfsConfiguration` and `DevelopmentBuild`.
- **Boot media, release, packaging and repository tools**: one sequential pass
  of I/O and external commands each; the media planners are reached only by the
  commands that fail.
- **Update administration**: signatures, hashes and status displays. A manifest
  of `UpdateTransaction` is a signed one.
- **Command line**: commands that validate and print.

Proved and checked: of the properties of the passing runs, all safety
properties, action properties and refinements. Out of the prover's reach, and so
with TLC only, is liveness, which rests on fairness and so on ENABLED:
`LockReleased`, `BootRecovers`, `DeathIsPublished`, `BaseLockReleased`,
`BootSettles`, `SessionEnds`.
