------------------------ MODULE RootfsConfiguration ------------------------
(***************************************************************************)
(* phase_configure of the production builder: an ordered list of steps     *)
(* over one root file system.  The file system is the set of facts that    *)
(* hold of it.  A step names what it tests or uses (needs, denies), what   *)
(* it leaves each time it runs (gives), what only a first installation     *)
(* brings (fresh) and what it removes (takes).  A configurator of the      *)
(* package appears as the facts its execute or install leaves behind.      *)
(***************************************************************************)
EXTENDS Naturals, Sequences

Step(needs, denies, gives, fresh, takes) ==
  [needs |-> needs, denies |-> denies, gives |-> gives, fresh |-> fresh, takes |-> takes]
Write(needs, gives) == Step(needs, {}, gives, {}, {})
Test(needs, denies) == Step(needs, denies, {}, {}, {})
Remove(needs, takes) == Step(needs, {}, {}, {}, takes)

(***************************************************************************)
(* What the configurators leave.                                           *)
(***************************************************************************)
GraphicalStack == {"greetd"}
Compositor == {"compositor"}
SessionManager == {"session"}
ThinClientLauncher == {"launcher"}
SessionSupervisor == {"supervisor"}
KernelHardening == {"sysctl", "blocked_modules"}
Resources == {"memory_limits", "volatile_journal"}
Ssh == {"ssh"}
Firewall == {"firewall"}
SystemdHardening == {"vpn_sandbox"}
AppArmor == {"apparmor"}
UpdateModel == {"update_policy"}
ReleaseManifest == {"release"}
TransactionalUpdate == {"update_recovery"}
PackageRollback == {"rollback_policy"}
BaseOsUpdates == {"apt_pins"}
MaintenanceDiagnostics == {"maintenance"}
RecoveryTarget == {"recovery"}
XmsContract == {"xms_contract"}
LocalIntegration == {"local_integration"}

WriteSettings == Write({"debian"}, {"service_ban", "identity"})
ConfigureCursor == Write({}, {"console_cursor"})
WriteInstaller == Write({}, {"installer"})
WriteLanguageTools == Write({}, {"language_sync", "language_helpers"})
StageComponents == Write({}, {"staged_debs"})

(***************************************************************************)
(* In the chroot.  apt brings a package's own units and conffiles only     *)
(* when it installs it; a later pass finds it installed.                   *)
(***************************************************************************)
InstallPackages ==
  Step({}, {}, {"packages", "apt_lists"}, {"openvpn_autoload"}, {"half"})
ApplyKioskStack ==
  Write({"packages"}, GraphicalStack \cup Compositor \cup SessionManager
                        \cup ThinClientLauncher \cup SessionSupervisor \cup {"handoff"})
BootSplash == Write({"packages"}, {"splash"})
Locales == Write({"packages", "language_helpers"}, {"locales"})
Accounts == Write({"packages"}, {"accounts"})
CertificateStore == Write({"accounts"}, {"certificates"})
InstallComponents ==
  Step({"staged_debs"}, {}, {"components"},
       {"generic_autostart", "old_layout", "development_mode"}, {"half"})
ComponentLayout == Step({"components"}, {}, {"layout"}, {}, {"old_layout"})
CommandAliases == Write({}, {"commands"})
VerifyComponents == Test({"components", "commands", "layout"}, {})
VerifyAgent == Test({"components"}, {})
EnrollmentContract == Write({"components"}, XmsContract)
IpcMembership == Write({"components", "accounts"}, {"ipc_membership"})
IntegrateLocally == Write({"components", "accounts"}, LocalIntegration)
VerifyThinClient == Test({"components", "layout"}, {})
VpnAdministration == Write({"components", "accounts"}, {"vpn_admin"})
StartupOrder == Write({"components"}, {"startup_order"})
VpnPermissions == Test({"layout", "vpn_admin"}, {})
\* Mutant: apt's timers are not masked.
KernelResourcesUnmasked == Write({"packages"}, KernelHardening \cup Resources)

KernelResources ==
  Step({"packages"}, {}, KernelHardening \cup Resources, {}, {"apt_timers"})
NetworkHardening == Write({"packages"}, Ssh \cup Firewall)
ServiceHardening == Write({"components"}, SystemdHardening \cup AppArmor)
Block9Gate == Write({}, {"block_9_gate"})
UpdateArchitecture ==
  Write({"packages"}, UpdateModel \cup ReleaseManifest \cup TransactionalUpdate
                        \cup PackageRollback \cup {"update_admin", "package_cache"})
BaseOsUpdate == Step({"update_admin"}, {"apt_timers"}, BaseOsUpdates, {}, {})
Maintenance == Write({"packages"}, MaintenanceDiagnostics)
Recovery == Write({"packages"}, RecoveryTarget)
Block10Gate == Write({}, {"block_10_gate"})
TimeSync == Write({"packages"}, {"time"})
\* Mutant: the package's autoloader stays enabled.
OpenVpnNetworkUnmasked == Write({"packages"}, {"vpn_dns"})

OpenVpnNetwork == Step({"packages"}, {}, {"vpn_dns"}, {}, {"openvpn_autoload"})
IconTheme == Write({}, {"icons"})
GtkTheme == Write({}, {"gtk_theme"})
ClientTheme == Write({"components"}, {"client_theme"})
ProductionRuntime == Step({"layout"}, {}, {"power_helpers"}, {}, {"development_mode"})
ReleaseMarker == Write({}, {"marker"})
DisableGenericAutostart == Remove({}, {"generic_autostart"})
EnableTargets == Write({"packages", "language_sync", "greetd", "installer"}, {"targets"})
\* The Block 7 gate, which phase_squashfs asks for again.
Gate == {"components", "ipc_membership", "local_integration", "xms_contract", "vpn_admin"}
VerifyBlock7 == Test(Gate, {})
CleanCache == Remove({}, {"apt_lists", "staged_debs"})
\* After the chroot.
LiftServiceBan == Remove({}, {"service_ban"})

Preparation ==
  <<WriteSettings, ConfigureCursor, WriteInstaller, WriteLanguageTools, StageComponents>>
InChroot ==
  <<InstallPackages, ApplyKioskStack, BootSplash, Locales, Accounts, CertificateStore,
    InstallComponents, ComponentLayout, CommandAliases, VerifyComponents, VerifyAgent,
    EnrollmentContract, IpcMembership, IntegrateLocally, VerifyThinClient,
    VpnAdministration, StartupOrder, VpnPermissions, KernelResources, NetworkHardening,
    ServiceHardening, Block9Gate, UpdateArchitecture, BaseOsUpdate, Maintenance,
    Recovery, Block10Gate, TimeSync, OpenVpnNetwork, IconTheme, GtkTheme, ClientTheme,
    ProductionRuntime, ReleaseMarker, DisableGenericAutostart, EnableTargets,
    VerifyBlock7, CleanCache>>
Pipeline == Preparation \o InChroot \o <<LiftServiceBan>>
Last == Len(Pipeline)

UsesChroot(i) == i > Len(Preparation) /\ i < Last
Possible(step, facts) == step.needs \subseteq facts /\ step.denies \cap facts = {}
Effect(step, facts) ==
  (facts \ step.takes) \cup step.gives \cup (IF step.gives \subseteq facts THEN {} ELSE step.fresh)
\* A step that is cut short has left some of its facts.  apt counts a package
\* as installed only at the end, and leaves dpkg half way.
CutShort(step, facts) ==
  IF step.fresh = {}
  THEN {(facts \ t) \cup g : g \in SUBSET step.gives, t \in {{}, step.takes}}
  ELSE {facts \cup f \cup {"half"} : f \in SUBSET step.fresh}

\* What debootstrap brings: Debian, with apt's own timers enabled.
Bootstrap == {"debian", "apt_timers"}

\* What a device must never find in its image, and what it must.
Leftovers ==
  {"service_ban", "staged_debs", "apt_lists", "half", "generic_autostart", "old_layout",
   "development_mode", "apt_timers", "openvpn_autoload", "short_base"}
Product == ({"debian"} \cup UNION {Pipeline[i].gives : i \in 1 .. Last}) \ Leftovers
\* Every fact that something leaves.
Facts ==
  Bootstrap \cup {"half", "short_base"}
    \cup UNION {Pipeline[i].gives \cup Pipeline[i].fresh : i \in 1 .. Last}
=============================================================================
