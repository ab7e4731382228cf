SPECIFICATION Spec
CONSTANTS
  b1 = b1
  b2 = b2
  Builder = {b1, b2}
  None = None
  Command = {"prepare", "bootstrap", "apt", "packages", "system", "kernel", "systemd", "localization",
    "fstab", "uefi", "users", "network", "ssh", "firewall", "build-image", "build-rootfs"}
  CleanAlone = TRUE
  Faults = {"raise", "power", "busy"}
  MaxCommands = 4
  MaxRuns = 2
  MaxFaults = 1
\* Runs are bounded.
CHECK_DEADLOCK FALSE
INVARIANTS ManifestTellsTruth CutAfterApt
