--------------------------- MODULE MCDeviceInstaller ---------------------------
(* The disks of the runs: a terminal's eMMC, a USB disk and the live medium.  *)
EXTENDS DeviceInstaller, TLC
CONSTANTS emmc, usb, live, sda, sdb, sdc
\* Two disks of one size, and a medium below the minimum.
DiskSize == [d \in Disk |-> IF d = live THEN 4 ELSE 8]
\* No name is special.
NamesAlike == Permutations(Name)
=============================================================================
