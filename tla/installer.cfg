SPECIFICATION Spec
CONSTANTS
  emmc = emmc
  usb = usb
  live = live
  Disk = {emmc, usb, live}
  sda = sda
  sdb = sdb
  sdc = sdc
  Name = {sda, sdb, sdc}
  Size <- DiskSize
  Live = live
  MinimumSize = 7
  MaxInstalls = 2
  MaxReplugs = 1
SYMMETRY NamesAlike
INVARIANTS TypeOK ChainNeverDangles CompleteIsDurable
