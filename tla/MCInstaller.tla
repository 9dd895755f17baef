---------------------------- MODULE MCInstaller ----------------------------
(* A machine with one SSD, two equal hard disks, the ISO on a USB stick    *)
(* (its label on a partition of it) and a small read-only virtual disk:    *)
(* SelectDisks has two outcomes, which share the root disk.                *)
EXTENDS Installer, TLC

CONSTANTS ssd, hdd1, hdd2, usb, usbPart, bmc

Disk(size, rota, ro) ==
  [type |-> "disk", size |-> size, rota |-> rota, ro |-> ro, pkname |-> NoName]

MCMachine ==
  ssd  :> Disk(2, FALSE, FALSE) @@
  hdd1 :> Disk(4, TRUE, FALSE)  @@
  hdd2 :> Disk(4, TRUE, FALSE)  @@
  usb  :> Disk(1, FALSE, FALSE) @@
  bmc  :> Disk(1, FALSE, TRUE)  @@
  usbPart :> [type |-> "part", size |-> 1, rota |-> FALSE, ro |-> FALSE,
              pkname |-> usb]

(* Two equal SSDs beside the same stick: SelectDisks may swap their roles  *)
(* from one run to the next, BulkSafe holds of neither, and a second run   *)
(* can wipe the bulk disk of a finished installation.                      *)
SwapMachine ==
  hdd1 :> Disk(4, FALSE, FALSE) @@
  hdd2 :> Disk(4, FALSE, FALSE) @@
  usb  :> Disk(1, FALSE, FALSE) @@
  usbPart :> [type |-> "part", size |-> 1, rota |-> FALSE, ro |-> FALSE,
              pkname |-> usb]
=============================================================================
