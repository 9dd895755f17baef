----------------------------- MODULE DiskSelect -----------------------------
(***************************************************************************)
(* Which two disks `slfhst install` partitions (internal/disks/disks.go).  *)
(*                                                                         *)
(* A machine is a function dev from lsblk NAMEs to the columns the code    *)
(* reads: type, size, rota, ro and pkname (the NAME of the parent device,  *)
(* NoName when there is none).  A disk's NAME and PATH determine each      *)
(* other, so one of them is enough.                                        *)
(*                                                                         *)
(* sort.Slice is not stable, and lsblk's order is not specified, so among  *)
(* disks of equal size any one may come first: the outcome is a SET of     *)
(* <<root, bulk>> pairs, empty when the code returns an error.             *)
(***************************************************************************)
EXTENDS Naturals

CONSTANT NoName      \* the empty string: no parent device, nothing excluded

(* Mutant: only a label on a whole disk is honoured, not on a partition. *)
Mut_bootDiskNameWholeOnly(dev, labelled) ==
  IF dev[labelled].type = "disk" THEN labelled ELSE NoName

(* The disk to leave alone, given the device that carries the ISO's label: *)
(* the device itself when it is a disk, otherwise whatever its PKNAME is.  *)
bootDiskName(dev, labelled) ==
  IF dev[labelled].type = "disk" THEN labelled ELSE dev[labelled].pkname

Candidates(dev, excludeName) ==
  {d \in DOMAIN dev : /\ dev[d].type = "disk"
                      /\ dev[d].size > 0
                      /\ ~dev[d].ro
                      /\ d # excludeName}

(* Root disks are taken from the non-rotational candidates if there is one. *)
RootPool(dev, cands) ==
  IF \E d \in cands : ~dev[d].rota THEN {d \in cands : ~dev[d].rota} ELSE cands

Smallest(dev, S) == {d \in S : \A e \in S : dev[d].size <= dev[e].size}

Largest(dev, S) == {d \in S : \A e \in S : dev[e].size <= dev[d].size}

(* With fewer than two candidates no pair exists: the code's error return. *)
selectDisksFrom(dev, excludeName) ==
  LET cands == Candidates(dev, excludeName) IN
  {p \in cands \X cands : /\ p[1] \in Smallest(dev, RootPool(dev, cands))
                          /\ p[2] \in Largest(dev, cands \ {p[1]})}

SelectDisks(dev, labelled) == selectDisksFrom(dev, bootDiskName(dev, labelled))

(* The disk a device lives on: up the PKNAME chain to the whole disk. *)
Parent(m, d) == IF m[d].pkname = NoName THEN d ELSE m[d].pkname
WholeDisk(m, d) == Parent(m, Parent(m, d))

(* A whole disk has no PKNAME, and that of another device, if there is one, *)
(* is a whole disk: there are no mapped devices on top of partitions.      *)
FlatMachine(m) ==
  \A d \in DOMAIN m :
    /\ m[d].type = "disk" => m[d].pkname = NoName
    /\ m[d].pkname # NoName =>
         /\ m[d].pkname \in DOMAIN m
         /\ m[m[d].pkname].type = "disk"
=============================================================================
