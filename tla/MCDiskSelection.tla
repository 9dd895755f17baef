-------------------------- MODULE MCDiskSelection --------------------------
(* Machines of three disks, a partition and either an optical drive or a   *)
(* device-mapper node; every size from 0 to 2, so zero sizes and ties both *)
(* occur.                                                                  *)
EXTENDS DiskSelection, TLC

CONSTANTS d1, d2, d3, p, x

Disk(size, rota, ro) ==
  [type |-> "disk", size |-> size, rota |-> rota, ro |-> ro, pkname |-> NoName]
Child(type, parent) ==
  [type |-> type, size |-> 1, rota |-> FALSE, ro |-> FALSE, pkname |-> parent]

DiskTriples == [{d1, d2, d3} -> {Disk(s, t, r) : s \in 0..2, t \in BOOLEAN, r \in BOOLEAN}]

MachinesWith(extras) ==
  {t @@ (p :> Child("part", d1)) @@ (x :> e) : t \in DiskTriples, e \in extras}

(* The medium is a whole disk, a partition of one, or an optical drive. *)
PlainMachines == MachinesWith({Child("rom", NoName)})

(* The medium is a device-mapper node on top of a partition. *)
MappedMachines == MachinesWith({Child("dm", p)})

ListingOrders == {<<d1, p, x, d2, d3>>, <<x, d3, d2, d1, p>>}
=============================================================================
