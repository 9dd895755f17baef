---------------------------- MODULE MCSysUpdate ----------------------------
(* What ListTargets may answer: both targets in either order and among     *)
(* others, no uki transfer yet, and names that match neither.              *)
EXTENDS SysUpdate

host == [class |-> "host", name |-> ""]
uki  == [class |-> "component", name |-> "uki"]
pkg  == [class |-> "component", name |-> "pkg"]

MCListings == {<<uki, pkg, host>>, <<host>>, <<pkg>>}
=============================================================================
