------------------------------ MODULE DnsZone ------------------------------
(***************************************************************************)
(* What dnscf promises about a zone, one entry per (type, name, priority): *)
(* an entry maps the ids of its records to their values.  It has one       *)
(* record at most, which keeps its id and changes only into a value the    *)
(* appliance wants there.  Nothing is ever left with two values, and       *)
(* nothing published is withdrawn.                                         *)
(***************************************************************************)
CONSTANTS Entries,     \* the (type, name, priority) triples dnscf manages
          Values,      \* what an entry can hold
          WantedAt     \* per entry: the values dnscf may give it

VARIABLE view

Init ==
  /\ view = [e \in Entries |-> view[e]]
  /\ \A e \in Entries :
       /\ \A i, j \in DOMAIN view[e] : i = j
       /\ \A i \in DOMAIN view[e] : view[e][i] \in Values

Publish(e) ==
  \E id \in DOMAIN view'[e], v \in WantedAt[e] :
    /\ DOMAIN view[e] \subseteq {id}
    /\ view' = [view EXCEPT ![e] = [i \in {id} |-> v]]

Next == \E e \in Entries : Publish(e)

Spec == Init /\ [][Next]_view
=============================================================================
