--------------------------- MODULE MonitorProofs ---------------------------
(* Proofs about module Monitor, for any lists of services, ports and       *)
(* blocklists and any number of changes, failures and peers that hang.     *)
EXTENDS Monitor, TLAPS

(* A list that is gone through has a first place, and the place behind one *)
(* that is not the last is a place of the list.                            *)
LEMMA Places ==
  ASSUME NEW list \in {appServices, portChecks, dnsblZones}
  PROVE  /\ 1 \in DOMAIN list
         /\ \A i \in DOMAIN list : i < Len(list) => i + 1 \in DOMAIN list
<1>1. PICK S : list \in Seq(S) /\ list # <<>>
  BY ListsChecked
<1>2. Len(list) \in Nat /\ Len(list) # 0 /\ DOMAIN list = 1..Len(list)
  BY <1>1
<1> QED
  BY <1>2

(* What a step of a loop finds is a problem. *)
LEMMA Found ==
  /\ \A i \in DOMAIN appServices : Problem("service", appServices[i]) \in Services
  /\ \A i \in DOMAIN portChecks : Problem("port", portChecks[i]) \in Ports
  /\ \A i \in DOMAIN dnsblZones : Problem("dnsbl", dnsblZones[i]) \in Listings
<1>1. \A i \in DOMAIN appServices : Problem("service", appServices[i]) \in Services
  BY Zenon DEF Services, Elems
<1>2. \A i \in DOMAIN portChecks : Problem("port", portChecks[i]) \in Ports
  BY Zenon DEF Ports, Elems
<1>3. \A i \in DOMAIN dnsblZones : Problem("dnsbl", dnsblZones[i]) \in Listings
  BY Zenon DEF Listings, Elems
<1> QED
  BY <1>1, <1>2, <1>3

(* The steps of a check. *)
LEMMA StepNames ==
  Elems(Steps) = {"services", "ports", "address", "dnsbl", "firewall", "update", "alert"}
<1>1. DOMAIN Steps = 1..7
  BY DEF Steps
<1> QED
  BY <1>1 DEF Steps, Elems

(* The type invariant holds initially and every step preserves it. *)
LEMMA TypeInductive ==
  /\ Init => TypeOK
  /\ TypeOK /\ [Next]_vars => TypeOK'
<1> USE MonitorConstants, StepNames
<1>1. Init => TypeOK
  <2> SUFFICES ASSUME Init PROVE TypeOK
    OBVIOUS
  <2>1. done \in BOOLEAN
    BY Zenon DEF Init
  <2>2. /\ world \subseteq Problems /\ hung = {} /\ pc = "idle" /\ next = 1
        /\ issues = {} /\ due = {} /\ reported = {}
        /\ changes = 0 /\ failures = 0
    BY Zenon DEF Init
  <2> QED
    BY <2>1, <2>2 DEF TypeOK
<1>2. TypeOK /\ [Next]_vars => TypeOK'
  <2> SUFFICES ASSUME TypeOK, [Next]_vars PROVE TypeOK'
    OBVIOUS
  <2> USE DEF TypeOK, environment, Fail
  <2>1. CASE UNCHANGED vars
    BY <2>1 DEF vars
  <2>2. CASE CheckAll
    BY <2>2, Places DEF CheckAll
  <2>3. CASE ServiceStatus
    <3>1. next \in DOMAIN appServices
      BY <2>3 DEF ServiceStatus
    <3>2. Problem("service", appServices[next]) \in Services
      BY <3>1, Found
    <3>3. issues' \subseteq Problems /\ due' \subseteq Problems /\ failures' \in 0..MaxFailures
      BY <2>3, <3>2 DEF ServiceStatus, Problems
    <3>4. Advance(appServices, "ports")
      BY <2>3 DEF ServiceStatus
    <3> QED
      BY <2>3, <3>1, <3>3, <3>4, Places DEF ServiceStatus, Advance
  <2>4. CASE failedPorts
    <3>1. next \in DOMAIN portChecks
      BY <2>4 DEF failedPorts
    <3>2. Problem("port", portChecks[next]) \in Ports
      BY <3>1, Found
    <3>3. issues' \subseteq Problems /\ due' \subseteq Problems /\ failures' \in 0..MaxFailures
      BY <2>4, <3>2 DEF failedPorts, Problems
    <3>4. Advance(portChecks, "address")
      BY <2>4 DEF failedPorts
    <3> QED
      BY <2>4, <3>1, <3>3, <3>4, Places DEF failedPorts, Advance
  <2>5. CASE PublicIP
    BY <2>5, Places DEF PublicIP, Problems
  <2>6. CASE dnsblListings
    <3>1. next \in DOMAIN dnsblZones
      BY <2>6 DEF dnsblListings
    <3>2. Problem("dnsbl", dnsblZones[next]) \in Listings
      BY <3>1, Found
    <3>3. issues' \subseteq Problems /\ due' \subseteq Problems /\ failures' \in 0..MaxFailures
      BY <2>6, <3>2 DEF dnsblListings, Problems
    <3>4. Advance(dnsblZones, "firewall")
      BY <2>6 DEF dnsblListings
    <3> QED
      BY <2>6, <3>1, <3>3, <3>4, Places DEF dnsblListings, Advance
  <2>7. CASE SyncCloudflareIPSets \/ CheckNewVersion \/ AllClear
    BY <2>7 DEF SyncCloudflareIPSets, CheckNewVersion, AllClear
  <2>8. CASE sendAlert \/ AlertLost \/ Killed
    BY <2>8 DEF sendAlert, AlertLost, Killed
  <2>9. CASE Stage2Done \/ Hangs
    BY <2>9 DEF Stage2Done, Hangs
  <2>10. CASE WorldChanges
    BY <2>10 DEF WorldChanges
  <2> QED
    BY <2>1, <2>2, <2>3, <2>4, <2>5, <2>6, <2>7, <2>8, <2>9, <2>10 DEF Next, Step
<1> QED
  BY <1>1, <1>2

(* Going one place further in a list, with what is due at this place found *)
(* if it is there, leaves nothing behind; the last place completes it.     *)
LEMMA OnePlaceFurther ==
  ASSUME NEW kind, NEW list \in {appServices, portChecks, dnsblZones},
         next \in DOMAIN list,
         due' \subseteq due, issues \subseteq issues',
         due \cap Behind(kind, list) \subseteq issues,
         Problem(kind, list[next]) \in due' => Problem(kind, list[next]) \in issues'
  PROVE  /\ next' = next + 1 => due' \cap Behind(kind, list)' \subseteq issues'
         /\ ~(next < Len(list)) =>
              due' \cap {Problem(kind, z) : z \in Elems(list)} \subseteq issues'
<1>1. PICK S : list \in Seq(S)
  BY ListsChecked
<1>2. DOMAIN list = 1..Len(list) /\ Len(list) \in Nat
  BY <1>1
<1>3. \A i \in DOMAIN list : i <= next =>
        (Problem(kind, list[i]) \in due' => Problem(kind, list[i]) \in issues')
  <2> SUFFICES ASSUME NEW i \in DOMAIN list, i <= next, Problem(kind, list[i]) \in due'
               PROVE  Problem(kind, list[i]) \in issues'
    OBVIOUS
  <2>1. CASE i = next
    BY <2>1
  <2>2. CASE i < next
    <3>1. Problem(kind, list[i]) \in Behind(kind, list)
      BY <2>2, Zenon DEF Behind
    <3> QED
      BY <3>1
  <2> QED
    BY <1>2, <2>1, <2>2
<1>4. ASSUME next' = next + 1 PROVE due' \cap Behind(kind, list)' \subseteq issues'
  <2> SUFFICES ASSUME NEW p \in due', p \in Behind(kind, list)' PROVE p \in issues'
    OBVIOUS
  <2>1. PICK i \in DOMAIN list : i < next' /\ p = Problem(kind, list[i])
    BY DEF Behind
  <2>2. i <= next
    BY <1>2, <1>4, <2>1
  <2> QED
    BY <1>3, <2>1, <2>2
<1>5. ASSUME ~(next < Len(list))
      PROVE  due' \cap {Problem(kind, z) : z \in Elems(list)} \subseteq issues'
  <2> SUFFICES ASSUME NEW z \in Elems(list), Problem(kind, z) \in due'
               PROVE  Problem(kind, z) \in issues'
    OBVIOUS
  <2>1. PICK i \in DOMAIN list : z = list[i]
    BY DEF Elems
  <2>2. i <= next
    BY <1>2, <1>5
  <2> QED
    BY <1>3, <2>1, <2>2
<1> QED
  BY <1>4, <1>5

(* Nothing is behind the first place of a list. *)
LEMMA NothingBehind ==
  ASSUME NEW kind, NEW list \in {appServices, portChecks, dnsblZones}, next' = 1
  PROVE  Behind(kind, list)' = {}
<1>1. PICK S : list \in Seq(S)
  BY ListsChecked
<1>2. DOMAIN list \subseteq Nat \ {0}
  BY <1>1
<1> QED
  BY <1>2 DEF Behind

(* Where a step of a loop leads. *)
LEMMA AdvanceLeads ==
  ASSUME NEW list, NEW step, Advance(list, step)
  PROVE  \/ next < Len(list) /\ next' = next + 1 /\ pc' = pc
         \/ ~(next < Len(list)) /\ next' = 1 /\ pc' = step
  BY DEF Advance

(* The invariant is inductive: the world can only shorten what is due, and *)
(* a step of a loop finds what is due at its place.                        *)
LEMMA InvInductive ==
  /\ Init => IInv
  /\ IInv /\ [Next]_vars => IInv'
<1> USE DEF PastServices, PastPorts, PastAddress, PastListings
<1>1. Init => IInv
  <2> SUFFICES ASSUME Init PROVE IInv
    OBVIOUS
  <2>1. pc = "idle"
    BY Zenon DEF Init
  <2> QED
    BY <2>1, TypeInductive DEF IInv, FoundSoFar
<1>2. IInv /\ [Next]_vars => IInv'
  <2> SUFFICES ASSUME IInv, [Next]_vars PROVE IInv'
    OBVIOUS
  <2>0. TypeOK /\ TypeOK'
    BY TypeInductive DEF IInv
  <2>D. (pc # "idle" => due \subseteq world) /\ FoundSoFar
    BY DEF IInv
  <2>G. SUFFICES (pc' # "idle" => due' \subseteq world') /\ FoundSoFar'
    BY <2>0 DEF IInv
  <2> USE DEF environment
  <2>1. CASE UNCHANGED vars
    BY <2>1, <2>D DEF vars, FoundSoFar, Behind
  <2>2. CASE CheckAll
    <3>1. /\ pc' = "services" /\ next' = 1 /\ due' = world /\ world' = world
      BY <2>0, <2>2 DEF CheckAll, TypeOK
    <3>2. Behind("service", appServices)' = {}
      BY <3>1, NothingBehind
    <3> QED
      BY <3>1, <3>2 DEF FoundSoFar
  <2>3. CASE ServiceStatus
    <3> DEFINE p == Problem("service", appServices[next])
    <3>1. /\ pc = "services" /\ next \in DOMAIN appServices
          /\ due' = due /\ world' = world /\ issues \subseteq issues'
          /\ p \in world => p \in issues'
      BY <2>0, <2>3 DEF ServiceStatus, TypeOK
    <3>2. /\ next' = next + 1 => due' \cap Behind("service", appServices)' \subseteq issues'
          /\ ~(next < Len(appServices)) => due' \cap Services \subseteq issues'
      BY <2>D, <3>1, OnePlaceFurther DEF FoundSoFar, Services
    <3>3. \/ next < Len(appServices) /\ next' = next + 1 /\ pc' = pc
          \/ ~(next < Len(appServices)) /\ next' = 1 /\ pc' = "ports"
      BY <2>3, AdvanceLeads DEF ServiceStatus
    <3>4. next' = 1 => Behind("port", portChecks)' = {}
      BY NothingBehind
    <3> QED
      BY <2>D, <3>1, <3>2, <3>3, <3>4 DEF FoundSoFar
  <2>4. CASE failedPorts
    <3> DEFINE p == Problem("port", portChecks[next])
    <3>1. /\ pc = "ports" /\ next \in DOMAIN portChecks
          /\ due' = due /\ world' = world /\ issues \subseteq issues'
          /\ p \in world => p \in issues'
      BY <2>0, <2>4 DEF failedPorts, TypeOK
    <3>2. /\ next' = next + 1 => due' \cap Behind("port", portChecks)' \subseteq issues'
          /\ ~(next < Len(portChecks)) => due' \cap Ports \subseteq issues'
      BY <2>D, <3>1, OnePlaceFurther DEF FoundSoFar, Ports
    <3>3. \/ next < Len(portChecks) /\ next' = next + 1 /\ pc' = pc
          \/ ~(next < Len(portChecks)) /\ next' = 1 /\ pc' = "address"
      BY <2>4, AdvanceLeads DEF failedPorts
    <3> QED
      BY <2>D, <3>1, <3>2, <3>3 DEF FoundSoFar
  <2>5. CASE PublicIP
    <3>1. /\ pc = "address" /\ pc' \in {"dnsbl", "firewall"} /\ next' = 1
          /\ due' \subseteq due /\ world' = world /\ issues \subseteq issues'
          /\ NoAddress \in world => NoAddress \in issues'
          /\ pc' = "firewall" => due' \cap Listings = {}
      BY <2>0, <2>5 DEF PublicIP, TypeOK
    <3>2. Behind("dnsbl", dnsblZones)' = {}
      BY <3>1, NothingBehind
    <3> QED
      BY <2>D, <3>1, <3>2 DEF FoundSoFar
  <2>6. CASE dnsblListings
    <3> DEFINE p == Problem("dnsbl", dnsblZones[next])
    <3>1. /\ pc = "dnsbl" /\ next \in DOMAIN dnsblZones
          /\ due' \subseteq due /\ world' = world /\ issues \subseteq issues'
          /\ p \in world /\ p \in due' => p \in issues'
      BY <2>0, <2>6 DEF dnsblListings, TypeOK
    <3>2. /\ next' = next + 1 => due' \cap Behind("dnsbl", dnsblZones)' \subseteq issues'
          /\ ~(next < Len(dnsblZones)) => due' \cap Listings \subseteq issues'
      BY <2>D, <3>1, OnePlaceFurther DEF FoundSoFar, Listings
    <3>3. \/ next < Len(dnsblZones) /\ next' = next + 1 /\ pc' = pc
          \/ ~(next < Len(dnsblZones)) /\ next' = 1 /\ pc' = "firewall"
      BY <2>6, AdvanceLeads DEF dnsblListings
    <3> QED
      BY <2>D, <3>1, <3>2, <3>3 DEF FoundSoFar
  <2>7. CASE SyncCloudflareIPSets \/ CheckNewVersion
    <3>1. /\ \/ pc = "firewall" /\ pc' = "update"
             \/ pc = "update" /\ pc' = "alert"
          /\ UNCHANGED <<due, world, issues>>
      BY <2>7 DEF SyncCloudflareIPSets, CheckNewVersion
    <3> QED
      BY <2>D, <3>1 DEF FoundSoFar
  <2>8. CASE AllClear \/ sendAlert \/ AlertLost \/ Killed
    <3>1. pc' = "idle"
      BY <2>8 DEF AllClear, sendAlert, AlertLost, Killed
    <3> QED
      BY <3>1 DEF FoundSoFar
  <2>9. CASE Stage2Done \/ Hangs \/ WorldChanges
    <3>1. /\ due' \subseteq due /\ (due \subseteq world => due' \subseteq world')
          /\ UNCHANGED <<pc, next, issues>>
      BY <2>9 DEF Stage2Done, Hangs, WorldChanges
    <3> QED
      BY <2>D, <3>1 DEF FoundSoFar, Behind
  <2> QED
    BY <2>1, <2>2, <2>3, <2>4, <2>5, <2>6, <2>7, <2>8, <2>9 DEF Next, Step
<1> QED
  BY <1>1, <1>2

(* Every variable keeps its type, and no step of a check looks past the    *)
(* end of the list it goes through.                                        *)
THEOREM TypeCorrect == Spec => []TypeOK
  BY TypeInductive, PTL DEF Spec

(* Whatever changes while a check runs, whatever it finds first and where  *)
(* an earlier one was killed, a check that reaches its verdict names every *)
(* problem that has been there all along, listings that it could not look  *)
(* up aside (CheckAll).                                                    *)
THEOREM CheckMissesNothing == Spec => []MissesNothing
<1>1. IInv => MissesNothing
  <2> SUFFICES ASSUME IInv, pc = "alert" PROVE due \subseteq issues
    BY DEF MissesNothing
  <2>1. due \subseteq Services \cup Ports \cup Listings \cup {NoAddress}
    BY DEF IInv, TypeOK, Problems
  <2> QED
    BY <2>1 DEF IInv, FoundSoFar, PastServices, PastPorts, PastAddress, PastListings
<1> QED
  BY <1>1, InvInductive, PTL DEF Spec
=============================================================================
